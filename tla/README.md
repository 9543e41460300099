# stock-desk: specifications

These are the TLA+ models of stock-desk: the durable task queue, the pool backtests and
analysis runs that it carries, the data directory with its market lake, backups and
restores, the shutdown of the desktop sidecar, the exit of the desktop application around
it and the updater that may follow that exit. TLC checks small instances, TLAPS proves the main safety
properties for every value of the constants. `PROJECT.json` lists the components,
the runs, the mutants each property must catch, the source lines behind every
definition, the hazards of the code, the findings and the theorems.

    tlc -workers 2 -config MCTaskQueueServer.cfg MCTaskQueue
    tlapm TaskQueueProofs.tla

Contents: [the system](#the-system), [inventory](#inventory),
[modules](#modules-and-the-code-they-model), [runs](#runs-and-bounds),
[fairness](#fairness), [findings](#findings), [proofs](#what-is-proved),
[limits](#what-is-only-model-checked-and-what-is-left-out), [plan](#plan).

## The system

stock-desk is a local research workstation for A-shares. A FastAPI process serves a
React interface, a task worker runs long work, and both share one SQLite database and
one data directory, the market lake. It is deployed in two ways:

- **compose**: an API process, worker processes and a scheduler, each of which may die
  and be restarted on its own;
- **desktop**: a Tauri host (Rust) that starts one sidecar process holding the API and
  one worker thread; the host speaks to it over a loopback port and owns the window,
  the exit and the updater.

The parts talk through few, well defined places:

- *shared rows*: `task_run` and the domain row of a task (`backtest_run`,
  `analysis_run`) move together in one SQLite transaction. A worker proves that it may
  write by a claim token and an unexpired lease; nothing else fences it.
- *shared files*: the lake, the backups and the update journal are files next to the
  database; whatever must be atomic over both is ordered, with a marker or a journal.
- *one in-process gate*: `TaskRepository.hold_claim_gate` orders claims against the
  count of running tasks that a desktop shutdown takes, and against startup recovery.
- *two requests*: the host asks `POST /api/desktop/shutdown` and then
  `/shutdown/commit`, and learns of the end of the sidecar from its termination event.

What is hard here is order. The worker computes for minutes between two looks at the
database; a lease may lapse under it; a cancellation, a crash, a pause and a restart may
come between any two transactions; and the exit of the application crosses five threads
and a process boundary, each with its own timeout.

## Inventory

Modelled parts come first. For each: state; operations; who it talks to; what is hard;
what makes it correct.

### Task queue (`tasks/repository.py`, `tasks/models.py`)
State: `task_run` rows (status, `cancel_requested`, claim token, lease, `updated_at`,
attempt count, progress), event rows, worker heartbeat rows. Operations: enqueue,
claim, heartbeat, progress, complete, fail, request cancel, the claim-guarded domain
transactions, the recovery of a desktop start, the requeue before a restore. It moves
the run rows of analyses and backtests itself when a task is cancelled or expires.
Hard: stale owners, clock samples taken before the write lock, cancel against complete,
rows selected in one transaction and written in another. Correct: one owner writes; a
requested cancellation wins; a run never contradicts its task; leased work ends.
*Modelled: `TaskQueue`, `TaskLifecycle`.*

### Task worker (`tasks/worker.py`)
State: the claim in hand, the keepalive thread, a heartbeat subprocess. Operations:
`run_once`, keepalive, graceful stop, parent watchdog. Hard: an exception on leaving the
keepalive after the domain has already committed; the heartbeat process outliving its
worker. Correct: the row is settled or left to its lease. *`run_once` and the keepalive
are in `TaskQueue`; the heartbeat process and its contention grace are planned.*

### Backtest run store and pool runner (`backtest/repository.py`, `backtest/pool_runner.py`)
State: the run row with counters, one row per symbol, trades, events, failures,
aggregate and group metrics. Operations: `start_claim`, `checkpoint_symbol`,
`finish_claim`, `cancel_claim`, `fail_claim`, and the loop over the pool. It runs behind
`guard_claim_in_transaction` of the queue. Hard: two runners after a lapsed lease,
resumption over published symbols, a report made from rows read earlier. Correct:
counters, symbols and rows agree; results are written once, by the owner; the report is
complete; the run is decided. *Modelled: `BacktestRun`, `RunPublication`.*

### Desktop session and lifecycle controller (`desktop_session.py`, `main.py`, `sidecar.py`)
State: claim stop event, prepared and exit flags, startup recovery, checkpoint request
and acknowledgement, claim gate. Operations: shutdown, commit, resume or cancel recovery,
checkpoint pause, process start and end. Hard: the acknowledgement races its deadline,
two calls overlap, recovery is undecided during a shutdown. Correct: an accepted shutdown
is quiet, a refused one leaves no trace. *Modelled: `SidecarShutdown`; session
authentication and the routers are left out.*

### Desktop exit (`src-tauri/src/exit.rs`) and host (`app.rs`, `sidecar.rs`)
State: the exit machine, the runtime generation slot, a termination watcher, an exit
timer, a health monitor, pending effects. Operations: window commands, the attempt and
its replies, install hand-off, restart of the service. Hard: effects run with the lock
released, events of old generations, committed exits against late events. Correct: the
application leaves only a sidecar that is gone; the installer comes last; an attempt
ends. *Modelled: `ExitMachine`, `DesktopExit`.*

### Analysis runs (`analysis/repository.py`, `runner.py`, `workflow.py`)
State: a run row, a stage row per data section and role, attempt rows, artifacts, one
report. Operations: start and resume, data sections, binding of the inputs, attempts with
their outcomes, blocking, exhaustion, the report, retries in child runs, cancellation and
failure. Hard: a lease that lapses in the middle of an attempt, coroutines of one wave that
end in any order, a retry that reuses what an ancestor produced. Correct: nothing stays
open behind a run that has ended; the model is called no more often than the policy
allows; a retry is built on results that exist; the report says what was decided.
*Modelled: `AnalysisRun`, `ResearchPlan`.*

### Market lake (`market/lake.py`)
State: one file per year of a dataset, temporary files, manifest and partition rows.
Operations: publish a dataset, undo a publication that fails, recover one that was cut
short, list what is catalogued. Hard: a crash between linking a file and committing the
catalogue, a writer that undoes what an earlier one has catalogued. Correct: what is
catalogued is readable. *Modelled: `MarketLake`.*

### Storage (`storage/backup.py`, `lifecycle.py`, `database.py`)
State: the two components of a data directory (database and lake), the lifecycle lock,
the restore journal, a staging tree. Operations: backup beside running services, restore,
recovery of an interrupted restore, cleanup. Hard: a crash between a rename and the note
of it, during a recovery as much as during a restore; a backup of a database and a lake
that change while they are copied. Correct: old or new components as a whole; none is
lost; what is catalogued in a backup is in it. *Modelled: `DataDirectory`, `OfflineSwap`.*

### Desktop updater (`src-tauri/src/updater.rs`, `updater_journal.rs`)
State: the update machine, a staged installer, three records on disk (pending hand-off,
failed hand-off, watermark). Operations: check, confirm, download, verify, stage,
hand over to the installer, retract, reconcile at a start. Hard: the host may end around
each write; the installer outlives it; a write may have happened although it reports an
error; two confirmations overlap. Correct: evidence of a hand-off is kept until it is
resolved, and the watermark moves only to what is installed. *Modelled: `Updater`, with the
runtime enabled; version 1.1.0 ships with it off.*

### Parts that are not modelled yet

| Part | State and operations | Hard to get right | Correct when |
|---|---|---|---|
| Market scheduler (`market/scheduler.py`) | schedules, occurrences; `tick`, create, replace, enable | several schedulers, a clock that is sampled once for many schedules | at most one task per schedule and local day, none lost while the scheduler lives |
| Market update and worker runtime (`market/update.py`, `worker_runtime.py`) | update reports; scheduler loop, worker loop | one loop's death takes the other down in order | an update is all or nothing per instrument |
| Execution-status lake, reads of the lake (`market/execution_status_lake.py`, `lake.py`) | the same kind of files, validation of what is read | a reader beside a writer | a read returns one publication |
| Routing and providers (`market/routing.py`) | provider order, diagnostics | falling back in the middle of a series | one series comes from one provider |
| Instruments and pools (`market/instruments.py`, `pools.py`) | manifests, preset snapshots, custom pool revisions; ingest, publish, create, update, delete | revision compare-and-set, an orphan pinned by a run | revisions increase, a pinned snapshot never changes |
| Backtest engine (`backtest/state_machine.py`, `execution.py`, `trades.py`) | position state, pending order; signals, block, fill, finish range | eligibility dates, same-day sale, opposite signals | one order at a time, no sale of shares bought the same day |
| Formula language (`formula/`) | parsed trees, series, drafts and versions | rolling and recursive operators at the edge of the window | values equal the definition |
| Model catalogue and settings (`analysis/model_settings.py`) | configuration records; create, successor, disable | a successor of a disabled record | one enabled successor |
| Secrets and redaction (`security/`) | encrypted records, patterns | none of protocol kind | text filtering, not a protocol |
| Workspace, onboarding, guidance | one state record each, with a revision | a stale `PUT` | last accepted revision wins |
| HTTP API, web server, frontend | validation, page state | none durable | requests reach the repositories above |
| Scripts, packaging, migrations | build tooling | outside the running program | |

## Modules and the code they model

| Module | Models | Uses |
|---|---|---|
| `TaskLifecycle` | abstract: what a task row may do, seen by its reader | |
| `TaskQueue` | the queue, its workers, leases, recovery and the status of domain runs | implements `TaskLifecycle` |
| `MCTaskQueue` | small instances | `TaskQueue` |
| `TaskQueueProofs`, `TaskQueueSafetyProofs` | theorems about `TaskQueue` | `TaskQueue` |
| `RunPublication` | abstract: results published once, one complete report, one outcome | |
| `BacktestRun` | one pool backtest over its claims | implements `RunPublication` |
| `MCBacktestRun`, `BacktestRunProofs` | small instance, theorems | `BacktestRun` |
| `SidecarShutdown` | the sidecar while it is asked to stop | |
| `MCSidecarShutdown`, `SidecarShutdownProofs` | small instances, theorems | `SidecarShutdown` |
| `ExitMachine` | the reducer of `exit.rs`, one operator per method | |
| `DesktopExit` | all threads of the host around the sidecar | `SidecarShutdown`, `ExitMachine` |
| `MCDesktopExit`, `DesktopExitProofs` | small instances, theorems | `DesktopExit`; the proofs also `SidecarShutdownProofs` |
| `ResearchPlan` | abstract: five roles, each decided once, and one report | |
| `AnalysisRun` | analysis runs and their retries over their claims | implements `ResearchPlan` |
| `MCAnalysisRun`, `AnalysisRunProofs` | small instances, theorems | `AnalysisRun` |
| `MarketLake` | publication of the files of a dataset | |
| `OfflineSwap` | abstract: a restore replaces the pair of components in one step | |
| `DataDirectory` | services, backups, restores and recoveries of a data directory | extends `MarketLake`, implements `OfflineSwap` |
| `MCDataDirectory`, `DataDirectoryProofs` | small instance, theorems | `DataDirectory` |
| `Updater` | the update machine, its three records and the installer | |
| `MCUpdater`, `UpdaterProofs` | small instance, theorems | `Updater` |

The queue appears in three resolutions. `TaskQueue` has clocks, leases, tokens and many
tasks, and treats a domain run as a status. `BacktestRun` follows one task down to its
result rows and keeps of the queue what this task sees. `SidecarShutdown` keeps a task's
status only and adds the claim gate, which the other two leave out because it orders
claims against a shutdown and against nothing else. `AnalysisRun` follows the tasks of an
analysis and of its retries the way `BacktestRun` follows its one. A definition whose comment begins
with `Fault:` is no part of a specification: it is the mutation one of the properties is
tested against.

### `TaskQueue`

One action is one SQLite transaction. The first statement of nearly every writing
transaction of `TaskRepository` is an UPDATE or an INSERT, so it holds the write lock
from its first read on, and these do not interleave; `cancel_desktop_recovery` reads
first, and is two actions. Local steps of a worker (the handler returns
or raises, `run_once` settles the task) are actions of their own, and everything may
happen between them.

| Code | Model |
|---|---|
| `enqueue`, `request_cancel` | `Enqueue`, `RequestCancelQueued`, `RequestCancelRunning` |
| `claim_next` with `_terminalize_expired_cancellations` | `ClaimTask`, `ClaimNothing` |
| `heartbeat`, `set_progress`, `start_claim` / `start_run` / `resume_run` | `Heartbeat`, `Progress`, `StartRun` |
| `complete_claim_in_transaction`, `cancel_claim`, `fail_claim`, `fail_run` | `FinishRun`, `CancelRun`, `FailRun` |
| `TaskWorker.run_once` after the handler | `WorkerCompletes`, `WorkerFails` |
| `pause_at_desktop_checkpoint` | `PauseAtCheckpoint` |
| `resume_desktop_recovery`; `cancel_desktop_recovery` | `RecoveryResume`; `RecoveryCancelSelect` then `RecoveryCancelApply` |
| `requeue_expired_leases_for_offline_snapshot` | `OfflineRequeue` |
| a worker dies, a keepalive dies, the sidecar restarts | `Crash`, `HeartbeatStops`, `Restart` |

*Clocks.* An operation samples the wall clock before it waits for the write lock, and the
wall clock may step back, so it acts on a sample that is up to `MaxLag` ticks old. Times
are kept relative to the present and capped where no sample can tell them apart, so the
state space is finite without a bound on the length of a behaviour.

*Abstractions.* Progress is not a number here (`BacktestRun` has it). `succeeded` of a
run stands for `succeeded`, `partial_failed` and `partial`, which the task does not tell
apart. A validation error raised by `complete` after a handler returned leads to `fail`,
which `HandlerRaises` followed by `WorkerFails` covers, as it covers a task of an unknown
kind. Event rows and the worker status table influence no claim.

### `BacktestRun`

One task, one run, any number of runners. `stage[r]` is the place of runner `r` in
`PoolBacktestRunner.__call__`: `claimed`, `reading` (the gap between the commit of
`start_claim` and the `get_run` it returns), `loop`, `computing`, `checkpointed`,
`closing`, `finishing`, `cancelling`, `failing`, `raised`. `todo[r]` is what is pending in
the snapshot the runner read once; `samples[r]` are the trades it read for its report.

| Code | Model |
|---|---|
| `create_in_transaction` | `Init` |
| `start_claim`; the read it returns | `StartRun`; `ReadRun` |
| `_prepare_claim`: next symbol, end of the loop | `NextSymbol`, `LeaveLoop` |
| `checkpoint_symbol`; its early return | `Checkpoint`; `CheckpointDecided` |
| cancel look and reads before the report | `Close` |
| `finish_claim`, `cancel_claim`, `fail_claim` | `FinishClaim`, `CancelClaim`, `FailClaim` |
| `__call__` swallows what `fail_claim` raises | `FailClaimSwallowed` |
| `_keep_claim_alive` raises on leaving, after the commit | `LeavesKeepalive` |
| queue and processes | `Claim`, `EndLapsedCancellation`, `RequestCancel`, `Crash`, `PauseAtCheckpoint`, `SidecarRestarts`, `RecoveryResume`, `RecoveryCancel`, `OfflineRequeue`, `LeaseLapses` |

*Abstractions.* A lease has lapsed or has not (`TaskQueue` has the clocks) and may lapse
at any moment, also under a runner at work. A claim token is the number of the claim. The
trade, event and snapshot rows of a symbol are one row `<<symbol, claim>>`, which lets the
properties say under which claim it was written. Progress is counted in symbols. The look
at the cancellation and the heartbeat at the top of the loop are one step: a request that
comes between them has the effect of one that comes right after both. Log rows, exports, paging and result hashes are left out. `desktop` is
chosen initially; there is one runner at a time in the desktop.

### `SidecarShutdown`

The request handlers run in a thread pool, so each call has a program counter:
`counted` (under the gate) to `waiting` (for the checkpoint) to `drained` or `missed`, then
the answer. The commit reads `shutdown_prepared` and applies it in two steps. Conditions
are flags of the controller (`claimStop`, `prepared`, `serverExit`, `recovery`) and of the
repository (`requested`, `acknowledged`). `pause_at_desktop_checkpoint` acknowledges and
unwinds the handler in one step: the flag is set inside the call that raises. The deadline may
pass at any time. `Spec` composes the sidecar with the client it is written for, one
that awaits the answer of a call before it sends the next; `DesktopExit` drops that
client and puts the host in its place, with requests it gave up and that are still
served.

### `ExitMachine` and `DesktopExit`

`ExitMachine` has one operator per method of the Rust reducer; each returns the next
machine and the effect. `DesktopExit` has one action per critical section of each thread:

| Code | Model |
|---|---|
| `desktop_request_exit`, `desktop_cancel_exit` | `RequestExit`, `CancelExit` |
| `desktop_confirm_exit`, `begin_update_install`: look at the runtime, then at the machine | `BeginCommand`, then `StartAttempt` or `ConfirmWithoutSession` |
| `terminate_non_ready_for_exit`, `app.exit(0)` | `TerminateNonReady`, `ExitNonReady` |
| `continue_shutdown` | `AttemptAnswered`, `CommitAnswered` |
| `finish_effect` | `PerformRecover`, `PerformExit`, `PerformInstall` |
| `sidecar_terminated`, its two locks | `TerminationSeen`, `TerminationApplied` |
| the exit timer, startup handshake, health monitor | `TimerFires`, `Handshake`, `HealthLost` |
| `desktop_restart_service` | `RestartAsk`, `RestartBegin`, `RestartSpawn` |

Left out: the counts shown in the window, emitted events, version mismatch and the
`can_restart` flag (both only choose the text of the recovery page or forbid the
restart the model allows), the signal path of the shutdown, which no caller uses,
the recovery of a failed updater transaction, and concurrent window commands beyond one
at a time and a restart beside it. When the application exits, a sidecar that is still
alive ends with it: this is the job object of the Windows build, the one that is shipped.

### `AnalysisRun`

A run is a number, the retry of run 1 is run 2. A claim of its task is numbered too, and the
number is its token. `pc[r][k]` is the place of the runner of claim `k` in
`AnalysisRunner.run`, `co[r][k][x]` that of its coroutine for role `x`.

| Code | Model |
|---|---|
| `claim_next`, expiry scans, `request_cancel`, offline requeue and resume | `ClaimTask`, `Reclaim`, `TerminalizeCancelled`, `RequestCancel`, `Requeue` |
| a lease runs out, under a dead or a living runner | `Lapse` |
| `start_run`, `resume_run` | `Begin` |
| `_acquire_data_sections`; `bind_inputs` | `StartFetch`, `Fetched`, `FetchFails`; `BindInputs` |
| `block_stage` over the roles that cannot run | `BlockNext` |
| a wave of `_execute_role`: look, start, answer, failure | `Visit`, `StartCall`, `PrepareFails`, `RecordUnprepared`, `Answered`, `CallFails`, `EndWave` |
| `pause_at_desktop_checkpoint` between sections and waves | `Pass`, `Pause` |
| `finalize_run` | `FinalizeRun` |
| `AnalysisWorkerHandler`: cancellation, a lost claim | `ObserveCancel`, `Fenced` |
| an exception anywhere in the runner, or in one coroutine of a wave; `fail_run` | `Unexpected`, `CoroutineBreaks`; `HandlerFails` |
| `get_run_by_task` or `fail_run` raises, and `run_once` fails the task alone | `FailureUnrecorded` |
| `enqueue_retry` | `EnqueueRetry` |

*Abstractions.* Sections, prompts, outputs and reports are not represented beyond which
stage has one; a report is the set of roles it shows. A lease has lapsed or has not.
The look at the cancellation before an attempt and its start are one action.

### `MarketLake`, `DataDirectory` and `OfflineSwap`

| Code | Model |
|---|---|
| `_write_locked` under the namespace guard: recovery of a leftover, temporary file, link, unlink, catalogue transaction | `BeginWrite`, `RecoverPublish`, `CreateTemp`, `LinkTarget`, `UnlinkTemp`, `CommitCatalog` |
| a failure and the removal of what this writer created | `WriteFails`, `Undo` |
| services start, create what is missing, write, stop; any process dies | `StartService`, `CreateDatabase`, `CreateLake`, `WriteRows`, `WriteLake`, `StopService`, `Crash` |
| `create_backup`: copy of the database, then the files it lists | `CopyDatabase`, `HoldMarketFiles` |
| `_restore_backup_locked`: locks, requeue of abandoned tasks | `BeginRestore`, `RequeueExpiredLeases` |
| `_restore_owned_components` before its journal: recovery archive, stage, and its removal when anything fails | `SaveRecoveryArchive`, `StageBackup`, `AbandonRestore` |
| the journal, the renames and their notes | `WriteJournal`, `Move`, `NoteMove`, `Place`, `NotePlace`, `Commit` |
| `_remove_restore_stage`, `_finish_restore_cleanup` | `RemoveManifest`, `RemoveAside`, `FinishCleanup` |
| `_recover_interrupted_restore_locked`: compare, roll back, clean up | `BeginRecovery`, `ReconcileMove`, `ReconcilePlace`, `Discard`, `NoteDiscard`, `PutOldBack`, `NotePutBack`, `RolledBack` |

*Abstractions.* A component is its contents, compared by value where the code compares
hashes. An archive holds the catalogued files and the rows. The lifecycle lock is the
guard `~serving /\ Idle` of a restore and a recovery. `prep` is how far a restore has come that
has no journal yet. The requeue is one transaction of the live database, which stays whatever
becomes of the restore; `rows` counts it, and `OfflineRequeue` of `TaskQueue` has what it does
to the tasks. The recovery archive may become the backup that the next restore is given. A
staging directory has a new name each time; `strays` counts those that no journal names, the
one being filled and those of restores that died, or failed and could not remove theirs, before
the journal. Nothing in the code looks for them again, so they stay; all they do is
make an otherwise empty directory one that a restore takes for used.
A backup takes neither the lock of the lake nor the lifecycle lock: it waits
for running tasks to end and holds the claim gate, and the lake may still be written
beside it. The POSIX lake is modelled; the one of Windows keeps its payload in the database.
`OfflineSwap` sees the pair of components that is in force: the live one, or what is set
aside while a restore may still be rolled back. Its one other offline change of the pair is
`Settle`, the requeue, at most once for each restore that has begun. The backup a swap installs is the one the
restore was given (`Offered`), which need not be the newest one: a restore into a directory
without a database does not hold the migration lock `create_backup` waits for, so a backup
may be taken beside it and replace `archive` before the commit.

### `Updater`

The three records are sets of at most one record. `todo` is what a start has still to write,
in order, and `calls[c]` is where a call of `desktop_confirm_update` is.

| Code | Model |
|---|---|
| `reconcile_persisted_state_for`: the decision, its writes, the state it ends in | `StartHost`, `KeepWatermark`, `KeepFailed`, `DropPending`, `DropFailed`, `FinishStart`, `StartFails` |
| `desktop_check_for_updates`, `dismiss` | `BeginCheck`, `FinishCheck`, `CheckFails`, `DismissUpdate` |
| `desktop_confirm_update`: consent, download, stage, second check, install | `Consent`, `ConfirmDownload`, `ConfirmInstall`, `ConfirmRefused`, `Downloaded`, `DownloadFails`, `StageFails`, `AcceptVerified`, `Refreshed`, `RefreshFails`, `Reject`, `BeginUpdateInstall` |
| `launch_verified_install_inner` | `ShutdownFails`, `TakeVerified`, `PersistPending`, `PersistFails`, `LaunchInstaller`, `LaunchFails`, `RetractPending`, `RetractFails` |
| the host ends; the installer; the user (external) | `HostEnds`; `InstallerSucceeds`, `InstallerFails`; `InstallByHand` |

*Abstractions.* A release is its version; a program has a version and comes from a release
or from elsewhere. A record is written as a whole (a temporary file and a rename). A write
that reports an error may have happened. The exit machine is the flag `closing`
(`DesktopExit` has it). One installer runs at a time and never installs an older program.
Transport, signatures and staging files are left out; their failures are the failing
actions above. `StageFails` includes the loss of the staging task itself, after which the call
ends and the machine keeps verifying until the host is started again.

## Runs and bounds

| Run | Instance | States | Shows |
|---|---|---|---|
| `task_queue_server` | 2 workers, 3 tasks (backtest, analysis, unleased), 4 tokens, lease 3, lag 1, 1 fault | 425 692 | fencing, unleased tasks, outcomes, timestamps, lifecycle |
| `task_queue_desktop` | 1 worker, 3 tasks, 3 tokens, 2 faults, recovery | 846 464 | the lifecycle also holds over restarts and recovery |
| `task_queue_liveness` | 2 workers, 2 tasks, 2 faults | 107 844 | leased work ends |
| `backtest_run` | 2 runners, 3 symbols (one gap), 3 claims | 123 676 | publication, counters, report, no repetition, decision |
| `analysis_run` | 2 sections, 5 roles, a run and a retry, 3 claims each, 2 attempts, 2 faults | 86 783 | open work, call budget, retries, the plan, the run ends |
| `data_directory` | 1 dataset of 2 years, 1 other row, 3 crashes, 2 restores, 3 foreign backups | 578 109 | files are found, nothing is lost, when a recovery refuses, a restore is a requeue at most and a swap, and is decided |
| `sidecar_shutdown` | 2 tasks, 2 calls, 2 faults | 50 544 | accepted is quiet, refused leaves no trace, calls end |
| `desktop_exit` | 1 task, 2 calls, 1 fault, 2 generations | 1 767 019 | a stop quiesces, an open window works, leaving is orderly |
| `desktop_exit_liveness` | 1 task, 1 call, 1 fault, 2 generations | 137 409 | attempts end, a dead sidecar is noticed |
| `updater` | 3 versions, 2 concurrent confirmations | 61 349 | evidence, refusals, what the window says, the watermark |
| `orphaned_run`, `failed_stage_resume` | smallest instances | | the [findings](#findings) |

Why the bounds are enough to mean something:

- *Workers, runners.* Stale ownership needs two. A third stale worker repeats the second.
- *Tasks.* One of each kind: leased with and without the analysis exception, unleased.
- *Tokens.* Four: two rows and two workers may hold different ones at once.
- *`LeaseTicks` 3, `MaxLag` 1.* The smallest lease for which a renewal by a late sample
  still keeps the row (`LeaseTicks >= MaxLag + 2`, the code has 30 s or 120 s against
  milliseconds of lag). A lease can be fresh, about to lapse, lapsed for some samples
  and not for others, and lapsed for all.
- *Faults.* One or two: a crash to lose a claim, another to lose the next.
- *Symbols and claims.* Three symbols make a first, a middle and a last checkpoint; three
  claims a stale one, a current one and a next one. `LeaseLapses`, `Crash`,
  `PauseAtCheckpoint` and `SidecarRestarts` take a claim away only while one is left,
  so that `RunIsDecided` asks about the code and not about the bound.
- *Calls and generations.* Two calls overlap; two generations give late events of the
  first. The code allows three restarts by the user (`MAX_USER_RESTARTS`), the model one.

- *Sections, attempts, runs.* One critical section and one other, one attempt and one retry
  of it, a run and a child of it. The five roles, their waves and their dependencies are
  the ones of the code. Two faults (a lapse, a pause, a failure, a cancellation) are enough
  to have one hit what the other has left behind; a child of a child repeats the step of a
  child, since origins are read from the parent's rows.
- *Data directory.* Two years make a publication that stops half way; three crashes hit a
  write, the restore over it and the recovery of that; the foreign backups are two of empty
  directories, without and with a lake, and one with other contents, so that a restore may change both components, one, or none.
- *Versions.* Three: the one that runs, the one handed over, and one that is newer still or
  was installed by hand. The update machine bounds itself, no counter is needed.

`CHECK_DEADLOCK FALSE` is set where the system really stops: the application has
exited, or every task has ended and the claims, calls and faults are used up. The runs
of `TaskQueue` check for deadlock: time always goes on there. Symmetry is used where no
value is special (workers, tokens, calls) and never under a liveness property.

## Fairness

Liveness is checked only under weak fairness, and of steps the program takes by itself.

- `TaskQueue!FairSpec`: time passes; workers poll (`ClaimStep`), keepalives renew,
  handlers end (every handler is bounded by its input and its provider timeouts),
  `run_once` settles its task, and the user who sees the recovery dialog answers it. No
  user has to create or cancel anything, and no fault has to happen.
- `BacktestRun!LiveSpec`: an idle runner that may claim does; a runner at work goes on;
  the lease of a claim nobody holds runs out.
- `SidecarShutdown!LiveSpec`: request handlers run in threads of their own and their wait
  has a deadline, so each call moves; the handler of the worker thread ends; the server
  loop ends once it is told to. Claims, the client and recovery owe nothing.
- `DesktopExit!DesktopLiveSpec`: the two requests have client timeouts, the exit timer is
  a sleep, effects and events are carried out by the thread that took them, the health
  monitor polls a dead sidecar, and a command that has closed the generation goes on to
  exit. The sidecar owes nothing: an attempt ends even when it never answers.
- `AnalysisRun!LiveSpec`: the steps of runners and the scans of the queue go on. Faults are
  bounded, so leases lapse finitely often; each retry uses up an attempt. The user owes
  nothing, and neither does the provider: a call that never returns is one that fails, as
  its timeout makes it.
- `DataDirectory!LiveSpec`: a restore, its preparation, a cleanup and a recovery under way go
  on (a preparation may also be given up: every lock and every wait in it has a timeout), and a start
  that meets a journal recovers first and is tried again, as a supervisor or a user does
  who finds the service down. Services need not start otherwise, and nobody has to restore.
- `Updater` has safety properties only: a start, a click and an installer are all up to
  somebody outside.

What liveness therefore does not say: that a handler which never returns is stopped
(the code has no such limit outside the desktop), or that a task whose handler kills its
worker each time ends (there is no attempt limit; see the hazards).

## Findings

Each violation run states what a document, a comment or a test says, and TLC finds a
behaviour of the code that refutes it.

1. **A run can be orphaned** (`orphaned_run`). Cancelling a queued task moves its domain
   run only while that is queued, but after a resume or an offline requeue the run is
   `running`: the task is cancelled and its run stays running for ever.
2. **A failed stage takes its run with it** (`failed_stage_resume`). The loop over the roles
   of a wave takes only succeeded and reused stages for decided (runner.py:242). A role fails
   for good, the worker dies before the report is written, and the next claim visits
   the failed stage again; `start_attempt` refuses a stage that is not pending and the
   handler fails the whole run. There is no partial report and nothing to retry, although
   docs/troubleshooting.md:96 promises both. The loop over the data sections skips failed
   stages (runner.py:407).

Observed while modelling and without a run of their own. In the queue and the sidecar:

- After a restart `resume_desktop_recovery` requeues a task whose cancellation was
  requested and keeps the request; no claim takes that row and no expiry scan looks at
  it, so it stays queued until it is cancelled again (docs/troubleshooting.md:77: "Request
  cancellation once and wait for a terminal state."). `RunIsDecided` of `BacktestRun`
  excepts requested cancellations for this reason.
- A run can be left behind by a task that has failed. `PoolBacktestRunner.__call__` swallows
  what `fail_claim` raises (pool_runner.py:385) and `run_once` then fails the task alone; an
  analysis handler reads its run outside its `try` (analysis/worker.py:57) and its `fail_run`
  may raise (:116), with the same result. The run stays `queued` or `running` for ever, nothing
  looks at it again, and an analysis retry left behind keeps its parent from being retried.
  `RunIsDecided` speaks of the run and names this case (`LeftBehind`) as its escape, and
  `RunEnds` likewise excepts a task that has failed.
- While the recovery dialog is open the running rows of the former process count as
  running and no handler can acknowledge for them, so every confirmed exit waits ten
  seconds and is refused, and claims stay stopped.
- `cancel_desktop_recovery` writes its raw sample into `updated_at` (repository.py:1240),
  which can move it back, against the docstring of `_transition_time` (:351).
  `TimestampsMonotone` is therefore checked and proved for the compose deployment.
- A storage error after an acknowledged checkpoint leaves the request set
  (main.py:1030): the next handler to reach a checkpoint pauses at once. `WorkRestored`
  names it as its exception.
- With overlapping calls, which a client that awaits its answers never has, a refused
  call withdraws the preparation of an accepted one, and the commit of the latter finds
  nothing prepared and is refused. The host does overlap calls: it gives a request up
  after a timeout while the sidecar still serves it. With two calls that is all; with four,
  TLC finds a stop that begins while a handler runs. A commit that has read
  `shutdown_prepared` is overtaken by the withdrawal of another call, work is claimed, a
  further call counts that work and prepares again, and the old commit then applies; the
  host's `recover` effect has to stay pending through several commands for this. The handler
  is one that was asked to pause, and the process waits for its thread. `StopQuiesces`
  says exactly this much (nothing more can be claimed, and what still runs was asked to
  pause and has not acknowledged), and `BegunStopIsQuiet` proves it for any number of
  calls.

In the desktop host:

- `sidecar_terminated` looks at the exit machine and moves it under two locks
  (exit.rs:486). A blocked reply in between uses the event up and the window shows a
  dead sidecar as busy, until the health monitor finds it: `DeadSidecarIsNoticed` holds.
- `desktop_restart_service` reads `exit_idle` before it takes the runtime lock
  (app.rs:750), so a restart can begin beside an exit that was just requested. The
  generations keep the two apart; the safety properties hold with it.
- The exit without a ready session is committed under one lock and the generation closed
  under another (app.rs:400, :403); a handshake between the two leaves a healthy sidecar
  that is never asked to stop. `LeavingIsOrderly` speaks of the
  generation that was shut down, and there is none here.

In the data directory:

- A recovery refuses for ever after a crash in the middle of removing the staging tree,
  once the manifest or part of a lake in it is gone, although
  docs/backup-and-restore.md says "An unfinished replacement is rolled back; a committed
  replacement is finalized." It also refuses when a component of the backup equals the
  original and its rollback was cut short between a rename and the note of it: the code
  compares contents and cannot tell the two apart. `RefusesOnlyTornOrEqual` says that
  these are all the cases; no component is lost in them.
- A lake with a publication that was cut short (a file under two names) makes a restore
  refuse until the dataset is written again.

In the updater:

- If the old program is started again while the installer runs, the hand-off is recorded as
  failed, and when the installer then succeeds the watermark is not advanced
  (docs/architecture.md:82 describes the watermark as that of the installed program).
- A late installer, or an installation by hand, while another hand-off is pending, makes
  the starts that follow refuse their records; so does an installation by hand below the
  watermark. `OnlySurprisesAreRefused` says that nothing else does.

## What is proved

TLAPS checks 12 117 obligations in eight modules. The theorems hold for any sets of tasks,
workers, tokens, calls, runners, symbols, sections, runs, datasets and backups, any number of
years, versions and processes and any bounds, under the named assumptions on constants:

- `TasksAssumption`, `KindsAssumption`, `TokenAssumption`: tasks are ordered by a number,
  the kinds are nested, the null values are no tasks and no tokens;
- `ClockAssumption`: `LeaseTicks >= MaxLag + 2`, the only quantitative one; only
  `LiveWorkersKeepTheirClaim` needs its inequality;
- `SymbolsAssumption`: a pool is finite and its rows are numbered; `ClaimsAssumption`;
- `NamesAreDistinct` of `SidecarShutdown`; `AGenerationExists` of `DesktopExit` (the host
  starts at least one process); `VersionsAssumption` of `Updater` (there is a version);
- `YearsAssumption` of `MarketLake` (a dataset has a file), `DirectoryBounds` and
  `ForeignAssumption` of `DataDirectory`: the backup of another directory holds one database
  and, unless its catalogue is empty, a lake with every file it lists and no other
  (`_held_market_files` copies the listed files only, and a restore verifies them);
- `SectionsAreNotRoles` of `AnalysisRun`: a data section has a stage of its own (`_STAGES`);
- `~Desktop`, a hypothesis of `ServerTimestamps` alone.

| Theorem | States | Rests on |
|---|---|---|
| `TaskQueueProofs!TypeCorrect` | `TypeOK`, and a worker has a token exactly with a leased task | `Holding` |
| `RecoveryQuiet`, `DeclineIsSafe` | `RecoveryIsQuiet`, `SelectedStillOpen` | `LifecycleInv` |
| `QueueImplementsLifecycle`, `CancellationWins` | `ImplementsLifecycle`, `CancelWins` | `LifecycleInv` |
| `ClaimsMatchRows`, `Fencing`, `UnleasedExclusive` | `LeaseExactlyWhileRunning`, `OneWriter`, unleased tasks | `ClaimInv` |
| `OutcomesAgree` | `RunOutcomeAgrees` | `OutcomeInv` |
| `LiveWorkersKeepTheirClaim` | `NoTheftFromLiveWorker` | `RenewedInTime` |
| `ServerTimestamps` | `TimestampsMonotone` | `NoRecovery` |
| `BacktestRunProofs!ResultsAgree`, `ReportsComplete`, `NothingIsRepeated`, `TypeCorrect` | `CountersAgree`, `ReportIsComplete`, `WorkIsNotRepeated`, `TypeOK` | `RunInv` |
| `WritesAreFenced`, `RunImplementsPublication` | `OnlyTheOwnerWrites`, `ImplementsPublication` | `RunInv` |
| `SidecarShutdownProofs!AcceptedIsQuiet`, `RefusedLeavesNoTrace`, `RecoveryIsHeld`, `TypeCorrect` | `QuiescedOnceAccepted`, `WorkRestored`, `RecoveryHoldsWork`, `TypeOK` | `StopInv` |
| `DesktopExitProofs!BegunStopIsQuiet`, `OpenWindowWorks`, `LeavesInOrder`, `DesktopTypeCorrect` | `StopQuiesces`, `OpenAppWorks`, `LeavingIsOrderly`, `DesktopTypeOK` | `DesktopInv` (`HostAndSidecarAgree`) |
| `AnalysisRunProofs!OpenWorkAccounted`, `BudgetHolds`, `RetriesBuildOnOriginals`, `TypeCorrect` | `OpenWorkIsAccountedFor`, `CallsWithinBudget`, `RetryBuildsOnOriginals`, `TypeOK` | `AnalysisInv` (`RowsAndRunnersAgree`) |
| `ImplementsResearchPlan` | `ImplementsPlan` | `AnalysisInv` |
| `DataDirectoryProofs!FilesAreFound`, `NothingLost`, `RefusalsExplained`, `DirectoryTypeCorrect` | `ServicesFindTheirFiles`, `NothingIsLost`, `RefusesOnlyTornOrEqual`, `TypeOK` | `Sound` |
| `DirectoryImplementsSwap` | `ImplementsSwap` | `Sound` |
| `UpdaterProofs!HandOverLeavesEvidence`, `RefusalsAreSurprises`, `StateIsTrue`, `WatermarkFollows`, `TypeCorrect` | `EvidenceIsKept`, `OnlySurprisesAreRefused`, `StateTellsTheTruth`, `WatermarkFollowsProgram`, `TypeOK` | `UpdaterInv` |

Why the strengthenings are needed:

- *`LifecycleInv`* = `TypeOK`, `Holding`, `RecoveryIsQuiet`, `SelectedForDecline`,
  `SelectedStillOpen`, `RequestMatches`. The update that declines a recovery does not test
  the status. It is harmless because between its select and its update no handler can
  run (the claims are stopped), so a selected row can only have been cancelled; and the
  lifecycle needs that a cancelled row was asked to be.
- *`ClaimInv`* adds `LeaseExactlyWhileRunning`, `UniqueTokens` and `Unleased`. Fencing follows
  from uniqueness of the tokens that are stored or held, which a fresh draw keeps as
  long as every path that takes a claim away clears the row.
- *`OutcomeInv`* adds `ReturnedIsFenced`: once a leased handler has returned, its row no
  longer carries its token, so the late `complete` or `fail` of `run_once` cannot settle
  a task its domain transaction did not settle the same way.
- *`RenewedInTime`*: a kept-alive lease has a tick left at every moment, so no sample that is
  at most `MaxLag` old finds it expired.
- *`RunInv`* = `TypeOK`, `Tokens`, `CountersAgree`, `Snapshots`, `ReportIsComplete`.
  `Snapshots` says what a runner *that still owns the claim* read is still true: the
  symbols in `todo` are the pending ones and the trades sampled for the report are all
  trades. It is preserved because only the owner writes results and two runners never
  hold the same number.
- *`StopInv`* = `TypeOK`, `OneCall`, `GateHolder`, `Progressed`, `Reasons`, `Gone`.
  `Progressed` is what a call has established at each stage (a count of no running task
  stays true under the gate); `Reasons` says every flag that keeps work from running
  has a call or an undecided recovery behind it.
- *`DesktopInv`* = `SidecarFits`, `HostFits`, `CallsFit`. `StopInv` does not hold here: its
  `OneCall` is the client that the host is not. `SidecarFits` is what is left of it without
  that client: a preparation may be withdrawn by any call, but whoever prepares has
  counted under the gate, and a handler that still runs was counted. `HostFits` has what
  each state of the exit machine implies (`Sound`), that the machine is past its point of
  no return only for a generation that is gone, and which generation each thread of the host
  acts for (`ThreadsFit`, `GenerationsFit`): that is why an event that arrives late is ignored,
  and it is what `LeavesInOrder` rests on. `CallsFit` says that while no attempt of
  the present generation was given up, the one request the sidecar serves is the one the
  machine waits for; so in an open window whatever holds the sidecar back has
  been taken back.
- *`AnalysisInv`* = `TypeOK` and, for every run, `RowsAgree`, `InputsFit`, `ClaimFits`,
  `AttemptsFit`, `RunnerFits`, `OriginsFit`. `RowsAgree` relates task, run and
  stage rows; `InputsFit` what the bound inputs say of the stages. `RunnerFits` is what holds
  of any runner, late or not, by the order of its waves; `ClaimFits` ties the
  coroutines to the stage rows, but only for the runner whose claim is the current one,
  since a late runner knows nothing that is still true. `AttemptsFit` bounds the requests to the model
  by the attempt rows of the stage, which makes the budget one of the run and not of the
  claim. `OriginsFit` says that what a retry reuses is a row of an ended run that has
  succeeded itself, built on the outputs it is shown with.
- *`Sound`* of `DataDirectoryProofs` = `DirectoryInv` (`Typed`, `LakeFits`, `JournalFits`) and `StartFits`. `LakeFits` has what a writer may
  rely on (a dataset that is catalogued already has no year this writer created, so its undo
  takes nothing away) and that the pair in place, every backup, and both pairs of a journal are
  `Usable`. `JournalFits` says, for an undecided restore, in which of five situations each
  component is (`Untouched`, `Moved`, `Placed`, `Undone`, `Restored`) and which of them the
  steps in `todo` imply: `Restoring` for the restore itself and `RollingBack`, with what each
  of its fourteen steps may rely on, for its recovery. The notes in the journal alone would
  not do: a crash between a rename and its note leaves them one rename behind, in either direction.
  The one situation in which contents and notes do not tell what happened is `Mistaken`: new
  contents equal to the old ones, put back but still noted as placed. Every refusal of an
  undecided restore comes from it, every other one from a cleanup that was cut short.
  `StartFits` is about a restore without a journal: no service runs beside it, the backup it was
  given is `Usable`, there is a database while its tasks are settled, and each restore begun has
  left at most one stage.
- *`UpdaterInv`* = `TypeOK`, `StartIsSound`, `Ordered`, `Evidence`, `Unsurprised`,
  `MachineIsSound`, `CallsAreSound`. `Ordered` says that what the machine is about is newer than
  the program and than the watermark, so that a record may become the watermark;
  `StartIsSound` says what has been written when a start has so much left to write, which is
  why a start cut short anywhere leaves evidence; `Unsurprised` is what the records then
  say of the program; `CallsAreSound` that overlapping confirmations cannot both download.

The refinements map `TaskQueue` to `TaskLifecycle` row by row and `BacktestRun` to
`RunPublication` by forgetting claims: active runs are shown as open and a report as
the set of symbols it covers. `AnalysisRun` implements one `ResearchPlan` for each run:
attempts, claims and runners are forgotten, and each stage is shown as decided or open.
`DataDirectory` implements `OfflineSwap` by showing the pair in force: every rename, note,
recovery and cleanup is invisible, the requeue before a restore is `Settle`, and the commit of
the journal is the swap. Each step of the detailed module is a step of the abstract
one or a stutter.

## What is only model-checked and what is left out

Only model-checked: liveness (`LeasedTaskEnds`, `CallsComeToAnEnd`, `AttemptEnds`,
`DeadSidecarIsNoticed`, `RunIsDecided`, `RunEnds`, `RestoreIsDecided`), because fairness and
ENABLED are out of the reach of the prover. Every safety property of a passing run has a
theorem. Induction over data and recursive operators are also out of reach of the prover, so
what folds and recursive functions compute is left to TLC; the modules with theorems use
neither.

Several theorems state properties that no run lists any more (`RecoveryIsQuiet`,
`SelectedStillOpen`, `CancelWins`, `LeaseExactlyWhileRunning`, `OnlyTheOwnerWrites`): runs
are kept for questions that are not answered for every value of the constants already.

Left out of the modelled components: event and log rows, presentation reads, exports,
the worker status table, session authentication, data formats, migrations, transport and
signatures. The components without a module are listed in the inventory and, with their
reasons, in `PROJECT.json`.

## Plan

Order of the work still to do, the most important behaviour first:

1. **`MarketScheduler`** (`market/scheduler.py`, `worker_runtime.py`): `run_forever` calls
   `tick` and `run_once` in one loop, so a long task can carry the loop past midnight and
   over a daily slot; `tick` samples the clock once for all schedules and takes one
   transaction per candidate, with a compare-and-set of `last_enqueued_local_date` and a
   primary key per schedule and day. Property: at most one task per schedule and day, and
   which slots may be missed. Theorem: the occurrence table and the date agree.
2. **`WorkerHeartbeat`** (`tasks/worker.py`): heartbeat process, status pipe, contention
   grace, parent watchdog.
3. **`OrderBook`** (`backtest/state_machine.py`, `execution.py`): one symbol over a short
   range of days; reference: the rules of docs/backtesting-semantics.md.
4. **Composition** of `Updater` with the `installUpdate` effect of `DesktopExit`, and of
   `MarketLake` with the execution-status lake and readers.
5. **Formula operators**: rolling and recursive functions against their definitions over
   bounded series, by TLC only.

Bounds as in the table above: two actors, two or three data items, one or two faults, and
behaviours unbounded in length wherever the state can be kept finite without a counter.
Where runs have to be few, the violation runs of findings that are settled give way to new
components.
