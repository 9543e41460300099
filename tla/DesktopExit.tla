---------------------------- MODULE DesktopExit ----------------------------
(***************************************************************************)
(* The desktop application: the host (src-tauri/src/exit.rs, app.rs) around *)
(* the sidecar of SidecarShutdown.  Every host thread is interleaved with  *)
(* every other: the async commands of the window, the task that carries a  *)
(* shutdown attempt through its two requests, the watcher of the sidecar's *)
(* termination, the exit timer and the health monitor.  A lock is held for *)
(* one action at most, so what a thread read under it may be stale when it *)
(* acts on it.                                                             *)
(***************************************************************************)
EXTENDS SidecarShutdown, ExitMachine

CONSTANT MaxGenerations         \* 1 + MAX_USER_RESTARTS

ASSUME AGenerationExists == MaxGenerations \in Nat \ {0}

VARIABLES
    exit,           \* DesktopExitController.machine
    runtime,        \* GenerationSlot.state
    generation,     \* GenerationSlot.generation
    command,        \* the window command that is under way
    attempt,        \* the continue_shutdown task
    effects,        \* effects taken from the machine and not yet performed
    ended,          \* generations whose Terminated event is not yet handled
    watcher,        \* the generation whose termination the machine owned, or 0
    timers,         \* generations whose exit timer is running
    restart,        \* progress of desktop_restart_service
    installed,      \* the installer process has been created
    appExited

commandVars == <<command, restart>>
watchVars == <<ended, watcher, timers>>
hostVars == <<exit, runtime, generation, command, attempt, effects, ended, watcher,
              timers, restart, installed, appExited>>
allVars == <<sidecarVars, hostVars>>

NoCommand == [stage |-> "none", intent |-> "quit", generation |-> 0]
NoAttempt == [stage |-> "none", generation |-> 0, call |-> NoCall]

Init ==
    /\ SidecarInit
    /\ exit = Fresh
    /\ runtime = "starting" /\ generation = 1
    /\ command = NoCommand /\ attempt = NoAttempt
    /\ effects = {} /\ ended = {} /\ watcher = 0 /\ timers = {}
    /\ restart = "none" /\ installed = FALSE /\ appExited = FALSE

\* apply: the machine moves under its lock, its effect is performed afterwards.
Performed == {"recover", "recoverUpdate", "exit", "installUpdate"}
Apply(step, g) ==
    /\ exit' = step.machine
    /\ effects' = IF step.effect \in Performed
                  THEN effects \cup {[effect |-> step.effect, generation |-> g]}
                  ELSE effects

\* transition_recovery_for_generation: late generations and a second failure are ignored.
ToRecovery(g) ==
    runtime' = IF g = generation THEN "recovery" ELSE runtime

(***************************************************************************)
(* The window.                                                             *)
(***************************************************************************)
RequestExit ==
    /\ ~appExited /\ Apply(request(exit), 0)
    /\ UNCHANGED <<sidecarVars, runtime, generation, commandVars, attempt, watchVars, installed, appExited>>

CancelExit ==
    /\ ~appExited /\ Apply(cancel(exit), 0)
    /\ UNCHANGED <<sidecarVars, runtime, generation, commandVars, attempt, watchVars, installed, appExited>>

\* desktop_confirm_exit and begin_update_install look at the runtime first.
BeginCommand(intent) ==
    /\ ~appExited /\ command.stage = "none"
    /\ \/ /\ runtime = "ready"
          /\ command' = [stage |-> "session", intent |-> intent, generation |-> generation]
       \/ /\ runtime # "ready" /\ intent = "quit"
          /\ command' = [NoCommand EXCEPT !.stage = "noSession"]
    /\ UNCHANGED <<sidecarVars, exit, runtime, generation, attempt, effects, watchVars,
                   restart, installed, appExited>>

\* begin_confirm or begin_update_install on the machine, and the first request.
StartAttempt(c) ==
    /\ ~appExited /\ command.stage = "session"
    /\ LET g == command.generation
           step == IF command.intent = "quit" THEN confirm(exit, g)
                                              ELSE begin_update_install(exit, g)
           checkpointActive == exit.state \in {"blocked", "checkpointTimedOut"}
       IN  /\ Apply(step, g)
           /\ IF step.effect # "emit"
              THEN UNCHANGED <<sidecarVars, attempt>>
              ELSE /\ attempt.stage = "none" /\ At(c, "unused")
                   /\ attempt' = [stage |-> "asking", generation |-> g, call |-> c]
                   /\ IF alive /\ g = generation      \* a session knows its own port only
                      THEN Send(c, checkpointActive)
                      ELSE Goes(c, "lost")
                           /\ UNCHANGED <<alive, status, handler, flags, checkpoint, gate, faults>>
    /\ command' = NoCommand
    /\ UNCHANGED <<runtime, generation, watchVars, restart, installed, appExited>>

ConfirmWithoutSession ==
    /\ ~appExited /\ command.stage = "noSession"
    /\ LET step == confirm_without_ready_session(exit)
       IN  /\ exit' = step.machine
           /\ command' = IF step.effect = "exit"
                         THEN [command EXCEPT !.stage = "terminating"] ELSE NoCommand
    /\ UNCHANGED <<sidecarVars, runtime, generation, attempt, effects, watchVars,
                   restart, installed, appExited>>

\* terminate_non_ready_for_exit does nothing when the runtime has become ready.
TerminateNonReady ==
    /\ ~appExited /\ command.stage = "terminating"
    /\ command' = [command EXCEPT !.stage = "exiting"]
    /\ IF runtime = "ready"
       THEN UNCHANGED <<sidecarVars, runtime, ended>>
       ELSE /\ runtime' = "recovery"
            /\ IF alive THEN /\ ProcessEnds /\ UNCHANGED faults
                             /\ ended' = ended \cup {generation}
                        ELSE UNCHANGED <<sidecarVars, ended>>
    /\ UNCHANGED <<exit, generation, attempt, effects, watcher, timers, restart, installed, appExited>>

\* The event loop ends; the job object takes a sidecar that still runs with it.
CloseApp ==
    /\ appExited' = TRUE
    /\ IF alive THEN ProcessEnds /\ UNCHANGED faults ELSE UNCHANGED sidecarVars

ExitNonReady ==
    /\ ~appExited /\ command.stage = "exiting"
    /\ CloseApp
    /\ command' = NoCommand
    /\ UNCHANGED <<exit, runtime, generation, attempt, effects, watchVars, restart, installed>>

(***************************************************************************)
(* continue_shutdown.                                                      *)
(***************************************************************************)
\* What request_shutdown makes of the call; a client timeout or a bad reply is an
\* error whatever the sidecar did or still does.
ReplyOf(c) == {"error"} \cup (IF call[c].stage \in Replies THEN {call[c].stage} ELSE {})

AttemptAnswered ==
    /\ ~appExited /\ attempt.stage = "asking"
    /\ \E reply \in ReplyOf(attempt.call) :
         LET g == attempt.generation
             good == reply # "error" /\ g = generation
         IN  /\ Apply(IF good THEN shutdown_reply(exit, g, reply) ELSE shutdown_failed(exit, g), g)
             /\ IF good /\ reply = "accepted"
                THEN /\ SendCommit(attempt.call)
                     /\ attempt' = [attempt EXCEPT !.stage = "committing"]
                ELSE /\ UNCHANGED sidecarVars
                     /\ attempt' = NoAttempt
    /\ UNCHANGED <<runtime, generation, commandVars, watchVars, installed, appExited>>

CommitAnswered ==
    /\ ~appExited /\ attempt.stage = "committing"
    /\ LET g == attempt.generation
       IN  \/ /\ At(attempt.call, "committed") /\ g = generation
              /\ Apply(commit_succeeded(exit, g), g)
              /\ timers' = timers \cup {g}
           \/ /\ Apply(commit_failed(exit, g), g)
              /\ UNCHANGED timers
    /\ attempt' = NoAttempt
    /\ UNCHANGED <<sidecarVars, runtime, generation, commandVars, ended, watcher, installed, appExited>>

TimerFires(g) ==
    /\ ~appExited /\ g \in timers
    /\ Apply(shutdown_timed_out(exit, g), g)
    /\ timers' = timers \ {g}
    /\ UNCHANGED <<sidecarVars, runtime, generation, commandVars, attempt, ended, watcher, installed, appExited>>

(***************************************************************************)
(* finish_effect, outside the lock of the machine.                         *)
(***************************************************************************)
PerformRecover(e) ==
    /\ ~appExited /\ e \in effects /\ e.effect \in {"recover", "recoverUpdate"}
    /\ ToRecovery(e.generation)
    /\ effects' = effects \ {e}
    /\ UNCHANGED <<sidecarVars, exit, generation, commandVars, attempt, watchVars, installed, appExited>>

PerformExit(e) ==
    /\ ~appExited /\ e \in effects /\ e.effect = "exit"
    /\ CloseApp
    /\ effects' = effects \ {e}
    /\ UNCHANGED <<exit, runtime, generation, commandVars, attempt, watchVars, installed>>

PerformInstall(e) ==
    /\ ~appExited /\ e \in effects /\ e.effect = "installUpdate"
    /\ \E launched \in BOOLEAN :
         LET g == e.generation
             step == IF launched THEN install_launched(exit, g) ELSE install_launch_failed(exit, g)
         IN  /\ installed' = (installed \/ launched)
             /\ exit' = step.machine
             /\ effects' = (effects \ {e}) \cup
                           (IF step.effect \in Performed
                            THEN {[effect |-> step.effect, generation |-> g]} ELSE {})
    /\ UNCHANGED <<sidecarVars, runtime, generation, commandVars, attempt, watchVars, appExited>>

(***************************************************************************)
(* The watchers of a generation.                                           *)
(***************************************************************************)
\* sidecar_terminated asks under one lock whether the machine owns the event ...
TerminationSeen(g) ==
    /\ ~appExited /\ g \in ended /\ watcher = 0
    /\ ended' = ended \ {g}
    /\ IF owns_termination(exit, g)
       THEN watcher' = g /\ UNCHANGED runtime
       ELSE ToRecovery(g) /\ UNCHANGED watcher
    /\ UNCHANGED <<sidecarVars, exit, generation, commandVars, attempt, effects, timers, installed, appExited>>

\* ... and moves the machine under the next; the event then counts as handled.
TerminationApplied ==
    /\ ~appExited /\ watcher # 0
    /\ Apply(terminated(exit, watcher), watcher)
    /\ watcher' = 0
    /\ UNCHANGED <<sidecarVars, runtime, generation, commandVars, attempt, ended, timers, installed, appExited>>

Handshake ==
    /\ ~appExited /\ runtime = "starting" /\ restart # "spawning"
    /\ runtime' \in (IF alive THEN {"ready", "recovery"} ELSE {"recovery"})
    /\ UNCHANGED <<sidecarVars, exit, generation, commandVars, attempt, effects, watchVars, installed, appExited>>

\* Fault: the monitor trusts the termination event to report a dead sidecar.
HealthLostWhileAlive ==
    /\ ~appExited /\ runtime = "ready" /\ alive /\ faults < MaxFaults
    /\ runtime' = "recovery"
    /\ faults' = faults + 1
    /\ UNCHANGED <<alive, status, handler, flags, checkpoint, gate, call, exit, generation,
                   commandVars, attempt, effects, watchVars, installed, appExited>>

\* Three health checks in a row fail, of a dead sidecar or (a fault) of a slow one.
HealthLost ==
    /\ ~appExited /\ runtime = "ready" /\ (~alive \/ faults < MaxFaults)
    /\ runtime' = "recovery"
    /\ faults' = IF alive THEN faults + 1 ELSE faults
    /\ UNCHANGED <<alive, status, handler, flags, checkpoint, gate, call, exit, generation,
                   commandVars, attempt, effects, watchVars, installed, appExited>>

(***************************************************************************)
(* desktop_restart_service.                                                *)
(***************************************************************************)
RestartAsk ==
    /\ ~appExited /\ restart = "none"
    /\ exit.state = "idle" /\ ~exit.committed          \* allows_service_restart
    /\ restart' = "asked"
    /\ UNCHANGED <<sidecarVars, exit, runtime, generation, command, attempt, effects,
                   watchVars, installed, appExited>>

\* begin_user_restart opens the next generation and what is left of the old is killed.
RestartBegin ==
    /\ ~appExited /\ restart = "asked"
    /\ IF runtime = "recovery" /\ generation < MaxGenerations
       THEN /\ generation' = generation + 1
            /\ runtime' = "starting"
            /\ restart' = "spawning"
            /\ IF alive THEN /\ ProcessEnds /\ UNCHANGED faults
                             /\ ended' = ended \cup {generation}
                        ELSE UNCHANGED <<sidecarVars, ended>>
       ELSE /\ restart' = "none"
            /\ UNCHANGED <<sidecarVars, generation, runtime, ended>>
    /\ UNCHANGED <<exit, command, attempt, effects, watcher, timers, installed, appExited>>

\* A sidecar that cannot be spawned, or comes after the slot was closed, is not kept.
RestartSpawn ==
    /\ ~appExited /\ restart = "spawning"
    /\ restart' = "none"
    /\ \/ runtime = "starting" /\ Start /\ UNCHANGED runtime
       \/ runtime' = "recovery" /\ UNCHANGED sidecarVars
    /\ UNCHANGED <<exit, generation, command, attempt, effects, watchVars, installed, appExited>>

(***************************************************************************)
(* The sidecar's own steps.                                                *)
(***************************************************************************)
SidecarMoves ==
    /\ ~appExited
    /\ TaskStep \/ \E c \in Calls : CallStep(c)
    /\ UNCHANGED hostVars

SidecarDies ==
    /\ ~appExited
    /\ Exit \/ Crash
    /\ ended' = ended \cup {generation}
    /\ UNCHANGED <<exit, runtime, generation, commandVars, attempt, effects, watcher, timers,
                   installed, appExited>>

AttemptStep == AttemptAnswered \/ CommitAnswered
EffectStep == \E e \in effects : PerformRecover(e) \/ PerformExit(e) \/ PerformInstall(e)
WatchStep == (\E g \in ended : TerminationSeen(g)) \/ TerminationApplied

HostStep ==
    \/ RequestExit \/ CancelExit
    \/ \E intent \in {"quit", "install"} : BeginCommand(intent)
    \/ (\E c \in Calls : StartAttempt(c))
    \/ ConfirmWithoutSession \/ TerminateNonReady \/ ExitNonReady
    \/ AttemptStep \/ EffectStep \/ WatchStep
    \/ (\E g \in timers : TimerFires(g))
    \/ Handshake \/ HealthLost
    \/ RestartAsk \/ RestartBegin \/ RestartSpawn

DesktopNext == SidecarMoves \/ SidecarDies \/ HostStep
DesktopSpec == Init /\ [][DesktopNext]_allVars

(***************************************************************************)
(* Requests have client timeouts, the exit timer is a sleep, effects and   *)
(* events are run by the thread that took them, and the health monitor     *)
(* polls: each of them is carried out in the end.  The user and the        *)
(* sidecar's handlers owe nothing.                                         *)
(***************************************************************************)
DesktopFairness ==
    /\ WF_allVars(AttemptStep)
    /\ WF_allVars(EffectStep)
    /\ WF_allVars(WatchStep)
    /\ WF_allVars(\E g \in timers : TimerFires(g))
    /\ WF_allVars(~alive /\ (HealthLost \/ Handshake))
    /\ WF_allVars((TerminateNonReady \/ ExitNonReady))
    /\ WF_allVars(RestartSpawn)

DesktopLiveSpec == DesktopSpec /\ DesktopFairness

(***************************************************************************)
(* Properties.                                                             *)
(***************************************************************************)
DesktopTypeOK ==
    /\ TypeOK
    /\ exit \in Machines
    /\ runtime \in {"starting", "ready", "recovery"} /\ generation \in 1..MaxGenerations
    /\ command \in [stage : {"none", "session", "noSession", "terminating", "exiting"},
                    intent : {"quit", "install"}, generation : 0..MaxGenerations]
    /\ attempt \in [stage : {"none", "asking", "committing"}, generation : 0..MaxGenerations,
                    call : Calls \cup {NoCall}]
    /\ effects \subseteq [effect : Performed, generation : 0..MaxGenerations]
    /\ ended \subseteq 1..MaxGenerations /\ timers \subseteq 1..MaxGenerations
    /\ watcher \in 0..MaxGenerations
    /\ restart \in {"none", "asked", "spawning"}
    /\ installed \in BOOLEAN /\ appExited \in BOOLEAN

\* A sidecar that has begun to stop can claim nothing more, and the only handler that may
\* still run is one that a checkpoint request found running, that has not acknowledged
\* it, and for which the end of the process waits; also when the host gave an earlier
\* request up that the sidecar is still serving beside the accepted one
\* (continue_shutdown, desktop_shutdown, desktop_shutdown_commit).
AskedToPause(c) == /\ call[c].running
                   /\ call[c].stage \in {"waiting", "missed", "timedOut", "failed", "unavailable"}

StopQuiesces ==
    alive /\ serverExit
        => /\ ~MayClaim
           /\ handler # NoTask => ~acknowledged /\ \E c \in Calls : AskedToPause(c)

\* "A missed ten-second checkpoint deadline keeps the application open and restores
\* claiming" (docs/architecture.md): whenever the window is open on a ready sidecar
\* and no exit is in progress, the sidecar is not left prepared, and its claims are
\* stopped for an undecided recovery only.
OpenAppWorks ==
    /\ runtime = "ready" /\ alive /\ ~appExited
    /\ exit.state \notin {"checking", "shuttingDown"}
    /\ \A e \in effects : e.generation # generation
    => ~prepared /\ (claimStop => recovery)

Leaves   == appExited' /\ ~appExited
Installs == installed' /\ ~installed

\* Leaving is orderly: the application ends, or the installer is created, only once the
\* sidecar that was shut down for it is gone; the installer needs both acceptances
\* ("shutdown acceptance, commit acceptance, and a later matching termination are all
\* required", docs/architecture.md); and no timer, late reply, failed hand-off or late
\* termination event rolls a committed exit back (ExitMachine, the effects of exit.rs).
LeavingIsOrderly ==
    [][/\ exit.committed => exit'.committed
       /\ Installs => exit.shutdownAccepted /\ exit.commitAccepted
       /\ Leaves \/ Installs => (exit.generation = generation => ~alive)]_allVars

\* Every attempt to leave comes to an end: the application closes, or the window is
\* told why it stays open (client timeouts, SIDECAR_EXIT_TIMEOUT).
AttemptEnds ==
    exit.state \in {"checking", "shuttingDown"}
        ~> appExited \/ exit.state \notin {"checking", "shuttingDown"}

\* A sidecar that has died is noticed, however its termination event was used: the
\* recovery page is shown, it is restarted, or the application closes (app.rs).
DeadSidecarIsNoticed == ~alive ~> alive \/ runtime = "recovery" \/ appExited
============================================================================
