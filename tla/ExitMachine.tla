---------------------------- MODULE ExitMachine ----------------------------
(***************************************************************************)
(* The exit reducer of the desktop host (src-tauri/src/exit.rs): one       *)
(* record and one operator per method of ExitMachine.  An operator returns *)
(* the machine after the call and the effect the controller performs with  *)
(* the lock released.  Generation 0 stands for None; the queued and        *)
(* running counts that the states carry for the window are left out.       *)
(***************************************************************************)
EXTENDS Naturals

ExitStates == {"idle", "confirm", "checking", "blocked", "checkpointTimedOut", "shuttingDown"}
Effects == {"none", "emit", "recover", "recoverUpdate", "cancelUpdate", "exit", "installUpdate"}
Replies == {"accepted", "blocked", "timedOut"}

Machines ==
    [state : ExitStates, generation : Nat, intent : {"none", "quit", "install"},
     terminated : BOOLEAN,      \* terminated_before_commit holds a code
     shutdownAccepted : BOOLEAN, commitAccepted : BOOLEAN,
     launching : BOOLEAN, committed : BOOLEAN]

Fresh == [state |-> "idle", generation |-> 0, intent |-> "none", terminated |-> FALSE,
          shutdownAccepted |-> FALSE, commitAccepted |-> FALSE,
          launching |-> FALSE, committed |-> FALSE]

Done(m, effect) == [machine |-> m, effect |-> effect]
Ignored(m) == Done(m, "none")

\* recovery_effect followed by reset: the attempt is given up.
GivenUp(m) == Done(Fresh, IF m.intent = "install" THEN "recoverUpdate" ELSE "recover")

MayConfirm == {"confirm", "blocked", "checkpointTimedOut"}

request(m) ==
    IF m.state = "idle"
    THEN Done([m EXCEPT !.state = "confirm", !.intent = "quit"], "emit")
    ELSE Ignored(m)

cancel(m) ==
    IF m.state \in MayConfirm
    THEN Done(Fresh, IF m.intent = "install" THEN "cancelUpdate" ELSE "emit")
    ELSE Ignored(m)

\* The common part of confirm and begin_update_install.
Checking(g, intent) == [Fresh EXCEPT !.state = "checking", !.generation = g, !.intent = intent]

confirm(m, g) ==
    IF m.state \in MayConfirm
    THEN Done([Checking(g, IF m.intent = "none" THEN "quit" ELSE m.intent)
                 EXCEPT !.committed = m.committed], "emit")
    ELSE Ignored(m)

begin_update_install(m, g) ==
    IF m.state = "idle" /\ m.intent = "none"
    THEN Done([Checking(g, "install") EXCEPT !.committed = m.committed], "emit")
    ELSE Ignored(m)

confirm_without_ready_session(m) ==
    IF m.state = "confirm"
    THEN Done([m EXCEPT !.state = "shuttingDown", !.generation = 0, !.intent = "quit",
                        !.terminated = FALSE, !.shutdownAccepted = TRUE,
                        !.commitAccepted = TRUE, !.committed = TRUE], "exit")
    ELSE Ignored(m)

shutdown_reply(m, g, reply) ==
    IF m.generation # g \/ m.state # "checking" THEN Ignored(m)
    ELSE IF reply = "accepted"
    THEN Done([m EXCEPT !.shutdownAccepted = TRUE, !.state = "shuttingDown"], "emit")
    ELSE IF m.terminated THEN GivenUp(m)
    ELSE Done([m EXCEPT !.state = IF reply = "blocked" THEN "blocked" ELSE "checkpointTimedOut",
                        !.generation = 0], "emit")

commit_succeeded(m, g) ==
    IF \/ m.generation # g \/ m.state # "shuttingDown"
       \/ ~m.shutdownAccepted \/ m.commitAccepted
    THEN Ignored(m)
    ELSE IF m.terminated THEN GivenUp(m)
    ELSE Done([m EXCEPT !.commitAccepted = TRUE], "none")

\* Fault: a failed request reopens the window as if nothing had been prepared.
shutdown_failed_quietly(m, g) ==
    IF m.generation = g /\ m.state = "checking" THEN Done(Fresh, "emit") ELSE Ignored(m)

shutdown_failed(m, g) ==
    IF m.generation = g /\ m.state = "checking" THEN GivenUp(m) ELSE Ignored(m)

timed_out_before_commit(m, g) ==
    IF m.generation = g /\ m.state = "shuttingDown" /\ ~m.commitAccepted
    THEN GivenUp(m)
    ELSE Ignored(m)

shutdown_timed_out(m, g) ==
    IF m.generation = g /\ m.state = "shuttingDown" /\ ~m.launching /\ ~m.committed
    THEN GivenUp(m)
    ELSE Ignored(m)

commit_failed(m, g) ==
    IF m.generation = g /\ m.state = "shuttingDown" THEN GivenUp(m) ELSE Ignored(m)

owns_termination(m, g) == m.generation = g /\ m.state \in {"checking", "shuttingDown"}

\* Fault: a termination before the commit is accepted launches the installer.
terminated_without_commit(m, g) ==
    IF ~owns_termination(m, g) THEN Ignored(m)
    ELSE IF m.state = "checking"
    THEN Done([m EXCEPT !.terminated = TRUE], "none")
    ELSE IF m.intent # "install" THEN Done([m EXCEPT !.committed = TRUE], "exit")
    ELSE IF m.launching THEN Ignored(m)
    ELSE Done([m EXCEPT !.launching = TRUE], "installUpdate")

terminated(m, g) ==
    IF ~owns_termination(m, g) THEN Ignored(m)
    ELSE IF m.state = "checking" \/ ~m.commitAccepted
    THEN Done([m EXCEPT !.terminated = TRUE], "none")
    ELSE IF m.intent # "install" THEN Done([m EXCEPT !.committed = TRUE], "exit")
    ELSE IF m.launching THEN Ignored(m)
    ELSE Done([m EXCEPT !.launching = TRUE], "installUpdate")

\* The installer hand-off: both outcomes need the hand-off to have started.
Launching(m, g) ==
    /\ m.generation = g /\ m.state = "shuttingDown" /\ m.intent = "install"
    /\ m.commitAccepted /\ m.launching /\ ~m.committed

install_launched(m, g) ==
    IF Launching(m, g) /\ m.shutdownAccepted
    THEN Done([m EXCEPT !.committed = TRUE], "exit")
    ELSE Ignored(m)

install_launch_failed(m, g) ==
    IF Launching(m, g) THEN GivenUp(m) ELSE Ignored(m)
============================================================================
