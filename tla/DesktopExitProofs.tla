-------------------------- MODULE DesktopExitProofs --------------------------
(***************************************************************************)
(* What holds of the desktop application as a whole (DesktopExit), for any *)
(* number of tasks, shutdown calls, processes and faults.                  *)
(*                                                                         *)
(* The invariant has three parts.  SidecarFits is what the process keeps   *)
(* up by itself, whatever it is asked and in whatever order: the invariant *)
(* of SidecarShutdownProofs asks for one call at a time, which the host    *)
(* does not keep to.  HostFits says what each state of the exit machine    *)
(* implies (Sound) and which generation a thread of the host may still act *)
(* for.  CallsFit ties the two together: as long as no attempt of the      *)
(* present generation was given up, the only request the sidecar serves is *)
(* the one the exit machine waits for.                                     *)
(*                                                                         *)
(* Each part has one lemma for each kind of step.  Those of HostFits rest  *)
(* on facts about the transitions of ExitMachine, one for each transition. *)
(***************************************************************************)
EXTENDS DesktopExit, SidecarShutdownProofs

\* The sidecar, whatever the host asks of it and in whatever order.
SidecarFits ==
    /\ TypeOK /\ Gone /\ GateHolder
    /\ alive =>
       /\ recovery => claimStop /\ handler = NoTask
       /\ prepared => claimStop
       /\ serverExit => prepared
       /\ claimStop => recovery \/ prepared
       /\ \A c \in Calls : At(c, "counted") /\ handler # NoTask => call[c].running
       /\ prepared /\ handler # NoTask => ~acknowledged /\ \E c \in Calls : AskedToPause(c)

\* The exit machine: what each of its states implies.
Sound(m) ==
    /\ m \in Machines
    /\ m.state # "shuttingDown" =>
         ~m.shutdownAccepted /\ ~m.commitAccepted /\ ~m.launching /\ ~m.committed
    /\ m.state = "shuttingDown" => m.shutdownAccepted
    /\ m.state \notin {"checking", "shuttingDown"} => m.generation = 0
    /\ m.state = "checking" => m.generation # 0
    /\ m.state = "shuttingDown" /\ m.generation = 0 => m.committed
    /\ m.launching => m.commitAccepted /\ m.generation # 0 /\ m.intent = "install"
    /\ m.committed => m.commitAccepted
    /\ m.committed /\ m.intent = "install" => m.launching

\* It is past its point of no return only for a generation that is gone.
MachineFits ==
    /\ Sound(exit)
    /\ exit.launching \/ exit.committed => exit.generation # generation \/ ~alive

\* A thread of the host acts for the generation the machine waits for, or for none.
ThreadsFit ==
    /\ attempt.stage = "asking" =>
         exit.state = "checking" /\ exit.generation = attempt.generation
    /\ attempt.stage = "committing" =>
         /\ attempt.generation # 0
         /\ \/ exit.generation = 0
            \/ /\ exit.state = "shuttingDown" /\ exit.generation = attempt.generation
               /\ ~exit.commitAccepted
    /\ attempt.stage # "none" => attempt.call \in Calls
    /\ command.stage = "session" => command.generation # 0
    /\ command.stage \in {"terminating", "exiting"} => exit.committed /\ exit.generation = 0
    /\ \A e \in effects :
         /\ e.effect = "exit" => exit.committed
         /\ e.effect = "installUpdate" =>
              exit.launching /\ ~exit.committed /\ e.generation = exit.generation

\* What names a generation names one that has existed, and a termination is of a process
\* that is gone.
UpTo(n) ==
    /\ exit.generation <= n /\ command.generation <= n /\ attempt.generation <= n /\ watcher <= n
    /\ \A e \in effects : e.generation <= n
    /\ \A g \in timers : g <= n
GenerationsFit ==
    /\ UpTo(generation)
    /\ \A g \in ended : g <= generation
    /\ runtime = "starting" => UpTo(generation - 1)
    /\ restart = "spawning" => ~alive /\ generation \notin ended /\ watcher # generation
    /\ alive => generation \notin ended /\ watcher # generation

HostTypeOK ==
    /\ runtime \in {"starting", "ready", "recovery"} /\ generation \in 1..MaxGenerations
    /\ command \in [stage : {"none", "session", "noSession", "terminating", "exiting"},
                    intent : {"quit", "install"}, generation : 0..MaxGenerations]
    /\ attempt \in [stage : {"none", "asking", "committing"}, generation : 0..MaxGenerations,
                    call : Calls \cup {NoCall}]
    /\ effects \subseteq [effect : Performed, generation : 0..MaxGenerations]
    /\ ended \subseteq 1..MaxGenerations /\ timers \subseteq 1..MaxGenerations
    /\ watcher \in 0..MaxGenerations
    /\ restart \in {"none", "asked", "spawning"}
    /\ installed \in BOOLEAN /\ appExited \in BOOLEAN

HostFits == HostTypeOK /\ MachineFits /\ ThreadsFit /\ GenerationsFit

\* No attempt of the present generation was given up.
Undisturbed ==
    /\ alive /\ ~appExited /\ runtime # "recovery"
    /\ \A e \in effects : e.generation # generation

\* The call of the attempt, or the one whose commit was answered.
Carried(c) ==
    /\ exit.generation = generation
    /\ \/ attempt.stage # "none" /\ attempt.call = c /\ attempt.generation = generation
       \/ At(c, "committed") /\ exit.commitAccepted

CallsFit ==
    Undisturbed =>
      /\ \A c \in Calls : call[c].stage \in Pending => Carried(c)
      /\ \A c, d \in Calls : call[c].stage \in Pending /\ call[d].stage \in Pending => c = d
      /\ prepared => \E c \in Calls : call[c].stage \in Holding
      /\ serverExit => \E c \in Calls : At(c, "committed")

DesktopInv == SidecarFits /\ HostFits /\ CallsFit

(***************************************************************************)
(* The sidecar.  One lemma for each of its own kinds of step and for each  *)
(* thing the host does to it.                                              *)
(***************************************************************************)
LEMMA SidecarTask ==
    ASSUME SidecarFits, TaskStep
    PROVE  SidecarFits'
<1> USE DEF flags, checkpoint
<1>1. TypeOK'
  BY TaskTypes DEF SidecarFits
<1>2. /\ UNCHANGED <<alive, gate, call, serverExit, prepared>> /\ alive
      /\ TypeOK
  BY DEF SidecarFits, TaskStep, Enqueue, CancelQueued, Claim, HandlerEnds, HandlerPauses,
         RecoveryResume, RecoveryCancel
<1>3. ASSUME NEW t \in Tasks, Enqueue(t) \/ CancelQueued(t)
      PROVE  SidecarFits'
  BY <1>1, <1>2, <1>3 DEF SidecarFits, GateHolder, Gone, At, AskedToPause, Enqueue, CancelQueued
<1>4. ASSUME NEW t \in Tasks, Claim(t)
      PROVE  SidecarFits'
  <2>1. \A c \in Calls : ~At(c, "counted")
    BY <1>2, <1>4, NamesAreDistinct DEF SidecarFits, GateHolder, Claim, MayClaim
  <2> QED
    BY <1>1, <1>2, <1>4, <2>1 DEF SidecarFits, GateHolder, Gone, At, Claim, MayClaim
<1>5. CASE HandlerEnds \/ HandlerPauses
  BY <1>1, <1>2, <1>5 DEF SidecarFits, GateHolder, Gone, At, AskedToPause, HandlerEnds, HandlerPauses
<1>6. CASE RecoveryResume \/ RecoveryCancel
  BY <1>1, <1>2, <1>6 DEF SidecarFits, TypeOK, GateHolder, Gone, At, AskedToPause,
                          RecoveryResume, RecoveryCancel, RecoveryEnds
<1> QED
  BY <1>3, <1>4, <1>5, <1>6 DEF TaskStep

LEMMA SidecarCall ==
    ASSUME SidecarFits, NEW c \in Calls, CallStep(c)
    PROVE  SidecarFits'
<1> USE DEF flags, checkpoint
<1>0. TypeOK /\ alive /\ alive' /\ UNCHANGED <<recovery, handler>>
  BY DEF SidecarFits, CallStep, Count, RefuseActive, Prepare, Acknowledged, DeadlinePasses, Accept,
         Missed, StorageFails, AnswerUnavailable, CommitCheck, CommitApply
<1>1. TypeOK'
  BY <1>0, CallTypes
<1>2. CASE Count(c)
  <2>1. ~call'[c].running => handler = NoTask
    BY <1>0, <1>2, CountFacts DEF TypeOK, Running
  <2>2. \A d \in Calls : d # c => call'[d].stage = call[d].stage /\ call'[d].running = call[d].running
    BY <1>0, <1>2, CountFacts
  <2>3. call'[c].stage = "counted" /\ call[c].stage = "sent"
    BY <1>0, <1>2, CountFacts DEF Count, At
  <2>4. gate = NoCall /\ gate' = c /\ UNCHANGED <<prepared, claimStop, serverExit, requested, acknowledged>>
    BY <1>2 DEF Count
  <2> QED
    BY <1>0, <1>1, <2>1, <2>2, <2>3, <2>4, NamesAreDistinct
       DEF SidecarFits, GateHolder, Gone, At, AskedToPause
<1>3. CASE RefuseActive(c)
  <2>1. \A d \in Calls : /\ call'[d].stage = IF d = c THEN "blocked" ELSE call[d].stage
                         /\ call'[d].running = call[d].running
    BY <1>0, <1>3, GoesFacts DEF RefuseActive, Stages, Answered
  <2> QED
    BY <1>0, <1>1, <1>3, <2>1, NamesAreDistinct
       DEF SidecarFits, GateHolder, Gone, At, AskedToPause, RefuseActive
<1>4. CASE Prepare(c)
  <2>1. \A d \in Calls : /\ call'[d].stage = IF d # c THEN call[d].stage
                                             ELSE IF call[c].running THEN "waiting" ELSE "accepted"
                         /\ call'[d].running = call[d].running
    BY <1>0, <1>4, GoesFacts DEF Prepare, Stages, Answered, Executing
  <2>2. /\ At(c, "counted") /\ prepared' /\ claimStop' /\ gate' = NoCall /\ gate = c
        /\ call[c].running => ~acknowledged'
        /\ UNCHANGED serverExit
    BY <1>0, <1>4 DEF SidecarFits, GateHolder, Prepare
  <2>3. handler # NoTask => AskedToPause(c)' /\ ~acknowledged'
    BY <1>0, <2>1, <2>2 DEF SidecarFits, AskedToPause
  <2> QED
    BY <1>0, <1>1, <2>1, <2>2, <2>3, NamesAreDistinct DEF SidecarFits, GateHolder, Gone, At
<1>5. CASE Acknowledged(c) \/ DeadlinePasses(c)
  <2>1. \A d \in Calls : /\ call'[d].stage = IF d # c THEN call[d].stage
                                             ELSE IF acknowledged THEN "drained" ELSE "missed"
                         /\ call'[d].running = call[d].running
    BY <1>0, <1>5, GoesFacts DEF Acknowledged, DeadlinePasses, Stages, Executing
  <2>2. At(c, "waiting") /\ UNCHANGED <<prepared, claimStop, serverExit, acknowledged, gate>>
    BY <1>5 DEF Acknowledged, DeadlinePasses
  <2> QED
    BY <1>0, <1>1, <2>1, <2>2 DEF SidecarFits, GateHolder, Gone, At, AskedToPause
<1>6. CASE Accept(c)
  <2>1. \A d \in Calls : /\ call'[d].stage = IF d = c THEN "accepted" ELSE call[d].stage
                         /\ call'[d].running = call[d].running
    BY <1>0, <1>6, GoesFacts DEF Accept, Stages, Answered
  <2> QED
    BY <1>0, <1>1, <1>6, <2>1 DEF SidecarFits, GateHolder, Gone, At, AskedToPause, Accept
<1>7. CASE Missed(c) \/ AnswerUnavailable(c)
  <2>1. \A d \in Calls : /\ d # c => call'[d].stage = call[d].stage
                         /\ call'[d].running = call[d].running
    BY <1>0, <1>7, GoesFacts DEF Missed, AnswerUnavailable, Stages, Answered
  <2>2. /\ call[c].stage \in {"missed", "failed"} /\ call'[c].stage \in {"timedOut", "unavailable"}
        /\ UNCHANGED <<serverExit, requested, acknowledged, gate>>
    BY <1>0, <1>7, GoesFacts DEF Missed, AnswerUnavailable, Stages, Answered, At
  <2>3. /\ prepared' = (prepared /\ serverExit)
        /\ claimStop' = (claimStop /\ (serverExit \/ recovery))
    BY <1>7 DEF Missed, AnswerUnavailable, CancelPrepared
  <2>4. GateHolder' /\ Gone'
    BY <1>0, <2>1, <2>2 DEF SidecarFits, GateHolder, Gone, At
  <2>5. \A d \in Calls : At(d, "counted")' /\ handler' # NoTask => call'[d].running
    BY <1>0, <2>1, <2>2 DEF SidecarFits, At
  <2>6. prepared' /\ handler' # NoTask => ~acknowledged' /\ \E d \in Calls : AskedToPause(d)'
    BY <1>0, <2>1, <2>2, <2>3 DEF SidecarFits, TypeOK, AskedToPause
  <2>7. /\ recovery' => claimStop' /\ handler' = NoTask
        /\ prepared' => claimStop'
        /\ serverExit' => prepared'
        /\ claimStop' => recovery' \/ prepared'
    BY <1>0, <2>2, <2>3 DEF SidecarFits, TypeOK
  <2> QED
    BY <1>0, <1>1, <2>4, <2>5, <2>6, <2>7 DEF SidecarFits
<1>8. CASE StorageFails(c)
  <2>1. \A d \in Calls : /\ call'[d].stage = IF d = c THEN "failed" ELSE call[d].stage
                         /\ call'[d].running = call[d].running
    BY <1>0, <1>8, GoesFacts DEF StorageFails, Stages, Executing
  <2> QED
    BY <1>0, <1>1, <1>8, <2>1 DEF SidecarFits, GateHolder, Gone, At, AskedToPause, StorageFails
<1>9. CASE CommitCheck(c)
  <2>1. \A d \in Calls : /\ d # c => call'[d].stage = call[d].stage
                         /\ call'[d].running = call[d].running
    BY <1>0, <1>9, GoesFacts DEF CommitCheck, Stages, Executing, Answered
  <2>2. call'[c].stage \in {"commitChecked", "refused"} /\ call[c].stage = "commitSent"
    BY <1>0, <1>9, GoesFacts DEF CommitCheck, Stages, Executing, Answered, At
  <2> QED
    BY <1>0, <1>1, <1>9, <2>1, <2>2 DEF SidecarFits, GateHolder, Gone, At, AskedToPause, CommitCheck
<1>10. CASE CommitApply(c)
  <2>1. \A d \in Calls : /\ call'[d].stage = IF d = c THEN "committed" ELSE call[d].stage
                         /\ call'[d].running = call[d].running
    BY <1>0, <1>10, GoesFacts DEF CommitApply, Stages, Answered
  <2> QED
    BY <1>0, <1>1, <1>10, <2>1 DEF SidecarFits, TypeOK, GateHolder, Gone, At, AskedToPause, CommitApply
<1> QED
  BY <1>2, <1>3, <1>4, <1>5, <1>6, <1>7, <1>8, <1>9, <1>10 DEF CallStep

\* With no process nothing of it is claimed but that it left nothing behind.
LEMMA SidecarEnds ==
    ASSUME SidecarFits, ProcessEnds, faults' \in Nat
    PROVE  SidecarFits'
BY EndTypes DEF SidecarFits, ProcessEnds, GateHolder, Gone

LEMMA SidecarStarts ==
    ASSUME SidecarFits, Start
    PROVE  SidecarFits'
<1> USE DEF flags, checkpoint
<1>1. handler = NoTask /\ gate = NoCall /\ TypeOK
  BY DEF SidecarFits, Gone, Start
<1>2. TypeOK'
  BY <1>1, StartTypes
<1>3. \A d \in Calls : call'[d].stage \in {"unused", "lost"}
  BY <1>1, StartFacts
<1> QED
  BY <1>1, <1>2, <1>3, NamesAreDistinct DEF SidecarFits, Start, GateHolder, Gone, At

LEMMA SidecarAsked ==
    ASSUME SidecarFits, NEW c \in Calls, At(c, "unused"),
           Send(c, exit.state \in {"blocked", "checkpointTimedOut"})
             \/ (Goes(c, "lost") /\ UNCHANGED <<alive, status, handler, flags, checkpoint, gate, faults>>)
    PROVE  SidecarFits'
<1> USE DEF flags, checkpoint
<1>0. TypeOK /\ UNCHANGED <<alive, status, handler, flags, checkpoint, gate, faults>>
  BY DEF SidecarFits, Send
<1>1. /\ call' \in [Calls -> CallRecords]
      /\ \A d \in Calls : /\ d # c => call'[d].stage = call[d].stage
                          /\ call'[d].running = call[d].running
      /\ call'[c].stage \in {"sent", "lost"}
  <2>1. CASE Goes(c, "lost")
    BY <1>0, <2>1, GoesFacts DEF Stages
  <2>2. CASE Send(c, exit.state \in {"blocked", "checkpointTimedOut"})
    <3> DEFINE b == exit.state \in {"blocked", "checkpointTimedOut"}
    <3>1. b \in BOOLEAN
      OBVIOUS
    <3>2. "sent" \in Stages
      BY DEF Stages
    <3>3. call' = [call EXCEPT ![c].stage = "sent", ![c].checkpointActive = b]
      BY <2>2 DEF Send
    <3> HIDE DEF b
    <3> QED
      BY <1>0, <3>1, <3>2, <3>3 DEF TypeOK, CallRecords
  <2> QED
    BY <2>1, <2>2
<1>2. TypeOK'
  BY <1>0, <1>1 DEF TypeOK
<1> QED
  BY <1>0, <1>1, <1>2 DEF SidecarFits, GateHolder, Gone, At, AskedToPause

LEMMA SidecarCommits ==
    ASSUME SidecarFits, NEW c \in Calls, SendCommit(c)
    PROVE  SidecarFits'
<1> USE DEF flags, checkpoint
<1>0. TypeOK
  BY DEF SidecarFits
<1>1. /\ \A d \in Calls : /\ d # c => call'[d].stage = call[d].stage
                          /\ call'[d].running = call[d].running
      /\ call'[c].stage \in {"commitSent", "lost"}
  BY <1>0, GoesFacts DEF SendCommit, Stages
<1>2. TypeOK'
  BY <1>0, CommitTypes
<1> QED
  BY <1>1, <1>2 DEF SidecarFits, SendCommit, GateHolder, Gone, At, AskedToPause

LEMMA SidecarRests ==
    ASSUME SidecarFits, faults' \in Nat,
           UNCHANGED <<alive, status, handler, flags, checkpoint, gate, call>>
    PROVE  SidecarFits'
BY DEF SidecarFits, TypeOK, GateHolder, Gone, At, AskedToPause, flags, checkpoint

(* The exit machine: what a method does to a sound machine, and that it    *)
(* leaves it sound.                                                        *)
(***************************************************************************)
Busy(m) == m.state \in {"checking", "shuttingDown"}
GivesUp(step) == step.machine = Fresh /\ step.effect \in {"recover", "recoverUpdate"}

LEMMA FreshIsSound == Sound(Fresh) /\ ~Busy(Fresh)
BY DEF Sound, Fresh, Machines, ExitStates, Busy

LEMMA GivenUpFacts == \A m : GivesUp(GivenUp(m))
BY DEF GivesUp, GivenUp, Done

\* The window can move the machine only while no exit is under way.
LEMMA WindowFacts ==
    ASSUME NEW m \in Machines, Sound(m), NEW step \in {request(m), cancel(m)}
    PROVE  /\ Sound(step.machine) /\ step.effect \notin Performed
           /\ \/ step.machine = m
              \/ ~Busy(m) /\ ~Busy(step.machine)
<1>1. CASE step = request(m)
  BY <1>1 DEF Sound, request, Done, Ignored, Machines, ExitStates, Performed, Busy
<1>2. CASE step = cancel(m)
  BY <1>2, FreshIsSound DEF cancel, Done, Ignored, MayConfirm, Performed, Busy
<1> QED
  BY <1>1, <1>2

LEMMA BeginFacts ==
    ASSUME NEW m \in Machines, Sound(m), NEW g \in Nat \ {0},
           NEW step \in {confirm(m, g), begin_update_install(m, g)}
    PROVE  /\ Sound(step.machine) /\ step.effect \notin Performed
           /\ \/ step.effect # "emit" /\ step.machine = m
              \/ step.effect = "emit" /\ ~Busy(m)
                 /\ step.machine.state = "checking" /\ step.machine.generation = g
<1>1. ASSUME NEW i \in {"none", "quit", "install"}, NEW b \in BOOLEAN, ~b
      PROVE  LET c == [Checking(g, i) EXCEPT !.committed = b]
             IN  Sound(c) /\ c.state = "checking" /\ c.generation = g
  <2>1. Fresh \in Machines
    BY FreshIsSound DEF Sound
  <2> DEFINE k == Checking(g, i)
  <2>2. /\ k \in Machines
        /\ k.state = "checking" /\ k.generation = g
        /\ ~k.shutdownAccepted /\ ~k.commitAccepted /\ ~k.launching
    <3>1. ~Fresh.shutdownAccepted /\ ~Fresh.commitAccepted /\ ~Fresh.launching
      BY DEF Fresh
    <3> QED
      BY <1>1, <2>1, <3>1 DEF Checking, Machines, ExitStates
  <2> HIDE DEF k
  <2> QED
    BY <1>1, <2>2 DEF Sound, Machines, k
<1>2. m.intent \in {"none", "quit", "install"} /\ m.committed \in BOOLEAN
  BY DEF Machines
<1>3. CASE step = confirm(m, g)
  <2>1. CASE m.state \in MayConfirm
    <3>1. ~Busy(m) /\ ~m.committed
      BY <2>1 DEF Busy, MayConfirm, Sound
    <3> DEFINE i == IF m.intent = "none" THEN "quit" ELSE m.intent
    <3>2. step = Done([Checking(g, i) EXCEPT !.committed = m.committed], "emit")
      BY <1>3, <2>1 DEF confirm
    <3>3. i \in {"none", "quit", "install"}
      BY <1>2
    <3> HIDE DEF i
    <3> QED
      BY <1>1, <1>2, <3>1, <3>2, <3>3 DEF Done, Performed
  <2>2. CASE m.state \notin MayConfirm
    BY <1>3, <2>2 DEF confirm, Ignored, Done, Performed
  <2> QED
    BY <2>1, <2>2
<1>4. CASE step = begin_update_install(m, g)
  <2>1. CASE m.state = "idle" /\ m.intent = "none"
    <3>1. ~Busy(m) /\ ~m.committed
      BY <2>1 DEF Busy, Sound
    <3>2. step = Done([Checking(g, "install") EXCEPT !.committed = m.committed], "emit")
      BY <1>4, <2>1 DEF begin_update_install
    <3> QED
      BY <1>1, <1>2, <3>1, <3>2 DEF Done, Performed
  <2>2. CASE ~(m.state = "idle" /\ m.intent = "none")
    BY <1>4, <2>2 DEF begin_update_install, Ignored, Done, Performed
  <2> QED
    BY <2>1, <2>2
<1> QED
  BY <1>3, <1>4

LEMMA NoSessionFacts ==
    ASSUME NEW m \in Machines, Sound(m), NEW step, step = confirm_without_ready_session(m)
    PROVE  /\ Sound(step.machine)
           /\ \/ step.effect # "exit" /\ step.machine = m
              \/ /\ step.effect = "exit" /\ ~Busy(m)
                 /\ Busy(step.machine) /\ step.machine.committed /\ step.machine.generation = 0
                 /\ ~step.machine.launching
BY DEF confirm_without_ready_session, Sound, Done, Ignored, Machines, ExitStates, Busy

\* The answer to the first request.
LEMMA ReplyFacts ==
    ASSUME NEW m \in Machines, Sound(m), m.state = "checking", NEW reply \in Replies,
           NEW step, step = shutdown_reply(m, m.generation, reply)
    PROVE  /\ Sound(step.machine)
           /\ reply = "accepted" =>
                /\ step.effect = "emit"
                /\ step.machine.state = "shuttingDown" /\ step.machine.generation = m.generation
                /\ ~step.machine.commitAccepted
           /\ reply # "accepted" =>
                /\ ~Busy(step.machine) /\ step.machine.generation = 0
                /\ GivesUp(step) \/ step.effect = "emit"
<1>1. CASE reply = "accepted"
  BY <1>1 DEF shutdown_reply, Sound, Done, Machines, ExitStates
<1>2. CASE reply # "accepted" /\ m.terminated
  BY <1>2, FreshIsSound, GivenUpFacts DEF shutdown_reply, GivesUp, Fresh
<1>3. CASE reply # "accepted" /\ ~m.terminated
  BY <1>3 DEF shutdown_reply, Sound, Done, Machines, ExitStates, Busy
<1> QED
  BY <1>1, <1>2, <1>3

LEMMA FailureFacts ==
    ASSUME NEW m \in Machines, m.state = "checking",
           NEW step, step = shutdown_failed(m, m.generation)
    PROVE  GivesUp(step)
BY GivenUpFacts DEF shutdown_failed

\* The answer to the commit and the exit timer.
LEMMA CommitFacts ==
    ASSUME NEW m \in Machines, Sound(m), NEW g \in Nat, NEW step, step = commit_succeeded(m, g)
    PROVE  \/ /\ step = Ignored(m)
              /\ ~(m.generation = g /\ m.state = "shuttingDown" /\ ~m.commitAccepted)
           \/ m.generation = g /\ GivesUp(step)
           \/ /\ m.generation = g /\ m.state = "shuttingDown" /\ step.effect = "none"
              /\ step.machine = [m EXCEPT !.commitAccepted = TRUE] /\ Sound(step.machine)
<1>1. CASE m.generation = g /\ m.state = "shuttingDown" /\ m.shutdownAccepted /\ ~m.commitAccepted
           /\ ~m.terminated
  BY <1>1 DEF commit_succeeded, Sound, Done, Machines
<1>2. CASE m.generation = g /\ m.state = "shuttingDown" /\ m.shutdownAccepted /\ ~m.commitAccepted
           /\ m.terminated
  BY <1>2, GivenUpFacts DEF commit_succeeded
<1> QED
  BY <1>1, <1>2 DEF commit_succeeded, Sound

LEMMA CommitFailureFacts ==
    ASSUME NEW m \in Machines, NEW g \in Nat, NEW step, step = commit_failed(m, g)
    PROVE  \/ step = Ignored(m) /\ ~(m.generation = g /\ m.state = "shuttingDown")
           \/ m.generation = g /\ m.state = "shuttingDown" /\ GivesUp(step)
BY GivenUpFacts DEF commit_failed

LEMMA TimeoutFacts ==
    ASSUME NEW m \in Machines, NEW g \in Nat, NEW step, step = shutdown_timed_out(m, g)
    PROVE  \/ step = Ignored(m)
           \/ m.generation = g /\ m.state = "shuttingDown" /\ ~m.launching /\ ~m.committed /\ GivesUp(step)
BY GivenUpFacts DEF shutdown_timed_out

\* The end of the sidecar, and of the hand-off to the installer.
LEMMA TerminatedFacts ==
    ASSUME NEW m \in Machines, Sound(m), NEW g \in Nat \ {0}, NEW step, step = terminated(m, g)
    PROVE  \/ step = Ignored(m)
           \/ /\ m.generation = g /\ Busy(m)
              /\ Sound(step.machine)
              /\ \/ step.effect = "none" /\ step.machine = [m EXCEPT !.terminated = TRUE]
                 \/ /\ step.effect = "exit" /\ m.state = "shuttingDown" /\ m.commitAccepted
                    /\ ~m.launching
                    /\ step.machine = [m EXCEPT !.committed = TRUE]
                 \/ /\ step.effect = "installUpdate" /\ m.state = "shuttingDown" /\ m.commitAccepted
                    /\ ~m.launching /\ ~m.committed
                    /\ step.machine = [m EXCEPT !.launching = TRUE]
BY DEF terminated, owns_termination, Sound, Done, Ignored, Machines, Busy

LEMMA LaunchFacts ==
    ASSUME NEW m \in Machines, Sound(m), NEW g \in Nat,
           NEW step \in {install_launched(m, g), install_launch_failed(m, g)}
    PROVE  \/ step = Ignored(m)
           \/ m.launching /\ ~m.committed /\ GivesUp(step)
           \/ /\ m.launching /\ m.state = "shuttingDown"
              /\ step.effect = "exit" /\ step.machine = [m EXCEPT !.committed = TRUE]
              /\ Sound(step.machine)
<1>1. CASE ~Launching(m, g)
  BY <1>1 DEF install_launched, install_launch_failed
<1>2. CASE Launching(m, g) /\ step = install_launched(m, g)
  BY <1>2 DEF install_launched, Launching, Sound, Done, Ignored, Machines
<1>3. CASE Launching(m, g) /\ step = install_launch_failed(m, g)
  BY <1>3, GivenUpFacts DEF install_launch_failed, Launching
<1> QED
  BY <1>1, <1>2, <1>3

(***************************************************************************)
(* The host.                                                               *)
(***************************************************************************)
LEMMA HostTypes == HostFits => /\ generation \in Nat \ {0} /\ exit \in Machines
                               /\ command.generation \in Nat /\ attempt.generation \in Nat
                               /\ watcher \in Nat /\ MaxGenerations \in Nat
                               /\ \A e \in effects : e.generation \in Nat
BY AGenerationExists DEF HostFits, HostTypeOK, MachineFits, Sound

LEMMA HostWindow ==
    ASSUME HostFits, RequestExit \/ CancelExit
    PROVE  HostFits'
<1> USE DEF commandVars, watchVars, sidecarVars
<1>1. PICK step : step \in {request(exit), cancel(exit)} /\ Apply(step, 0)
  BY DEF RequestExit, CancelExit
<1>2. exit \in Machines /\ Sound(exit) /\ UNCHANGED <<alive, runtime, generation, command, restart, attempt, ended, watcher, timers, installed, appExited>>
  BY DEF HostFits, MachineFits, Sound, RequestExit, CancelExit
<1>3. PICK m \in Machines : m = exit
  BY <1>2
<1>4. /\ Sound(exit') /\ effects' = effects
      /\ exit' = exit \/ (~Busy(exit) /\ ~Busy(exit'))
  BY <1>1, <1>2, <1>3, WindowFacts DEF Apply
<1>5. CASE exit' = exit
  BY <1>2, <1>4, <1>5 DEF HostFits, HostTypeOK, MachineFits, ThreadsFit, GenerationsFit, UpTo
<1>6. CASE ~Busy(exit) /\ ~Busy(exit')
  <2>1. /\ exit.generation = 0 /\ exit'.generation = 0
        /\ ~exit'.launching /\ ~exit'.committed /\ ~exit.launching /\ ~exit.committed
    BY <1>2, <1>4, <1>6 DEF Sound, Busy
  <2>2. HostTypeOK' /\ MachineFits'
    BY <1>2, <1>4, <2>1 DEF HostFits, HostTypeOK, MachineFits
  <2>3. ThreadsFit'
    BY <1>2, <1>4, <1>6, <2>1 DEF HostFits, ThreadsFit, Busy
  <2>4. GenerationsFit'
    BY <1>2, <1>4, <2>1 DEF HostFits, GenerationsFit, UpTo
  <2> QED
    BY <2>2, <2>3, <2>4 DEF HostFits
<1> QED
  BY <1>4, <1>5, <1>6

LEMMA HostBegins ==
    ASSUME HostFits, NEW intent \in {"quit", "install"}, BeginCommand(intent)
    PROVE  HostFits'
<1> USE DEF watchVars, sidecarVars
<1>1. /\ UNCHANGED <<alive, exit, runtime, generation, attempt, effects, ended, watcher, timers,
                     restart, installed, appExited>>
      /\ \/ runtime = "ready" /\ command' = [stage |-> "session", intent |-> intent, generation |-> generation]
         \/ command' = [stage |-> "noSession", intent |-> "quit", generation |-> 0]
  BY DEF BeginCommand, NoCommand
<1>2. HostTypeOK'
  BY <1>1, AGenerationExists DEF HostFits, HostTypeOK
<1>3. MachineFits' /\ ThreadsFit'
  BY <1>1 DEF HostFits, HostTypeOK, MachineFits, ThreadsFit
<1>4. GenerationsFit'
  BY <1>1, HostTypes DEF HostFits, GenerationsFit, UpTo
<1> QED
  BY <1>2, <1>3, <1>4 DEF HostFits

LEMMA HostAsks ==
    ASSUME HostFits, NEW c \in Calls, StartAttempt(c)
    PROVE  HostFits'
<1> USE DEF watchVars, sidecarVars
<1> DEFINE g == command.generation
<1>1. PICK step : /\ step \in {confirm(exit, g), begin_update_install(exit, g)}
                  /\ Apply(step, g)
                  /\ step.effect # "emit" => UNCHANGED attempt
                  /\ step.effect = "emit" =>
                       /\ attempt.stage = "none"
                       /\ attempt' = [stage |-> "asking", generation |-> g, call |-> c]
  BY DEF StartAttempt
<1>2. /\ command.stage = "session" /\ command' = NoCommand
      /\ UNCHANGED <<runtime, generation, ended, watcher, timers, restart, installed, appExited>>
      /\ UNCHANGED alive
  BY DEF StartAttempt, Send
<1>3. g \in Nat \ {0} /\ exit \in Machines /\ Sound(exit) /\ g \in 0..MaxGenerations
  BY <1>2, HostTypes DEF HostFits, HostTypeOK, ThreadsFit, MachineFits
<1>4. PICK m \in Machines, n \in Nat \ {0} : m = exit /\ n = g
  BY <1>3
<1>5. /\ Sound(exit') /\ effects' = effects
      /\ \/ exit' = exit /\ attempt' = attempt
         \/ /\ ~Busy(exit) /\ exit'.state = "checking" /\ exit'.generation = g
            /\ attempt' = [stage |-> "asking", generation |-> g, call |-> c]
  BY <1>1, <1>3, <1>4, BeginFacts DEF Apply
<1> HIDE DEF g
<1>6. HostTypeOK'
  BY <1>2, <1>3, <1>5, AGenerationExists DEF HostFits, HostTypeOK, NoCommand
<1>7. MachineFits'
  BY <1>2, <1>5 DEF HostFits, MachineFits, Sound, Busy
<1>8. ThreadsFit'
  BY <1>2, <1>3, <1>5 DEF HostFits, ThreadsFit, MachineFits, Sound, Busy, NoCommand
<1>9. GenerationsFit'
  BY <1>2, <1>3, <1>5, HostTypes DEF HostFits, GenerationsFit, UpTo, NoCommand, g
<1> QED
  BY <1>6, <1>7, <1>8, <1>9 DEF HostFits

LEMMA HostNoSession ==
    ASSUME HostFits, ConfirmWithoutSession
    PROVE  HostFits'
<1> USE DEF watchVars, sidecarVars
<1>1. PICK step : /\ step = confirm_without_ready_session(exit)
                  /\ exit' = step.machine
                  /\ command' = IF step.effect = "exit"
                                THEN [command EXCEPT !.stage = "terminating"] ELSE NoCommand
  BY DEF ConfirmWithoutSession
<1>2. /\ UNCHANGED <<alive, runtime, generation, attempt, effects, ended, watcher, timers, restart, installed, appExited>>
      /\ exit \in Machines /\ Sound(exit)
  BY DEF ConfirmWithoutSession, HostFits, MachineFits, Sound
<1>3. PICK m \in Machines : m = exit
  BY <1>2
<1>4. /\ Sound(exit')
      /\ \/ exit' = exit /\ command' = NoCommand
         \/ /\ ~Busy(exit) /\ Busy(exit') /\ exit'.committed /\ exit'.generation = 0 /\ ~exit'.launching
            /\ command' = [command EXCEPT !.stage = "terminating"]
  BY <1>1, <1>2, <1>3, NoSessionFacts
<1>5. HostTypeOK'
  BY <1>2, <1>4, AGenerationExists DEF HostFits, HostTypeOK, NoCommand
<1>6. MachineFits'
  BY <1>2, <1>4, HostTypes DEF HostFits, MachineFits
<1>7. ThreadsFit'
  BY <1>2, <1>4 DEF HostFits, HostTypeOK, ThreadsFit, MachineFits, Sound, Busy, NoCommand
<1>8. GenerationsFit'
  BY <1>2, <1>4, HostTypes DEF HostFits, HostTypeOK, GenerationsFit, UpTo, NoCommand, MachineFits, Sound, Busy
<1> QED
  BY <1>5, <1>6, <1>7, <1>8 DEF HostFits

\* The end of the process, by itself or by the host, of the generation that runs.
LEMMA HostTerminates ==
    ASSUME HostFits, TerminateNonReady
    PROVE  HostFits'
<1> USE DEF watchVars, sidecarVars
<1>1. /\ command.stage = "terminating" /\ command' = [command EXCEPT !.stage = "exiting"]
      /\ UNCHANGED <<exit, generation, attempt, effects, watcher, timers, restart, installed, appExited>>
      /\ runtime' \in {runtime, "recovery"}
      /\ \/ UNCHANGED <<alive, ended>>
         \/ alive /\ ~alive' /\ ended' = ended \cup {generation}
  BY DEF TerminateNonReady, ProcessEnds
<1>2. HostTypeOK'
  BY <1>1, HostTypes DEF HostFits, HostTypeOK
<1>3. MachineFits' /\ ThreadsFit'
  BY <1>1 DEF HostFits, HostTypeOK, MachineFits, ThreadsFit
<1>4. GenerationsFit'
  BY <1>1, HostTypes DEF HostFits, HostTypeOK, GenerationsFit, UpTo
<1> QED
  BY <1>2, <1>3, <1>4 DEF HostFits

LEMMA HostCloses ==
    ASSUME HostFits, ExitNonReady \/ \E e \in effects : PerformExit(e)
    PROVE  HostFits'
<1> USE DEF watchVars, sidecarVars, commandVars
<1>1. /\ command' = command \/ command' = NoCommand
      /\ effects' \subseteq effects /\ appExited' = TRUE
      /\ UNCHANGED <<exit, runtime, generation, attempt, ended, watcher, timers, restart, installed>>
      /\ alive' => alive
  BY DEF ExitNonReady, PerformExit, CloseApp, ProcessEnds
<1>2. HostTypeOK'
  BY <1>1, AGenerationExists DEF HostFits, HostTypeOK, NoCommand
<1>3. MachineFits' /\ ThreadsFit'
  BY <1>1 DEF HostFits, HostTypeOK, MachineFits, ThreadsFit, NoCommand
<1>4. GenerationsFit'
  BY <1>1, HostTypes DEF HostFits, HostTypeOK, GenerationsFit, UpTo, NoCommand
<1> QED
  BY <1>2, <1>3, <1>4 DEF HostFits

\* An attempt that was given up asks for the recovery page of its own generation.
LEMMA HostGivesUp ==
    ASSUME HostFits, NEW g \in 1..MaxGenerations, NEW step, GivesUp(step), Apply(step, g),
           g <= generation, runtime = "starting" => g < generation,
           ~exit.launching, ~exit.committed,
           attempt' = attempt \/ attempt' = NoAttempt,
           attempt'.stage = "asking" => FALSE,
           timers' \subseteq timers,
           UNCHANGED <<alive, runtime, generation, command, ended, watcher, restart, installed, appExited>>
    PROVE  HostFits'
<1>1. /\ exit' = Fresh
      /\ \E e : /\ e \in [effect : {"recover", "recoverUpdate"}, generation : {g}]
                /\ effects' = effects \cup {e}
  <2>1. step.effect \in Performed
    BY DEF GivesUp, Performed
  <2> QED
    BY <2>1 DEF GivesUp, Apply
<1>2. PICK e \in [effect : {"recover", "recoverUpdate"}, generation : {g}] : effects' = effects \cup {e}
  BY <1>1
<1>3. /\ Sound(exit') /\ exit'.generation = 0 /\ ~exit'.launching /\ ~exit'.committed
      /\ exit'.state = "idle"
  BY <1>1, FreshIsSound DEF Fresh
<1>4. HostTypeOK'
  BY <1>2, AGenerationExists DEF HostFits, HostTypeOK, NoAttempt, Performed
<1>5. MachineFits'
  BY <1>3 DEF MachineFits
<1>6. ThreadsFit'
  BY <1>2, <1>3 DEF HostFits, HostTypeOK, ThreadsFit, NoAttempt
<1>7. GenerationsFit'
  BY <1>2, <1>3, HostTypes DEF HostFits, HostTypeOK, GenerationsFit, UpTo, NoAttempt
<1> QED
  BY <1>4, <1>5, <1>6, <1>7 DEF HostFits

LEMMA HostAnswered ==
    ASSUME HostFits, AttemptAnswered
    PROVE  HostFits'
<1> USE DEF watchVars, commandVars
<1> DEFINE g == attempt.generation
<1>1. /\ attempt.stage = "asking"
      /\ UNCHANGED <<alive, runtime, generation, command, restart, ended, watcher, timers, installed, appExited>>
  BY DEF AttemptAnswered, SendCommit, sidecarVars
<1>2. exit.state = "checking" /\ exit.generation = g /\ g \in 1..MaxGenerations /\ g <= generation
      /\ (runtime = "starting" => g < generation)
  BY <1>1, HostTypes DEF HostFits, HostTypeOK, ThreadsFit, MachineFits, Sound, GenerationsFit, UpTo
<1>3. /\ Sound(exit) /\ exit \in Machines /\ ~exit.launching /\ ~exit.committed
      /\ ~exit.shutdownAccepted /\ ~exit.commitAccepted
  BY <1>2 DEF HostFits, MachineFits, Sound
<1>4. PICK m \in Machines : m = exit
  BY <1>3
<1>5. \/ \E reply \in Replies : \E step :
            /\ step = shutdown_reply(exit, g, reply) /\ Apply(step, g) /\ g = generation
            /\ IF reply = "accepted"
               THEN attempt' = [attempt EXCEPT !.stage = "committing"]
               ELSE attempt' = NoAttempt
      \/ \E step : step = shutdown_failed(exit, g) /\ Apply(step, g) /\ attempt' = NoAttempt
  BY DEF AttemptAnswered, ReplyOf
<1>6. ASSUME NEW step, GivesUp(step), Apply(step, g), attempt' = NoAttempt
      PROVE  HostFits'
  <2>1. attempt'.stage # "asking"
    BY <1>6 DEF NoAttempt
  <2> QED
    BY <1>1, <1>2, <1>3, <1>6, <2>1, HostGivesUp
<1>7. ASSUME NEW step, step = shutdown_failed(exit, g), Apply(step, g), attempt' = NoAttempt
      PROVE  HostFits'
  <2>1. GivesUp(step)
    BY <1>2, <1>4, <1>7, FailureFacts
  <2> QED
    BY <1>6, <1>7, <2>1
<1>8. ASSUME NEW reply \in Replies, NEW step, step = shutdown_reply(exit, g, reply), Apply(step, g),
             reply = "accepted", attempt' = [attempt EXCEPT !.stage = "committing"]
      PROVE  HostFits'
  <2>1. /\ Sound(exit') /\ exit'.state = "shuttingDown" /\ exit'.generation = g
        /\ ~exit'.commitAccepted /\ ~exit'.committed /\ ~exit'.launching
        /\ effects' = effects
    BY <1>2, <1>3, <1>4, <1>8, ReplyFacts DEF Apply, Performed, Sound
  <2>2. HostTypeOK'
    BY <1>1, <1>8, <2>1 DEF HostFits, HostTypeOK
  <2>3. MachineFits'
    BY <2>1 DEF MachineFits
  <2>4. ThreadsFit'
    BY <1>1, <1>2, <1>3, <1>8, <2>1 DEF HostFits, HostTypeOK, ThreadsFit
  <2>5. GenerationsFit'
    BY <1>1, <1>2, <1>8, <2>1, HostTypes DEF HostFits, HostTypeOK, GenerationsFit, UpTo
  <2> QED
    BY <2>2, <2>3, <2>4, <2>5 DEF HostFits
<1>9. ASSUME NEW reply \in Replies, NEW step, step = shutdown_reply(exit, g, reply), Apply(step, g),
             reply # "accepted", attempt' = NoAttempt
      PROVE  HostFits'
  <2>1. CASE GivesUp(step)
    BY <1>6, <1>9, <2>1
  <2>2. CASE ~GivesUp(step)
    <3>1. /\ Sound(exit') /\ ~Busy(exit') /\ exit'.generation = 0
          /\ ~exit'.committed /\ ~exit'.launching
          /\ effects' = effects
      BY <1>2, <1>3, <1>4, <1>9, <2>2, ReplyFacts DEF Apply, Performed, Sound, Busy
    <3>2. HostTypeOK'
      BY <1>1, <1>9, <3>1, AGenerationExists DEF HostFits, HostTypeOK, NoAttempt
    <3>3. MachineFits'
      BY <3>1 DEF MachineFits
    <3>4. ThreadsFit'
      BY <1>1, <1>2, <1>3, <1>9, <3>1 DEF HostFits, HostTypeOK, ThreadsFit, NoAttempt
    <3>5. GenerationsFit'
      BY <1>1, <1>2, <1>9, <3>1, HostTypes DEF HostFits, HostTypeOK, GenerationsFit, UpTo, NoAttempt
    <3> QED
      BY <3>2, <3>3, <3>4, <3>5 DEF HostFits
  <2> QED
    BY <2>1, <2>2
<1> QED
  BY <1>5, <1>7, <1>8, <1>9

LEMMA HostCommitted ==
    ASSUME HostFits, CommitAnswered
    PROVE  HostFits'
<1> USE DEF watchVars, commandVars, sidecarVars
<1> DEFINE g == attempt.generation
<1>1. /\ attempt.stage = "committing" /\ attempt' = NoAttempt
      /\ UNCHANGED <<alive, runtime, generation, command, restart, ended, watcher, installed, appExited>>
  BY DEF CommitAnswered
<1>2. /\ g \in 1..MaxGenerations /\ g <= generation /\ (runtime = "starting" => g < generation)
      /\ exit.generation = g => ~exit.commitAccepted /\ exit.state = "shuttingDown"
  BY <1>1, HostTypes DEF HostFits, HostTypeOK, ThreadsFit, GenerationsFit, UpTo
<1>3. Sound(exit) /\ exit \in Machines
  BY DEF HostFits, MachineFits, Sound
<1>4. PICK m \in Machines : m = exit
  BY <1>3
<1>5. \/ \E step : step = commit_succeeded(exit, g) /\ Apply(step, g) /\ timers' = timers \cup {g}
      \/ \E step : step = commit_failed(exit, g) /\ Apply(step, g) /\ UNCHANGED timers
  BY DEF CommitAnswered
<1>6. attempt'.stage = "none" /\ attempt'.generation = 0 /\ attempt'.call = NoCall
  BY <1>1 DEF NoAttempt
<1>7. timers' \subseteq timers \cup {g}
  BY <1>5
<1>8. HostTypeOK'
  <2>1. effects' \subseteq [effect : Performed, generation : 0..MaxGenerations]
    BY <1>2, <1>5 DEF Apply, HostFits, HostTypeOK
  <2> QED
    BY <1>1, <1>2, <1>6, <1>7, <2>1, AGenerationExists DEF HostFits, HostTypeOK, NoAttempt
<1>9. ASSUME NEW step, GivesUp(step), Apply(step, g), exit.generation = g
      PROVE  HostFits'
  <2>1. exit' = Fresh /\ \A e \in effects' : e \in effects \/ (e.generation = g /\ e.effect \in {"recover", "recoverUpdate"})
    BY <1>9 DEF GivesUp, Apply
  <2>2. ~exit.launching /\ ~exit.committed
    BY <1>2, <1>3, <1>9 DEF Sound
  <2>3. /\ Sound(exit') /\ exit'.generation = 0 /\ ~exit'.launching /\ ~exit'.committed
    BY <2>1, FreshIsSound DEF Fresh
  <2>4. ThreadsFit'
    BY <1>1, <1>6, <2>1, <2>2, <2>3 DEF HostFits, ThreadsFit
  <2>5. GenerationsFit'
    BY <1>1, <1>2, <1>6, <1>7, <2>1, <2>3, HostTypes DEF HostFits, HostTypeOK, GenerationsFit, UpTo
  <2> QED
    BY <1>8, <2>3, <2>4, <2>5 DEF HostFits, MachineFits
<1>10. ASSUME Sound(exit'), exit'.generation = exit.generation, exit'.state = exit.state,
              UNCHANGED effects,
              exit'.launching = exit.launching, exit'.committed = exit.committed
       PROVE  HostFits'
  <2>1. MachineFits'
    BY <1>1, <1>10 DEF HostFits, MachineFits
  <2>2. ThreadsFit'
    BY <1>1, <1>6, <1>10 DEF HostFits, ThreadsFit
  <2>3. GenerationsFit'
    BY <1>1, <1>2, <1>6, <1>7, <1>10, HostTypes DEF HostFits, HostTypeOK, GenerationsFit, UpTo
  <2> QED
    BY <1>8, <2>1, <2>2, <2>3 DEF HostFits
<1>11. ASSUME NEW step, step = Ignored(exit), Apply(step, g)
       PROVE  HostFits'
  <2>1. exit' = exit /\ UNCHANGED effects
    BY <1>11 DEF Apply, Ignored, Done, Performed
  <2> QED
    BY <1>3, <1>10, <2>1
<1>12. ASSUME NEW step, step = commit_succeeded(exit, g), Apply(step, g)
       PROVE  HostFits'
  <2>1. CASE step = Ignored(exit)
    BY <1>11, <1>12, <2>1
  <2>2. CASE exit.generation = g /\ GivesUp(step)
    BY <1>9, <1>12, <2>2
  <2>3. CASE /\ step.effect = "none" /\ step.machine = [exit EXCEPT !.commitAccepted = TRUE]
             /\ Sound(step.machine)
    <3>1. exit' = [exit EXCEPT !.commitAccepted = TRUE] /\ UNCHANGED effects /\ Sound(exit')
      BY <1>12, <2>3 DEF Apply, Performed
    <3> QED
      BY <1>3, <1>10, <3>1 DEF Machines
  <2> QED
    BY <1>2, <1>3, <1>4, <1>12, <2>1, <2>2, <2>3, CommitFacts
<1>13. ASSUME NEW step, step = commit_failed(exit, g), Apply(step, g)
       PROVE  HostFits'
  <2>1. step = Ignored(exit) \/ (exit.generation = g /\ GivesUp(step))
    BY <1>2, <1>4, <1>13, CommitFailureFacts
  <2> QED
    BY <1>9, <1>11, <1>13, <2>1
<1> QED
  BY <1>5, <1>12, <1>13

LEMMA HostTimesOut ==
    ASSUME HostFits, NEW g \in timers, TimerFires(g)
    PROVE  HostFits'
<1> USE DEF watchVars, commandVars, sidecarVars
<1>1. /\ timers' = timers \ {g}
      /\ UNCHANGED <<alive, runtime, generation, command, restart, attempt, ended, watcher, installed, appExited>>
  BY DEF TimerFires
<1>2. PICK step : step = shutdown_timed_out(exit, g) /\ Apply(step, g)
  BY DEF TimerFires
<1>3. g \in 1..MaxGenerations /\ g <= generation /\ (runtime = "starting" => g < generation)
  BY HostTypes DEF HostFits, HostTypeOK, GenerationsFit, UpTo
<1>4. PICK m \in Machines : m = exit
  BY DEF HostFits, MachineFits, Sound
<1>5. \/ step = Ignored(exit)
      \/ exit.state = "shuttingDown" /\ ~exit.launching /\ ~exit.committed /\ GivesUp(step)
  BY <1>2, <1>3, <1>4, TimeoutFacts
<1>6. CASE step = Ignored(exit)
  <2>1. exit' = exit /\ UNCHANGED effects
    BY <1>2, <1>6 DEF Apply, Ignored, Done, Performed
  <2> QED
    BY <1>1, <2>1 DEF HostFits, HostTypeOK, MachineFits, ThreadsFit, GenerationsFit, UpTo
<1>7. CASE exit.state = "shuttingDown" /\ ~exit.launching /\ ~exit.committed /\ GivesUp(step)
  <2>1. attempt.stage # "asking"
    BY <1>7 DEF HostFits, ThreadsFit
  <2> QED
    BY <1>1, <1>2, <1>3, <1>7, <2>1, HostGivesUp
<1> QED
  BY <1>5, <1>6, <1>7

LEMMA HostRecovers ==
    ASSUME HostFits, NEW e \in effects, PerformRecover(e)
    PROVE  HostFits'
<1> USE DEF watchVars, commandVars, sidecarVars
<1>1. /\ runtime' = runtime \/ runtime' = "recovery"
      /\ effects' = effects \ {e}
      /\ UNCHANGED <<alive, exit, generation, command, restart, attempt, ended, watcher, timers, installed, appExited>>
  BY DEF PerformRecover, ToRecovery
<1> QED
  BY <1>1 DEF HostFits, HostTypeOK, MachineFits, ThreadsFit, GenerationsFit, UpTo

LEMMA HostInstalls ==
    ASSUME HostFits, NEW e \in effects, PerformInstall(e)
    PROVE  HostFits'
<1> USE DEF watchVars, commandVars, sidecarVars
<1> DEFINE g == e.generation
<1>1. PICK step : /\ step \in {install_launched(exit, g), install_launch_failed(exit, g)}
                  /\ exit' = step.machine
                  /\ effects' = (effects \ {e}) \cup
                                (IF step.effect \in Performed
                                 THEN {[effect |-> step.effect, generation |-> g]} ELSE {})
  BY DEF PerformInstall
<1>2. /\ UNCHANGED <<alive, runtime, generation, command, restart, attempt, ended, watcher, timers, appExited>>
      /\ installed' \in BOOLEAN
      /\ e.effect = "installUpdate"
  BY DEF PerformInstall, HostFits, HostTypeOK
<1>3. /\ exit.launching /\ ~exit.committed /\ exit.generation = g
      /\ \A f \in effects : f.effect = "installUpdate" => f.generation = g
      /\ g \in 0..MaxGenerations
  BY <1>2 DEF HostFits, HostTypeOK, ThreadsFit
<1>4. \A f \in effects \ {e} : f.effect # "installUpdate" /\ f.effect # "exit"
  <2>1. ASSUME NEW f \in effects, f.effect = "installUpdate"
        PROVE  f = e
    BY <1>2, <1>3, <2>1 DEF HostFits, HostTypeOK
  <2> QED
    BY <1>3, <2>1 DEF HostFits, ThreadsFit
<1>5. Sound(exit) /\ exit \in Machines /\ g \in Nat
  BY <1>3 DEF HostFits, MachineFits, Sound
<1>6. PICK m \in Machines, n \in Nat : m = exit /\ n = g
  BY <1>5
<1>7. \/ step = Ignored(exit)
      \/ GivesUp(step)
      \/ /\ step.effect = "exit" /\ step.machine = [exit EXCEPT !.committed = TRUE]
         /\ Sound(step.machine)
  BY <1>1, <1>5, <1>6, LaunchFacts
<1>8. exit.generation # generation \/ ~alive
  BY <1>3 DEF HostFits, MachineFits
<1>9. HostTypeOK'
  BY <1>1, <1>2, <1>3 DEF HostFits, HostTypeOK
<1>10. attempt.stage # "asking" /\ (attempt.stage = "committing" => attempt.generation # g)
  BY <1>3, <1>5 DEF HostFits, ThreadsFit, Sound
<1>11. \A f \in effects' : f \in effects \/ f.generation = g
  BY <1>1
<1>12. ASSUME exit'.generation \in {0, g}
       PROVE  GenerationsFit'
  BY <1>2, <1>3, <1>11, <1>12, HostTypes DEF HostFits, GenerationsFit, UpTo
<1>13. CASE step = Ignored(exit)
  <2>1. exit' = exit /\ effects' = effects \ {e}
    BY <1>1, <1>13 DEF Ignored, Done, Performed
  <2> QED
    BY <1>2, <1>9, <1>12, <1>3, <2>1 DEF HostFits, MachineFits, ThreadsFit
<1>14. CASE GivesUp(step)
  <2>1. exit' = Fresh
    BY <1>1, <1>14 DEF GivesUp
  <2>2. Sound(exit') /\ exit'.generation = 0 /\ ~exit'.launching /\ ~exit'.committed
    BY <2>1, FreshIsSound DEF Fresh
  <2>3. \A f \in effects' : f.effect \notin {"exit", "installUpdate"}
    BY <1>1, <1>4, <1>14 DEF GivesUp, Performed
  <2>4. command.stage \notin {"terminating", "exiting"}
    BY <1>3 DEF HostFits, ThreadsFit
  <2>5. ThreadsFit'
    BY <1>2, <1>10, <2>2, <2>3, <2>4 DEF HostFits, ThreadsFit
  <2> QED
    BY <1>9, <1>12, <2>2, <2>5 DEF HostFits, MachineFits
<1>15. CASE /\ step.effect = "exit" /\ step.machine = [exit EXCEPT !.committed = TRUE]
            /\ Sound(step.machine)
  <2>1. exit' = [exit EXCEPT !.committed = TRUE] /\ Sound(exit')
    BY <1>1, <1>15
  <2>2. /\ exit'.committed /\ exit'.generation = g /\ exit'.state = exit.state
    BY <1>3, <1>5, <2>1 DEF Machines
  <2>3. \A f \in effects' : f.effect # "installUpdate"
    BY <1>1, <1>4, <1>15
  <2>4. command.stage \notin {"terminating", "exiting"}
    BY <1>3 DEF HostFits, ThreadsFit
  <2>5. ThreadsFit'
    BY <1>2, <1>3, <1>5, <1>10, <2>2, <2>3, <2>4 DEF HostFits, ThreadsFit, Sound
  <2> QED
    BY <1>2, <1>3, <1>8, <1>9, <1>12, <2>1, <2>2, <2>5 DEF HostFits, MachineFits
<1> QED
  BY <1>7, <1>13, <1>14, <1>15

LEMMA HostSeesTheEnd ==
    ASSUME HostFits, NEW g \in ended, TerminationSeen(g)
    PROVE  HostFits'
<1> USE DEF watchVars, commandVars, sidecarVars
<1>1. /\ ended' = ended \ {g}
      /\ \/ exit.generation = g /\ watcher' = g /\ UNCHANGED runtime
         \/ runtime' \in {runtime, "recovery"} /\ UNCHANGED watcher
      /\ UNCHANGED <<alive, exit, generation, command, restart, attempt, effects, timers, installed, appExited>>
  BY DEF TerminationSeen, owns_termination, ToRecovery
<1>2. HostTypeOK' /\ MachineFits' /\ ThreadsFit'
  BY <1>1 DEF HostFits, HostTypeOK, MachineFits, ThreadsFit
<1>3. GenerationsFit'
  BY <1>1 DEF HostFits, GenerationsFit, UpTo
<1> QED
  BY <1>2, <1>3 DEF HostFits

LEMMA HostHandlesTheEnd ==
    ASSUME HostFits, TerminationApplied
    PROVE  HostFits'
<1> USE DEF watchVars, commandVars, sidecarVars
<1>1. /\ watcher # 0 /\ watcher' = 0
      /\ UNCHANGED <<alive, runtime, generation, command, restart, attempt, ended, timers, installed, appExited>>
  BY DEF TerminationApplied
<1>2. PICK step : step = terminated(exit, watcher) /\ Apply(step, watcher)
  BY DEF TerminationApplied
<1>3. /\ watcher \in 1..MaxGenerations /\ watcher <= generation
      /\ runtime = "starting" => watcher < generation
      /\ watcher # generation \/ ~alive
  BY <1>1, HostTypes DEF HostFits, HostTypeOK, GenerationsFit, UpTo
<1>4. Sound(exit) /\ exit \in Machines /\ watcher \in Nat \ {0}
  BY <1>3 DEF HostFits, MachineFits, Sound
<1>5. PICK m \in Machines, n \in Nat \ {0} : m = exit /\ n = watcher
  BY <1>4
<1>6. \/ step = Ignored(exit)
      \/ /\ exit.generation = watcher /\ Busy(exit)
         /\ Sound(step.machine)
         /\ \/ step.effect = "none" /\ step.machine = [exit EXCEPT !.terminated = TRUE]
            \/ /\ step.effect = "exit" /\ exit.state = "shuttingDown" /\ exit.commitAccepted
               /\ ~exit.launching
               /\ step.machine = [exit EXCEPT !.committed = TRUE]
            \/ /\ step.effect = "installUpdate" /\ exit.state = "shuttingDown" /\ exit.commitAccepted
               /\ ~exit.launching /\ ~exit.committed
               /\ step.machine = [exit EXCEPT !.launching = TRUE]
  BY <1>2, <1>4, <1>5, TerminatedFacts
<1>7. /\ step.effect \in Performed \cup {"none"}
      /\ \A e \in effects' : \/ e \in effects
                             \/ e.generation = watcher /\ e.effect = step.effect /\ e.effect # "none"
      /\ effects' \subseteq [effect : Performed, generation : 0..MaxGenerations]
  <2>1. step.effect \in Performed \cup {"none"}
    BY <1>6 DEF Performed, Ignored, Done
  <2> QED
    BY <1>2, <1>3, <2>1 DEF Apply, Performed, HostFits, HostTypeOK
<1>8. HostTypeOK'
  BY <1>1, <1>7, AGenerationExists DEF HostFits, HostTypeOK
<1>9. ASSUME exit'.generation = exit.generation
      PROVE  GenerationsFit'
  BY <1>1, <1>3, <1>7, <1>9, HostTypes DEF HostFits, GenerationsFit, UpTo
<1>10. exit' = step.machine
  BY <1>2 DEF Apply
<1>11. CASE step = Ignored(exit)
  <2>1. exit' = exit /\ step.effect = "none"
    BY <1>10, <1>11 DEF Ignored, Done
  <2> QED
    BY <1>1, <1>7, <1>8, <1>9, <2>1 DEF HostFits, MachineFits, ThreadsFit
<1>12. CASE Sound(step.machine) /\ step.effect = "none" /\ step.machine = [exit EXCEPT !.terminated = TRUE]
  <2>1. /\ Sound(exit')
        /\ exit'.state = exit.state /\ exit'.generation = exit.generation
        /\ exit'.launching = exit.launching /\ exit'.committed = exit.committed
        /\ exit'.commitAccepted = exit.commitAccepted
    BY <1>4, <1>10, <1>12 DEF Machines
  <2> QED
    BY <1>1, <1>7, <1>8, <1>9, <1>12, <2>1 DEF HostFits, MachineFits, ThreadsFit
<1>13. ASSUME exit.generation = watcher, exit.state = "shuttingDown", exit.commitAccepted,
              Sound(exit'), exit'.state = exit.state, exit'.generation = exit.generation,
              exit'.commitAccepted = exit.commitAccepted,
              \A e \in effects' : /\ e.effect = "exit" => exit'.committed
                                  /\ e.effect = "installUpdate" =>
                                       exit'.launching /\ ~exit'.committed /\ e.generation = exit'.generation
       PROVE  HostFits'
  <2>1. MachineFits'
    BY <1>1, <1>3, <1>13 DEF MachineFits
  <2>2. attempt.stage \notin {"asking", "committing"}
    BY <1>1, <1>13 DEF HostFits, ThreadsFit
  <2>3. command.stage \notin {"terminating", "exiting"}
    BY <1>3, <1>13 DEF HostFits, ThreadsFit
  <2>4. ThreadsFit'
    BY <1>1, <1>3, <1>13, <2>2, <2>3 DEF HostFits, ThreadsFit
  <2> QED
    BY <1>8, <1>9, <1>13, <2>1, <2>4 DEF HostFits
<1>14. CASE /\ exit.generation = watcher /\ Sound(step.machine) /\ step.effect = "exit"
            /\ exit.state = "shuttingDown" /\ exit.commitAccepted /\ ~exit.launching
            /\ step.machine = [exit EXCEPT !.committed = TRUE]
  <2>1. /\ Sound(exit') /\ exit'.state = exit.state /\ exit'.generation = exit.generation
        /\ exit'.commitAccepted = exit.commitAccepted /\ exit'.committed
    BY <1>4, <1>10, <1>14 DEF Machines
  <2>2. \A e \in effects' : e.effect # "installUpdate"
    BY <1>7, <1>14 DEF HostFits, ThreadsFit
  <2> QED
    BY <1>13, <1>14, <2>1, <2>2
<1>15. CASE /\ exit.generation = watcher /\ Sound(step.machine) /\ step.effect = "installUpdate"
            /\ exit.state = "shuttingDown" /\ exit.commitAccepted /\ ~exit.launching /\ ~exit.committed
            /\ step.machine = [exit EXCEPT !.launching = TRUE]
  <2>1. /\ Sound(exit') /\ exit'.state = exit.state /\ exit'.generation = exit.generation
        /\ exit'.commitAccepted = exit.commitAccepted /\ exit'.launching /\ ~exit'.committed
    BY <1>4, <1>10, <1>15 DEF Machines
  <2>2. \A e \in effects' : e.effect # "exit" /\ (e.effect = "installUpdate" => e.generation = watcher)
    BY <1>7, <1>15 DEF HostFits, ThreadsFit
  <2> QED
    BY <1>13, <1>15, <2>1, <2>2
<1> QED
  BY <1>6, <1>11, <1>12, <1>14, <1>15

LEMMA HostRuns ==
    ASSUME HostFits, Handshake \/ HealthLost \/ RestartAsk
    PROVE  HostFits'
<1> USE DEF watchVars, commandVars, sidecarVars
<1>1. /\ runtime' = runtime \/ runtime' \in {"ready", "recovery"}
      /\ restart' = restart \/ restart' = "asked"
      /\ UNCHANGED <<alive, exit, generation, command, attempt, effects, ended, watcher, timers, installed, appExited>>
  BY DEF Handshake, HealthLost, RestartAsk
<1> QED
  BY <1>1 DEF HostFits, HostTypeOK, MachineFits, ThreadsFit, GenerationsFit, UpTo

LEMMA HostRestarts ==
    ASSUME HostFits, RestartBegin
    PROVE  HostFits'
<1> USE DEF watchVars, sidecarVars
<1>1. /\ UNCHANGED <<exit, command, attempt, effects, watcher, timers, installed, appExited>>
      /\ \/ /\ generation < MaxGenerations /\ generation' = generation + 1
            /\ runtime' = "starting" /\ restart' = "spawning"
            /\ ~alive'
            /\ ended' \subseteq ended \cup {generation}
         \/ restart' = "none" /\ UNCHANGED <<alive, generation, runtime, ended>>
  BY DEF RestartBegin, ProcessEnds
<1>2. CASE UNCHANGED <<alive, generation, runtime, ended>> /\ restart' = "none"
  BY <1>1, <1>2 DEF HostFits, HostTypeOK, MachineFits, ThreadsFit, GenerationsFit, UpTo
<1>3. CASE /\ generation < MaxGenerations /\ generation' = generation + 1
           /\ runtime' = "starting" /\ restart' = "spawning"
           /\ ~alive'
           /\ ended' \subseteq ended \cup {generation}
  <2>1. generation \in 1..MaxGenerations /\ MaxGenerations \in Nat /\ generation' \in 1..MaxGenerations
    BY <1>3, HostTypes DEF HostFits, HostTypeOK
  <2>2. HostTypeOK'
    BY <1>1, <1>3, <2>1 DEF HostFits, HostTypeOK
  <2>3. MachineFits' /\ ThreadsFit'
    BY <1>1, <1>3 DEF HostFits, MachineFits, ThreadsFit
  <2>4. UpTo(generation)
    BY DEF HostFits, GenerationsFit
  <2>5. UpTo(generation - 1)'
    <3>1. generation' - 1 = generation
      BY <1>3, <2>1
    <3> QED
      BY <1>1, <2>4, <3>1 DEF UpTo
  <2>6. \A g \in ended' : g <= generation'
    BY <1>3, <2>1 DEF HostFits, HostTypeOK, GenerationsFit
  <2>7. generation' \notin ended' /\ watcher' # generation'
    BY <1>1, <1>3, <2>1, HostTypes DEF HostFits, HostTypeOK, GenerationsFit, UpTo
  <2>8. UpTo(generation)'
    <3>1. /\ exit'.generation \in Nat /\ command'.generation \in Nat /\ attempt'.generation \in Nat
          /\ watcher' \in Nat /\ \A e \in effects' : e.generation \in Nat
      BY <1>1, HostTypes DEF Machines
    <3>2. \A g \in timers' : g \in Nat
      BY <1>1, <2>1 DEF HostFits, HostTypeOK
    <3>3. \A n \in Nat : n <= generation => n <= generation'
      BY <1>3, <2>1
    <3> QED
      BY <1>1, <2>4, <3>1, <3>2, <3>3 DEF UpTo
  <2> QED
    BY <1>3, <2>2, <2>3, <2>5, <2>6, <2>7, <2>8 DEF HostFits, GenerationsFit
<1> QED
  BY <1>1, <1>2, <1>3

LEMMA HostSpawns ==
    ASSUME HostFits, RestartSpawn
    PROVE  HostFits'
<1> USE DEF watchVars, sidecarVars
<1>1. /\ restart = "spawning" /\ restart' = "none"
      /\ UNCHANGED <<exit, generation, command, attempt, effects, ended, watcher, timers, installed, appExited>>
      /\ \/ runtime = "starting" /\ UNCHANGED runtime
         \/ runtime' = "recovery" /\ UNCHANGED alive
  BY DEF RestartSpawn
<1>2. HostTypeOK' /\ ThreadsFit'
  BY <1>1 DEF HostFits, HostTypeOK, ThreadsFit
<1>3. MachineFits'
  BY <1>1, HostTypes DEF HostFits, MachineFits, GenerationsFit, UpTo
<1>4. GenerationsFit'
  BY <1>1 DEF HostFits, GenerationsFit, UpTo
<1> QED
  BY <1>2, <1>3, <1>4 DEF HostFits

LEMMA HostWatches ==
    ASSUME HostFits, SidecarMoves \/ SidecarDies \/ UNCHANGED allVars
    PROVE  HostFits'
<1> USE DEF watchVars, commandVars, sidecarVars, hostVars
<1>1. CASE SidecarMoves \/ UNCHANGED allVars
  <2>1. UNCHANGED hostVars /\ UNCHANGED alive
    BY <1>1 DEF SidecarMoves, allVars, TaskStep, Enqueue, CancelQueued, Claim, HandlerEnds, HandlerPauses,
                RecoveryResume, RecoveryCancel, CallStep, Count, RefuseActive, Prepare, Acknowledged,
                DeadlinePasses, Accept, Missed, StorageFails, AnswerUnavailable, CommitCheck, CommitApply
  <2> QED
    BY <2>1 DEF HostFits, HostTypeOK, MachineFits, ThreadsFit, GenerationsFit, UpTo
<1>2. CASE SidecarDies
  <2>1. /\ ~alive' /\ ended' = ended \cup {generation} /\ alive
        /\ UNCHANGED <<exit, runtime, generation, command, restart, attempt, effects, watcher, timers,
                       installed, appExited>>
    BY <1>2 DEF SidecarDies, Exit, Crash, ProcessEnds
  <2>2. HostTypeOK' /\ MachineFits' /\ ThreadsFit'
    BY <2>1, HostTypes DEF HostFits, HostTypeOK, MachineFits, ThreadsFit
  <2>3. GenerationsFit'
    BY <2>1, HostTypes DEF HostFits, HostTypeOK, GenerationsFit, UpTo
  <2> QED
    BY <2>2, <2>3 DEF HostFits
<1> QED
  BY <1>1, <1>2

(***************************************************************************)
(* The calls of the present generation.                                    *)
(***************************************************************************)
Calm == (\A c \in Calls : call[c].stage \notin Pending) /\ ~prepared /\ ~serverExit

LEMMA HoldingIsPending == Holding \subseteq Pending /\ "committed" \in Pending
BY DEF Holding, Pending, Executing, Accepting

\* A machine that does not wait for the present generation has no call there.
LEMMA NothingCarried ==
    ASSUME CallsFit, Undisturbed, exit.generation # generation
    PROVE  Calm
<1>1. \A c \in Calls : call[c].stage \notin Pending
  BY DEF CallsFit, Carried
<1> QED
  BY <1>1, HoldingIsPending DEF CallsFit, Calm, At

LEMMA CalmFits ==
    ASSUME Calm'
    PROVE  CallsFit'
BY DEF Calm, CallsFit

\* Steps that touch neither the calls nor what carries them.
LEMMA CallsUntouched ==
    ASSUME CallsFit, Undisturbed' => Undisturbed,
           UNCHANGED <<call, prepared, serverExit, exit, attempt, generation>>
    PROVE  CallsFit'
<1>1. \A c \in Calls : Carried(c)' <=> Carried(c)
  BY DEF Carried, At
<1> QED
  BY <1>1 DEF CallsFit, At

\* Steps of a machine that carries no call.
LEMMA CallsIdle ==
    ASSUME CallsFit, Undisturbed' => Undisturbed, exit.generation # generation,
           UNCHANGED <<call, prepared, serverExit>>
    PROVE  CallsFit'
<1>1. CASE ~Undisturbed'
  BY <1>1 DEF CallsFit
<1>2. CASE Undisturbed'
  <2>1. Calm
    BY <1>2, NothingCarried
  <2> QED
    BY <2>1, CalmFits DEF Calm
<1> QED
  BY <1>1, <1>2

\* A given-up attempt of the present generation disturbs it.
LEMMA GivingUpDisturbs ==
    ASSUME NEW g, NEW step, GivesUp(step), Apply(step, g), g = generation, UNCHANGED generation
    PROVE  ~Undisturbed'
<1>1. [effect |-> step.effect, generation |-> g] \in effects'
  BY DEF GivesUp, Apply, Performed
<1>2. [effect |-> step.effect, generation |-> g].generation = generation'
  OBVIOUS
<1> HIDE DEF Apply
<1> QED
  BY <1>1, <1>2 DEF Undisturbed

\* A call of the sidecar that moves is the only one under way.
LEMMA CallsMove ==
    ASSUME SidecarFits, HostFits, CallsFit, NEW c \in Calls, CallStep(c), UNCHANGED hostVars
    PROVE  CallsFit'
<1> USE DEF flags, checkpoint
<1> SUFFICES ASSUME Undisturbed' PROVE CallsFit'
  BY DEF CallsFit
<1>0. TypeOK /\ alive /\ alive'
  BY DEF SidecarFits, CallStep, Count, RefuseActive, Prepare, Acknowledged, DeadlinePasses, Accept,
         Missed, StorageFails, AnswerUnavailable, CommitCheck, CommitApply
<1>1. Undisturbed
  BY <1>0 DEF Undisturbed, hostVars
<1>2. call[c].stage \in Executing \cup {"sent", "commitSent"}
  BY DEF CallStep, Count, RefuseActive, Prepare, Acknowledged, DeadlinePasses, Accept,
         Missed, StorageFails, AnswerUnavailable, CommitCheck, CommitApply, At, Executing
<1>3. call[c].stage \in Pending /\ call[c].stage # "committed"
  BY <1>2 DEF Pending, Accepting, Executing
<1>4. \A d \in Calls \ {c} : call[d].stage \notin Pending
  BY <1>1, <1>3 DEF CallsFit
<1>5. ~serverExit
  BY <1>1, <1>3, <1>4, HoldingIsPending DEF CallsFit, At
<1>6. prepared => call[c].stage \in Holding
  BY <1>1, <1>4, HoldingIsPending DEF CallsFit
<1>7. \A d \in Calls \ {c} : call'[d].stage = call[d].stage
  BY <1>0, CountFacts, GoesFacts
     DEF CallStep, RefuseActive, Prepare, Acknowledged, DeadlinePasses, Accept,
         Missed, StorageFails, AnswerUnavailable, CommitCheck, CommitApply, Stages, Executing, Answered
<1>8. Carried(c)'
  BY <1>1, <1>3 DEF CallsFit, Carried, At, hostVars
<1>9. prepared' => call'[c].stage \in Holding
  <2>1. CASE Count(c) \/ RefuseActive(c)
    BY <1>6, <2>1 DEF Count, RefuseActive, At, Holding, Accepting
  <2>2. CASE Prepare(c)
    <3>1. call'[c].stage \in {"waiting", "accepted"}
      BY <1>0, <2>2, GoesFacts DEF Prepare, Stages, Executing, Answered
    <3> QED
      BY <3>1 DEF Holding, Accepting
  <2>3. CASE Acknowledged(c) \/ DeadlinePasses(c) \/ StorageFails(c)
    <3>1. call'[c].stage \in {"drained", "missed", "failed"}
      BY <1>0, <2>3, GoesFacts DEF Acknowledged, DeadlinePasses, StorageFails, Stages, Executing, Answered
    <3> QED
      BY <3>1 DEF Holding
  <2>4. CASE Accept(c) \/ CommitApply(c)
    <3>1. call'[c].stage \in {"accepted", "committed"}
      BY <1>0, <2>4, GoesFacts DEF Accept, CommitApply, Stages, Executing, Answered
    <3> QED
      BY <3>1 DEF Holding, Accepting
  <2>5. CASE Missed(c) \/ AnswerUnavailable(c)
    BY <1>5, <2>5 DEF Missed, AnswerUnavailable, CancelPrepared
  <2>6. CASE CommitCheck(c)
    <3>1. prepared' = prepared /\ call'[c].stage = IF prepared THEN "commitChecked" ELSE "refused"
      BY <1>0, <2>6, GoesFacts DEF CommitCheck, Stages, Executing, Answered
    <3> QED
      BY <3>1 DEF Holding, Accepting
  <2> QED
    BY <2>1, <2>2, <2>3, <2>4, <2>5, <2>6 DEF CallStep
<1>10. serverExit' => call'[c].stage = "committed"
  <2>1. CASE CommitApply(c)
    BY <1>0, <2>1, GoesFacts DEF CommitApply, Stages, Answered
  <2>2. CASE ~CommitApply(c)
    BY <1>5, <2>2 DEF CallStep, Count, RefuseActive, Prepare, Acknowledged, DeadlinePasses, Accept,
         Missed, StorageFails, AnswerUnavailable, CommitCheck
  <2> QED
    BY <2>1, <2>2
<1> QED
  BY <1>4, <1>7, <1>8, <1>9, <1>10 DEF CallsFit, At

LEMMA CallsAsked ==
    ASSUME SidecarFits, HostFits, CallsFit, NEW c \in Calls, StartAttempt(c)
    PROVE  CallsFit'
<1> USE DEF watchVars
<1> SUFFICES ASSUME Undisturbed' PROVE CallsFit'
  BY DEF CallsFit
<1> DEFINE g == command.generation
<1>0. PICK step : /\ step \in {confirm(exit, g), begin_update_install(exit, g)}
                  /\ Apply(step, g)
                  /\ IF step.effect # "emit"
                     THEN UNCHANGED <<sidecarVars, attempt>>
                     ELSE /\ At(c, "unused")
                          /\ attempt' = [stage |-> "asking", generation |-> g, call |-> c]
                          /\ IF alive /\ g = generation
                             THEN Send(c, exit.state \in {"blocked", "checkpointTimedOut"})
                             ELSE Goes(c, "lost")
                                  /\ UNCHANGED <<alive, status, handler, flags, checkpoint, gate, faults>>
  BY DEF StartAttempt
<1>1. /\ step.effect = "emit" =>
           /\ attempt' = [stage |-> "asking", generation |-> g, call |-> c]
           /\ \/ g = generation /\ \E b : Send(c, b)
              \/ /\ Goes(c, "lost")
                 /\ UNCHANGED <<alive, status, handler, flags, checkpoint, gate, faults>>
      /\ step.effect # "emit" => UNCHANGED <<sidecarVars, attempt>>
  BY <1>0
<1>2. command.stage = "session" /\ UNCHANGED <<runtime, generation, appExited>>
  BY DEF StartAttempt
<1>3. g \in Nat \ {0} /\ exit \in Machines /\ Sound(exit) /\ TypeOK
  BY <1>2, HostTypes DEF HostFits, ThreadsFit, MachineFits, SidecarFits
<1>4. PICK m \in Machines, n \in Nat \ {0} : m = exit /\ n = g
  BY <1>3
<1>5. /\ effects' = effects
      /\ \/ exit' = exit /\ step.effect # "emit"
         \/ ~Busy(exit) /\ exit'.generation = g /\ step.effect = "emit"
  BY <1>0, <1>3, <1>4, BeginFacts DEF Apply
<1>6. /\ UNCHANGED <<alive, prepared, serverExit>>
  BY <1>1, <1>5 DEF sidecarVars, flags, Send
<1>7. Undisturbed
  BY <1>2, <1>5, <1>6 DEF Undisturbed
<1>8. CASE exit' = exit /\ step.effect # "emit"
  BY <1>1, <1>2, <1>7, <1>8, CallsUntouched DEF sidecarVars, flags
<1>9. CASE ~Busy(exit) /\ exit'.generation = g /\ step.effect = "emit"
  <2>1. exit.generation # generation
    BY <1>3, <1>9, HostTypes DEF Sound, Busy
  <2>2. Calm
    BY <1>7, <2>1, NothingCarried
  <2>3. CASE g = generation /\ \E b : Send(c, b)
    <3>1. PICK b : call' = [call EXCEPT ![c].stage = "sent", ![c].checkpointActive = b]
      BY <2>3 DEF Send
    <3>2. \A d \in Calls \ {c} : call'[d].stage = call[d].stage
      BY <1>3, <3>1 DEF TypeOK
    <3>3. Carried(c)'
      BY <1>1, <1>2, <1>9, <2>3 DEF Carried
    <3> QED
      BY <1>6, <2>2, <3>2, <3>3 DEF Calm, CallsFit
  <2>4. CASE Goes(c, "lost")
    <3>1. \A d \in Calls : call'[d].stage = IF d = c THEN "lost" ELSE call[d].stage
      BY <1>3, <2>4, GoesFacts DEF Stages
    <3>2. "lost" \notin Pending
      BY DEF Pending, Executing, Accepting
    <3> QED
      BY <1>6, <2>2, <3>1, <3>2, CalmFits DEF Calm
  <2> QED
    BY <1>1, <1>9, <2>3, <2>4
<1> QED
  BY <1>5, <1>8, <1>9

LEMMA CallsAnswered ==
    ASSUME SidecarFits, HostFits, CallsFit, AttemptAnswered
    PROVE  CallsFit'
<1> USE DEF watchVars, commandVars
<1> SUFFICES ASSUME Undisturbed' PROVE CallsFit'
  BY DEF CallsFit
<1> DEFINE g == attempt.generation
           c == attempt.call
<1>1. /\ attempt.stage = "asking"
      /\ UNCHANGED <<alive, prepared, serverExit, runtime, generation, appExited>>
  BY DEF AttemptAnswered, SendCommit, sidecarVars, flags
<1>2. exit.state = "checking" /\ exit.generation = g /\ c \in Calls
  BY <1>1 DEF HostFits, ThreadsFit
<1>3. Sound(exit) /\ exit \in Machines /\ ~exit.commitAccepted /\ TypeOK
  BY <1>2 DEF HostFits, MachineFits, Sound, SidecarFits
<1>4. PICK m \in Machines : m = exit
  BY <1>3
<1>5. \/ \E reply \in Replies : \E step :
            /\ step = shutdown_reply(exit, g, reply) /\ Apply(step, g) /\ g = generation
            /\ At(c, reply)
            /\ IF reply = "accepted"
               THEN attempt' = [attempt EXCEPT !.stage = "committing"] /\ SendCommit(c)
               ELSE UNCHANGED sidecarVars
      \/ \E step : step = shutdown_failed(exit, g) /\ Apply(step, g) /\ UNCHANGED sidecarVars
  BY DEF AttemptAnswered, ReplyOf, At
<1>6. effects \subseteq effects'
  BY <1>5 DEF Apply
<1>7. Undisturbed
  BY <1>1, <1>6 DEF Undisturbed
<1>8. ASSUME NEW step, step = shutdown_failed(exit, g), Apply(step, g), UNCHANGED sidecarVars
      PROVE  CallsFit'
  <2>1. GivesUp(step)
    BY <1>2, <1>4, <1>8, FailureFacts
  <2>2. g # generation
    BY <1>1, <1>8, <2>1, GivingUpDisturbs
  <2> QED
    BY <1>2, <1>7, <1>8, <2>2, CallsIdle DEF sidecarVars, flags
<1>9. ASSUME NEW reply \in Replies, At(c, reply), reply # "accepted", UNCHANGED sidecarVars
      PROVE  CallsFit'
  <2>1. call[c].stage \notin Pending
    BY <1>9 DEF At, Replies, Pending, Executing, Accepting
  <2>2. \A d \in Calls : Carried(d) => d = c
    BY <1>1, <1>3 DEF Carried
  <2>3. \A d \in Calls : call[d].stage \notin Pending
    BY <1>7, <2>1, <2>2 DEF CallsFit
  <2>4. ~prepared /\ ~serverExit
    BY <1>7, <2>3, HoldingIsPending DEF CallsFit, At
  <2> QED
    BY <1>9, <2>3, <2>4, CalmFits DEF Calm, sidecarVars, flags
<1>10. ASSUME NEW step, step = shutdown_reply(exit, g, "accepted"), Apply(step, g), g = generation,
              At(c, "accepted"), SendCommit(c), attempt' = [attempt EXCEPT !.stage = "committing"]
       PROVE  CallsFit'
  <2>0. PICK k \in Calls : k = c
    BY <1>2
  <2>1. exit'.generation = generation'
    BY <1>1, <1>2, <1>3, <1>4, <1>10, ReplyFacts DEF Replies, Apply
  <2>2. \A d \in Calls : Carried(d) => d = c
    BY <1>1, <1>3 DEF Carried
  <2>3. \A d \in Calls \ {c} : call[d].stage \notin Pending
    BY <1>7, <2>2 DEF CallsFit
  <2>4. ~serverExit
    BY <1>7, <1>10, <2>3, HoldingIsPending DEF CallsFit, At
  <2>5. alive
    BY <1>7 DEF Undisturbed
  <2>6. \A d \in Calls : call'[d].stage = IF d = c THEN "commitSent" ELSE call[d].stage
    BY <1>2, <1>3, <1>10, <2>5, GoesFacts DEF SendCommit, Stages
  <2>7. attempt'.stage = "committing" /\ attempt'.generation = generation' /\ attempt'.call = c
    BY <1>1, <1>10 DEF HostFits, HostTypeOK
  <2>8. Carried(k)'
    BY <2>0, <2>1, <2>7 DEF Carried
  <2>9. "commitSent" \in Holding
    BY DEF Holding, Accepting
  <2>10. \A d \in Calls : /\ d # k => call'[d].stage \notin Pending
                         /\ call'[k].stage \in Holding
    BY <2>0, <2>3, <2>6, <2>9
  <2> QED
    BY <1>1, <2>0, <2>4, <2>8, <2>10 DEF CallsFit
<1> QED
  BY <1>5, <1>8, <1>9, <1>10

LEMMA CallsCommitted ==
    ASSUME SidecarFits, HostFits, CallsFit, CommitAnswered
    PROVE  CallsFit'
<1> USE DEF watchVars, commandVars
<1> SUFFICES ASSUME Undisturbed' PROVE CallsFit'
  BY DEF CallsFit
<1> DEFINE g == attempt.generation
<1>1. /\ attempt.stage = "committing" /\ attempt' = NoAttempt
      /\ UNCHANGED <<call, alive, prepared, serverExit, runtime, generation, appExited>>
  BY DEF CommitAnswered, sidecarVars, flags
<1>2. /\ g \in Nat \ {0}
      /\ \/ exit.generation = 0
         \/ exit.state = "shuttingDown" /\ exit.generation = g /\ ~exit.commitAccepted
  BY <1>1, HostTypes DEF HostFits, ThreadsFit
<1>3. Sound(exit) /\ exit \in Machines
  BY DEF HostFits, MachineFits, Sound
<1>4. PICK m \in Machines, n \in Nat : m = exit /\ n = g
  BY <1>2, <1>3
<1>5. \/ \E step : step = commit_succeeded(exit, g) /\ Apply(step, g) /\ At(attempt.call, "committed") /\ g = generation
      \/ \E step : step = commit_failed(exit, g) /\ Apply(step, g)
  BY DEF CommitAnswered
<1>6. Undisturbed
  <2>1. effects \subseteq effects'
    BY <1>5 DEF Apply
  <2> QED
    BY <1>1, <2>1 DEF Undisturbed
<1>7. CASE exit.generation # generation
  BY <1>1, <1>6, <1>7, CallsIdle
<1>8. CASE exit.generation = generation
  <2>1. exit.state = "shuttingDown" /\ exit.generation = g /\ ~exit.commitAccepted /\ g = generation
    BY <1>2, <1>8, HostTypes
  <2>2. ASSUME NEW step, GivesUp(step), Apply(step, g)
        PROVE  FALSE
    BY <1>1, <2>1, <2>2, GivingUpDisturbs
  <2>3. PICK step : step = commit_succeeded(exit, g) /\ Apply(step, g) /\ At(attempt.call, "committed")
    BY <1>4, <1>5, <2>1, <2>2, CommitFailureFacts
  <2>4. step.effect = "none" /\ step.machine = [exit EXCEPT !.commitAccepted = TRUE]
    BY <1>2, <1>3, <1>4, <2>1, <2>2, <2>3, CommitFacts
  <2>5. exit'.commitAccepted /\ exit'.generation = generation'
    BY <1>1, <1>3, <1>8, <2>3, <2>4 DEF Apply, Machines
  <2>6. \A d \in Calls : Carried(d) => Carried(d)'
    BY <1>1, <2>1, <2>3, <2>5 DEF Carried, At
  <2> QED
    BY <1>1, <1>6, <2>6 DEF CallsFit, At
<1> QED
  BY <1>7, <1>8

\* The machine moves for the window, for the watcher or for the installer only while it
\* does not wait for a living sidecar.
LEMMA CallsOfTheMachine ==
    ASSUME HostFits, CallsFit,
           \/ RequestExit \/ CancelExit \/ ConfirmWithoutSession \/ TerminationApplied
           \/ \E e \in effects : PerformInstall(e)
           \/ \E g \in timers : TimerFires(g)
    PROVE  CallsFit'
<1> USE DEF commandVars, watchVars
<1> SUFFICES ASSUME Undisturbed' PROVE CallsFit'
  BY DEF CallsFit
<1>1. UNCHANGED <<call, prepared, serverExit, attempt, generation, alive, runtime, appExited>>
  BY DEF RequestExit, CancelExit, ConfirmWithoutSession, TerminationApplied, PerformInstall, TimerFires,
         sidecarVars, flags
<1>2. Sound(exit) /\ exit \in Machines /\ generation \in Nat \ {0} /\ alive /\ runtime # "recovery" /\ ~appExited
  BY <1>1, HostTypes DEF HostFits, MachineFits, Sound, Undisturbed
<1>3. PICK m \in Machines : m = exit
  BY <1>2
<1>4. CASE RequestExit \/ CancelExit
  <2>1. PICK step : step \in {request(exit), cancel(exit)} /\ Apply(step, 0)
    BY <1>4 DEF RequestExit, CancelExit
  <2>2. effects' = effects /\ (exit' = exit \/ ~Busy(exit))
    BY <1>2, <1>3, <2>1, WindowFacts DEF Apply
  <2>3. Undisturbed
    BY <1>1, <1>2, <2>2 DEF Undisturbed
  <2>4. ~Busy(exit) => exit.generation # generation
    BY <1>2 DEF Sound, Busy
  <2> QED
    BY <1>1, <2>2, <2>3, <2>4, CallsIdle, CallsUntouched
<1>5. CASE ConfirmWithoutSession
  <2>1. PICK step : step = confirm_without_ready_session(exit) /\ exit' = step.machine
    BY <1>5 DEF ConfirmWithoutSession
  <2>2. effects' = effects /\ (exit' = exit \/ ~Busy(exit))
    BY <1>2, <1>3, <1>5, <2>1, NoSessionFacts DEF ConfirmWithoutSession
  <2>3. Undisturbed
    BY <1>1, <1>2, <2>2 DEF Undisturbed
  <2>4. ~Busy(exit) => exit.generation # generation
    BY <1>2 DEF Sound, Busy
  <2> QED
    BY <1>1, <2>2, <2>3, <2>4, CallsIdle, CallsUntouched
<1>6. CASE TerminationApplied
  <2>1. PICK step : step = terminated(exit, watcher) /\ Apply(step, watcher)
    BY <1>6 DEF TerminationApplied
  <2>2. watcher \in Nat \ {0} /\ watcher # generation
    BY <1>2, <1>6, HostTypes DEF TerminationApplied, HostFits, GenerationsFit
  <2>3. PICK n \in Nat \ {0} : n = watcher
    BY <2>2
  <2>4. step = Ignored(exit) \/ exit.generation # generation
    BY <1>2, <1>3, <2>1, <2>2, <2>3, TerminatedFacts
  <2>5. Undisturbed
    <3>1. effects \subseteq effects'
      BY <2>1 DEF Apply
    <3> QED
      BY <1>1, <1>2, <3>1 DEF Undisturbed
  <2>6. step = Ignored(exit) => exit' = exit
    BY <2>1 DEF Apply, Ignored, Done
  <2> QED
    BY <1>1, <2>4, <2>5, <2>6, CallsIdle, CallsUntouched
<1>7. ASSUME NEW e \in effects, PerformInstall(e)
      PROVE  CallsFit'
  <2>1. e.effect = "installUpdate" /\ effects \ {e} \subseteq effects'
    BY <1>7 DEF PerformInstall
  <2>2. exit.launching /\ e.generation = exit.generation
    BY <2>1 DEF HostFits, ThreadsFit
  <2>3. exit.generation # generation
    BY <1>2, <2>2 DEF HostFits, MachineFits
  <2>4. Undisturbed
    BY <1>1, <1>2, <2>1, <2>2, <2>3 DEF Undisturbed
  <2> QED
    BY <1>1, <2>3, <2>4, CallsIdle
<1>8. ASSUME NEW g \in timers, TimerFires(g)
      PROVE  CallsFit'
  <2>1. PICK step : step = shutdown_timed_out(exit, g) /\ Apply(step, g)
    BY <1>8 DEF TimerFires
  <2>2. g \in Nat
    BY DEF HostFits, HostTypeOK
  <2>3. \/ step = Ignored(exit)
        \/ exit.generation = g /\ GivesUp(step)
    BY <1>3, <2>1, <2>2, TimeoutFacts
  <2>4. Undisturbed
    <3>1. effects \subseteq effects'
      BY <2>1 DEF Apply
    <3> QED
      BY <1>1, <1>2, <3>1 DEF Undisturbed
  <2>5. CASE step = Ignored(exit)
    <3>1. exit' = exit
      BY <2>1, <2>5 DEF Apply, Ignored, Done
    <3> QED
      BY <1>1, <2>4, <3>1, CallsUntouched
  <2>6. CASE exit.generation = g /\ GivesUp(step)
    <3>1. g # generation
      BY <1>1, <2>1, <2>6, GivingUpDisturbs
    <3> QED
      BY <1>1, <2>4, <2>6, <3>1, CallsIdle
  <2> QED
    BY <2>3, <2>5, <2>6
<1> QED
  BY <1>4, <1>5, <1>6, <1>7, <1>8

\* The other threads of the host leave the machine alone.
LEMMA CallsOfTheHost ==
    ASSUME HostFits, CallsFit,
           \/ \E intent \in {"quit", "install"} : BeginCommand(intent)
           \/ TerminateNonReady \/ ExitNonReady
           \/ \E e \in effects : PerformRecover(e) \/ PerformExit(e)
           \/ \E g \in ended : TerminationSeen(g)
           \/ Handshake \/ HealthLost \/ RestartAsk
           \/ SidecarDies \/ UNCHANGED allVars
    PROVE  CallsFit'
<1> USE DEF commandVars, watchVars, sidecarVars, flags, allVars, hostVars
<1> SUFFICES ASSUME Undisturbed' PROVE CallsFit'
  BY DEF CallsFit
<1>1. CASE \/ \E intent \in {"quit", "install"} : BeginCommand(intent)
           \/ \E g \in ended : TerminationSeen(g)
           \/ Handshake \/ HealthLost \/ RestartAsk \/ UNCHANGED allVars
  <2>1. /\ UNCHANGED <<call, prepared, serverExit, exit, attempt, generation, effects, alive, appExited>>
        /\ runtime = "recovery" => runtime' = "recovery"
    BY <1>1 DEF BeginCommand, TerminationSeen, ToRecovery, Handshake, HealthLost, RestartAsk
  <2>2. Undisturbed
    BY <2>1 DEF Undisturbed
  <2> QED
    BY <2>1, <2>2, CallsUntouched
<1>2. CASE TerminateNonReady
  <2>1. /\ UNCHANGED <<call, prepared, serverExit, exit, attempt, generation, effects, alive, appExited>>
        /\ runtime = "ready" /\ UNCHANGED runtime
    BY <1>2 DEF TerminateNonReady, Undisturbed
  <2>2. Undisturbed
    BY <2>1 DEF Undisturbed
  <2> QED
    BY <2>1, <2>2, CallsUntouched
<1>3. CASE ExitNonReady \/ SidecarDies \/ \E e \in effects : PerformExit(e)
  BY <1>3 DEF ExitNonReady, PerformExit, CloseApp, SidecarDies, Exit, Crash, ProcessEnds, Undisturbed
<1>4. ASSUME NEW e \in effects, PerformRecover(e)
      PROVE  CallsFit'
  <2>1. /\ UNCHANGED <<call, prepared, serverExit, exit, attempt, generation, alive, appExited>>
        /\ effects' = effects \ {e}
        /\ e.generation # generation /\ UNCHANGED runtime
    BY <1>4 DEF PerformRecover, ToRecovery, Undisturbed
  <2>2. Undisturbed
    BY <2>1 DEF Undisturbed
  <2> QED
    BY <2>1, <2>2, CallsUntouched
<1> QED
  BY <1>1, <1>2, <1>3, <1>4

LEMMA CallsOfANewProcess ==
    ASSUME SidecarFits, CallsFit, RestartBegin \/ RestartSpawn
    PROVE  CallsFit'
<1> USE DEF commandVars, watchVars, sidecarVars, flags
<1> SUFFICES ASSUME Undisturbed' PROVE CallsFit'
  BY DEF CallsFit
<1>1. CASE RestartBegin
  <2>1. UNCHANGED <<call, prepared, serverExit, exit, attempt, generation, effects, alive, appExited, runtime>>
    BY <1>1 DEF RestartBegin, ProcessEnds, Undisturbed
  <2>2. Undisturbed
    BY <2>1 DEF Undisturbed
  <2> QED
    BY <2>1, <2>2, CallsUntouched
<1>2. CASE RestartSpawn
  <2>1. Start
    BY <1>2 DEF RestartSpawn, Undisturbed
  <2>2. TypeOK /\ ~prepared' /\ ~serverExit'
    BY <2>1 DEF SidecarFits, Start
  <2>3. \A c \in Calls : call'[c].stage \in {"unused", "lost"}
    BY <2>1, <2>2, StartFacts
  <2>4. Calm'
    BY <2>2, <2>3 DEF Calm, Pending, Executing, Accepting
  <2> QED
    BY <2>4, CalmFits
<1> QED
  BY <1>1, <1>2

LEMMA CallsOfTheSidecar ==
    ASSUME SidecarFits, HostFits, CallsFit, SidecarMoves
    PROVE  CallsFit'
<1>1. CASE TaskStep
  <2>1. UNCHANGED <<call, alive, prepared, serverExit>>
    BY <1>1 DEF TaskStep, Enqueue, CancelQueued, Claim, HandlerEnds, HandlerPauses,
                RecoveryResume, RecoveryCancel, flags, checkpoint
  <2>2. UNCHANGED hostVars
    BY DEF SidecarMoves
  <2>3. Undisturbed' => Undisturbed
    BY <2>1, <2>2 DEF Undisturbed, hostVars
  <2> QED
    BY <2>1, <2>2, <2>3, CallsUntouched DEF hostVars
<1> QED
  BY <1>1, CallsMove DEF SidecarMoves

(***************************************************************************)
(* The theorems.                                                           *)
(***************************************************************************)
LEMMA DesktopInitFits == Init => DesktopInv
<1> SUFFICES ASSUME Init PROVE DesktopInv
  OBVIOUS
<1> USE DEF Init
<1>1. TypeOK
  BY InitHolds DEF StopInv
<1>2. \A c \in Calls : call[c].stage = "unused"
  BY DEF SidecarInit, NewCall
<1>3. Active(status) \in BOOLEAN
  BY DEF Active
<1>4. SidecarFits
  BY <1>1, <1>2, <1>3, NamesAreDistinct DEF SidecarInit, SidecarFits, Gone, GateHolder, At
<1>5. Sound(exit) /\ exit.generation = 0 /\ exit.state = "idle" /\ ~exit.launching /\ ~exit.committed
  BY FreshIsSound DEF Fresh
<1>6. HostTypeOK
  <2>1. 0 \in 0..MaxGenerations /\ 1 \in 1..MaxGenerations
    BY AGenerationExists
  <2>2. command \in [stage : {"none", "session", "noSession", "terminating", "exiting"},
                     intent : {"quit", "install"}, generation : 0..MaxGenerations]
    BY <2>1 DEF NoCommand
  <2>3. attempt \in [stage : {"none", "asking", "committing"}, generation : 0..MaxGenerations,
                     call : Calls \cup {NoCall}]
    BY <2>1 DEF NoAttempt
  <2> QED
    BY <2>1, <2>2, <2>3 DEF HostTypeOK
<1>7. MachineFits /\ ThreadsFit /\ GenerationsFit
  BY <1>5 DEF MachineFits, ThreadsFit, GenerationsFit, UpTo, NoCommand, NoAttempt
<1>8. CallsFit
  BY <1>2 DEF SidecarInit, CallsFit, Pending, Executing, Accepting
<1> QED
  BY <1>4, <1>6, <1>7, <1>8 DEF DesktopInv, HostFits

LEMMA SidecarStepFits ==
    ASSUME DesktopInv, DesktopNext
    PROVE  SidecarFits'
<1> USE DEF commandVars, watchVars
<1>1. SidecarFits /\ HostFits /\ faults \in Nat
  BY DEF DesktopInv, SidecarFits, TypeOK
<1>2. CASE UNCHANGED sidecarVars
  BY <1>1, <1>2, SidecarRests DEF sidecarVars
<1>3. CASE ProcessEnds /\ faults' \in Nat
  BY <1>1, <1>3, SidecarEnds
<1>4. CASE SidecarMoves
  BY <1>1, <1>4, SidecarTask, SidecarCall DEF SidecarMoves
<1>5. CASE SidecarDies
  BY <1>1, <1>3, <1>5 DEF SidecarDies, Exit, Crash
<1>6. CASE TerminateNonReady \/ ExitNonReady \/ RestartBegin \/ \E e \in effects : PerformExit(e)
  <2>1. UNCHANGED sidecarVars \/ (ProcessEnds /\ UNCHANGED faults)
    BY <1>6 DEF TerminateNonReady, ExitNonReady, RestartBegin, PerformExit, CloseApp
  <2> QED
    BY <1>1, <1>2, <1>3, <2>1
<1>7. ASSUME NEW c \in Calls, StartAttempt(c)
      PROVE  SidecarFits'
  <2>1. \/ UNCHANGED sidecarVars
        \/ /\ At(c, "unused")
           /\ \/ Send(c, exit.state \in {"blocked", "checkpointTimedOut"})
              \/ /\ Goes(c, "lost")
                 /\ UNCHANGED <<alive, status, handler, flags, checkpoint, gate, faults>>
    BY <1>7 DEF StartAttempt
  <2> QED
    BY <1>1, <1>2, <2>1, SidecarAsked
<1>8. CASE AttemptAnswered
  <2>1. UNCHANGED sidecarVars \/ SendCommit(attempt.call)
    BY <1>8 DEF AttemptAnswered
  <2>2. attempt.call \in Calls
    BY <1>1, <1>8 DEF AttemptAnswered, HostFits, ThreadsFit
  <2> QED
    BY <1>1, <1>2, <2>1, <2>2, SidecarCommits
<1>9. CASE HealthLost
  <2>1. faults' \in Nat /\ UNCHANGED <<alive, status, handler, flags, checkpoint, gate, call>>
    BY <1>1, <1>9 DEF HealthLost
  <2> QED
    BY <1>1, <2>1, SidecarRests
<1>10. CASE RestartSpawn
  BY <1>1, <1>2, <1>10, SidecarStarts DEF RestartSpawn
<1>11. CASE \/ RequestExit \/ CancelExit \/ ConfirmWithoutSession \/ CommitAnswered
            \/ (\E intent \in {"quit", "install"} : BeginCommand(intent))
            \/ (\E e \in effects : PerformRecover(e) \/ PerformInstall(e))
            \/ WatchStep \/ (\E g \in timers : TimerFires(g)) \/ Handshake \/ RestartAsk
  BY <1>2, <1>11 DEF RequestExit, CancelExit, ConfirmWithoutSession, CommitAnswered, BeginCommand,
         PerformRecover, PerformInstall, WatchStep, TerminationSeen, TerminationApplied, TimerFires,
         Handshake, RestartAsk
<1> QED
  BY <1>4, <1>5, <1>6, <1>7, <1>8, <1>9, <1>10, <1>11
     DEF DesktopNext, HostStep, AttemptStep, EffectStep, WatchStep

LEMMA HostStepFits ==
    ASSUME DesktopInv, DesktopNext
    PROVE  HostFits'
<1>1. HostFits
  BY DEF DesktopInv
<1>2. CASE SidecarMoves \/ SidecarDies
  BY <1>1, <1>2, HostWatches
<1>3. CASE RequestExit \/ CancelExit
  BY <1>1, <1>3, HostWindow
<1>4. CASE \E intent \in {"quit", "install"} : BeginCommand(intent)
  BY <1>1, <1>4, HostBegins
<1>5. CASE \E c \in Calls : StartAttempt(c)
  BY <1>1, <1>5, HostAsks
<1>6. CASE ConfirmWithoutSession \/ TerminateNonReady
  BY <1>1, <1>6, HostNoSession, HostTerminates
<1>7. CASE AttemptStep
  BY <1>1, <1>7, HostAnswered, HostCommitted DEF AttemptStep
<1>8. CASE ExitNonReady \/ EffectStep
  BY <1>1, <1>8, HostCloses, HostRecovers, HostInstalls DEF EffectStep
<1>9. CASE WatchStep
  BY <1>1, <1>9, HostSeesTheEnd, HostHandlesTheEnd DEF WatchStep
<1>10. CASE \E g \in timers : TimerFires(g)
  BY <1>1, <1>10, HostTimesOut
<1>11. CASE Handshake \/ HealthLost \/ RestartAsk \/ RestartBegin \/ RestartSpawn
  BY <1>1, <1>11, HostRuns, HostRestarts, HostSpawns
<1> QED
  BY <1>2, <1>3, <1>4, <1>5, <1>6, <1>7, <1>8, <1>9, <1>10, <1>11 DEF DesktopNext, HostStep

LEMMA CallsStepFits ==
    ASSUME DesktopInv, DesktopNext
    PROVE  CallsFit'
<1>1. SidecarFits /\ HostFits /\ CallsFit
  BY DEF DesktopInv
<1>2. CASE SidecarMoves
  BY <1>1, <1>2, CallsOfTheSidecar
<1>3. CASE \E c \in Calls : StartAttempt(c)
  BY <1>1, <1>3, CallsAsked
<1>4. CASE AttemptStep
  BY <1>1, <1>4, CallsAnswered, CallsCommitted DEF AttemptStep
<1>5. CASE RestartBegin \/ RestartSpawn
  BY <1>1, <1>5, CallsOfANewProcess
<1>6. CASE \/ RequestExit \/ CancelExit \/ ConfirmWithoutSession \/ TerminationApplied
           \/ \E e \in effects : PerformInstall(e)
           \/ \E g \in timers : TimerFires(g)
  BY <1>1, <1>6, CallsOfTheMachine
<1>7. CASE \/ \E intent \in {"quit", "install"} : BeginCommand(intent)
           \/ TerminateNonReady \/ ExitNonReady
           \/ \E e \in effects : PerformRecover(e) \/ PerformExit(e)
           \/ \E g \in ended : TerminationSeen(g)
           \/ Handshake \/ HealthLost \/ RestartAsk
           \/ SidecarDies
  BY <1>1, <1>7, CallsOfTheHost
<1> QED
  BY <1>2, <1>3, <1>4, <1>5, <1>6, <1>7 DEF DesktopNext, HostStep, EffectStep, WatchStep

LEMMA DesktopStutters ==
    ASSUME DesktopInv, UNCHANGED allVars
    PROVE  DesktopInv'
<1>1. SidecarFits'
  BY SidecarRests DEF DesktopInv, SidecarFits, TypeOK, allVars, sidecarVars
<1>2. HostFits' /\ CallsFit'
  BY HostWatches, CallsOfTheHost DEF DesktopInv
<1> QED
  BY <1>1, <1>2 DEF DesktopInv

\* The sidecar, the host and the calls between them always fit together.
THEOREM HostAndSidecarAgree == DesktopSpec => []DesktopInv
<1>1. DesktopInv /\ [DesktopNext]_allVars => DesktopInv'
  BY SidecarStepFits, HostStepFits, CallsStepFits, DesktopStutters DEF DesktopInv
<1> QED
  BY <1>1, DesktopInitFits, PTL DEF DesktopSpec

\* Every reachable state of the application is well typed, and the worker thread runs a
\* durably running row only, whatever the host does to the sidecar (exit.rs, app.rs).
THEOREM DesktopTypeCorrect == DesktopSpec => []DesktopTypeOK
<1>1. DesktopInv => DesktopTypeOK
  BY DEF DesktopInv, SidecarFits, HostFits, HostTypeOK, MachineFits, Sound, DesktopTypeOK
<1> QED
  BY <1>1, HostAndSidecarAgree, PTL

\* A sidecar that has begun to stop claims nothing, and still runs at most a handler that
\* was asked to pause, with any number of requests that the host gave up and the sidecar
\* still serves (desktop_shutdown, desktop_shutdown_commit, complete_shutdown).
THEOREM BegunStopIsQuiet == DesktopSpec => []StopQuiesces
<1>1. DesktopInv => StopQuiesces
  BY DEF DesktopInv, SidecarFits, StopQuiesces, MayClaim
<1> QED
  BY <1>1, HostAndSidecarAgree, PTL

\* An open window on a ready sidecar works: nothing is left prepared and claims are
\* stopped for an undecided recovery only (cancel_prepared_shutdown, finish_effect).
THEOREM OpenWindowWorks == DesktopSpec => []OpenAppWorks
<1>1. ASSUME DesktopInv, runtime = "ready", alive, ~appExited,
             exit.state \notin {"checking", "shuttingDown"},
             \A e \in effects : e.generation # generation
      PROVE  ~prepared /\ (claimStop => recovery)
  <2>1. Undisturbed /\ exit.generation # generation
    BY <1>1, HostTypes DEF DesktopInv, Undisturbed, HostFits, MachineFits, Sound
  <2>2. Calm
    BY <1>1, <2>1, NothingCarried DEF DesktopInv
  <2> QED
    BY <1>1, <2>2 DEF DesktopInv, SidecarFits, Calm
<1>2. DesktopInv => OpenAppWorks
  BY <1>1 DEF OpenAppWorks
<1> QED
  BY <1>2, HostAndSidecarAgree, PTL

\* The steps of the machine never take a commitment back.
LEMMA CommitmentStays ==
    ASSUME HostFits, DesktopNext, exit.committed
    PROVE  exit'.committed
<1> USE DEF watchVars, commandVars, hostVars
<1>1. /\ Sound(exit) /\ exit \in Machines /\ exit.state = "shuttingDown" /\ Busy(exit)
      /\ exit.commitAccepted
  BY DEF HostFits, MachineFits, Sound, Busy
<1>2. PICK m \in Machines : m = exit
  BY <1>1
<1>3. CASE RequestExit \/ CancelExit
  <2>1. PICK step : step \in {request(exit), cancel(exit)} /\ Apply(step, 0)
    BY <1>3 DEF RequestExit, CancelExit
  <2>2. step.machine = exit
    BY <1>1, <1>2, <2>1, WindowFacts
  <2> QED
    BY <2>1, <2>2 DEF Apply
<1>4. ASSUME NEW c \in Calls, StartAttempt(c)
      PROVE  exit'.committed
  <2>1. PICK step : /\ step \in {confirm(exit, command.generation),
                                 begin_update_install(exit, command.generation)}
                    /\ exit' = step.machine
    BY <1>4 DEF StartAttempt, Apply
  <2>2. command.generation \in Nat \ {0}
    BY <1>4, HostTypes DEF StartAttempt, HostFits, ThreadsFit
  <2>3. PICK n \in Nat \ {0} : n = command.generation
    BY <2>2
  <2> QED
    BY <1>1, <1>2, <2>1, <2>3, BeginFacts
<1>5. CASE ConfirmWithoutSession
  BY <1>1, <1>2, <1>5, NoSessionFacts DEF ConfirmWithoutSession
<1>6. CASE AttemptAnswered
  BY <1>1, <1>6 DEF AttemptAnswered, HostFits, ThreadsFit
<1>7. CASE CommitAnswered
  <2>1. attempt.generation \in Nat /\ exit.generation # attempt.generation
    BY <1>1, <1>7, HostTypes DEF CommitAnswered, HostFits, ThreadsFit
  <2>2. PICK n \in Nat : n = attempt.generation
    BY <2>1
  <2>3. PICK step : /\ step \in {commit_succeeded(exit, n), commit_failed(exit, n)}
                    /\ exit' = step.machine
    BY <1>7, <2>2 DEF CommitAnswered, Apply
  <2>4. step = Ignored(exit)
    <3>1. exit.generation # n
      BY <2>1, <2>2
    <3>2. CASE step = commit_succeeded(exit, n)
      BY <1>1, <1>2, <3>1, <3>2, CommitFacts
    <3>3. CASE step = commit_failed(exit, n)
      BY <3>1, <3>3 DEF commit_failed
    <3> QED
      BY <2>3, <3>2, <3>3
  <2> QED
    BY <2>3, <2>4 DEF Ignored, Done
<1>8. ASSUME NEW g \in timers, TimerFires(g)
      PROVE  exit'.committed
  <2>1. g \in Nat
    BY DEF HostFits, HostTypeOK
  <2>2. shutdown_timed_out(exit, g) = Ignored(exit)
    BY <1>2, <2>1, TimeoutFacts
  <2> QED
    BY <1>8, <2>2 DEF TimerFires, Apply, Ignored, Done
<1>9. CASE TerminationApplied
  <2>1. watcher \in Nat \ {0}
    BY <1>9, HostTypes DEF TerminationApplied
  <2>2. PICK n \in Nat \ {0} : n = watcher
    BY <2>1
  <2>3. PICK step : step = terminated(exit, watcher) /\ exit' = step.machine
    BY <1>9 DEF TerminationApplied, Apply
  <2>4. \/ step = Ignored(exit)
        \/ step.machine = [exit EXCEPT !.terminated = TRUE]
        \/ step.machine = [exit EXCEPT !.committed = TRUE]
    BY <1>1, <1>2, <2>2, <2>3, TerminatedFacts
  <2> QED
    BY <1>1, <2>3, <2>4 DEF Ignored, Done, Machines
<1>10. ASSUME NEW e \in effects, PerformInstall(e)
       PROVE  exit'.committed
  BY <1>10 DEF PerformInstall, HostFits, ThreadsFit
<1>11. CASE UNCHANGED exit
  BY <1>11
<1>12. CASE \/ SidecarMoves \/ SidecarDies \/ TerminateNonReady \/ ExitNonReady
            \/ (\E intent \in {"quit", "install"} : BeginCommand(intent))
            \/ (\E e \in effects : PerformRecover(e) \/ PerformExit(e))
            \/ (\E g \in ended : TerminationSeen(g))
            \/ Handshake \/ HealthLost \/ RestartAsk \/ RestartBegin \/ RestartSpawn
  BY <1>11, <1>12 DEF SidecarMoves, SidecarDies, TerminateNonReady, ExitNonReady, BeginCommand,
         PerformRecover, PerformExit, TerminationSeen, Handshake, HealthLost, RestartAsk,
         RestartBegin, RestartSpawn
<1> QED
  BY <1>3, <1>4, <1>5, <1>6, <1>7, <1>8, <1>9, <1>10, <1>12
     DEF DesktopNext, HostStep, AttemptStep, EffectStep, WatchStep

\* Only these steps end the application or create the installer.
LEMMA WaysToLeave ==
    ASSUME DesktopNext, Leaves \/ Installs
    PROVE  \/ ExitNonReady
           \/ \E e \in effects : PerformExit(e) \/ PerformInstall(e)
<1> USE DEF watchVars, commandVars, hostVars
<1>1. ASSUME UNCHANGED <<appExited, installed>>
      PROVE  FALSE
  BY <1>1 DEF Leaves, Installs
<1> QED
  BY <1>1 DEF DesktopNext, HostStep, AttemptStep, EffectStep, WatchStep,
         SidecarMoves, SidecarDies, TerminateNonReady, BeginCommand,
         PerformRecover, TerminationSeen, Handshake, HealthLost, RestartAsk,
         RestartBegin, RestartSpawn, RequestExit, CancelExit, StartAttempt,
         ConfirmWithoutSession, AttemptAnswered, CommitAnswered, TimerFires, TerminationApplied

\* The application ends, and the installer is created, only with the sidecar they wait
\* for gone and every acceptance given, and no late event takes a committed exit back
\* (exit.rs, ExitMachine).
THEOREM LeavesInOrder == DesktopSpec => LeavingIsOrderly
<1>1. ASSUME DesktopInv, DesktopNext
      PROVE  /\ exit.committed => exit'.committed
             /\ Installs => exit.shutdownAccepted /\ exit.commitAccepted
             /\ Leaves \/ Installs => (exit.generation = generation => ~alive)
  <2>1. HostFits
    BY <1>1 DEF DesktopInv
  <2>2. Leaves \/ Installs => \/ exit.committed
                              \/ exit.launching /\ exit.shutdownAccepted /\ exit.commitAccepted
    <3>1. CASE ExitNonReady
      BY <2>1, <3>1 DEF ExitNonReady, HostFits, ThreadsFit
    <3>2. ASSUME NEW e \in effects, PerformExit(e)
          PROVE  exit.committed
      BY <2>1, <3>2 DEF PerformExit, HostFits, ThreadsFit
    <3>3. ASSUME NEW e \in effects, PerformInstall(e)
          PROVE  exit.launching /\ exit.shutdownAccepted /\ exit.commitAccepted
      BY <2>1, <3>3 DEF PerformInstall, HostFits, ThreadsFit, MachineFits, Sound
    <3> QED
      BY <1>1, <3>1, <3>2, <3>3, WaysToLeave
  <2>3. exit.committed => exit.shutdownAccepted /\ exit.commitAccepted
    BY <2>1 DEF HostFits, MachineFits, Sound
  <2>4. exit.launching \/ exit.committed => (exit.generation = generation => ~alive)
    BY <2>1 DEF HostFits, MachineFits
  <2> QED
    BY <1>1, <2>1, <2>2, <2>3, <2>4, CommitmentStays
<1> QED
  BY <1>1, HostAndSidecarAgree, PTL DEF DesktopSpec, LeavingIsOrderly
================================================================================
