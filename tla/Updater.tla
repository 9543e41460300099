-------------------------------- MODULE Updater --------------------------------
(***************************************************************************)
(* The trusted updater of the desktop host, with its runtime enabled.      *)
(*                                                                         *)
(* A check finds a newer release; a confirmed update is downloaded,        *)
(* verified and staged, the application shuts down, and the staged         *)
(* installer takes over from the host that launched it.  Whether it        *)
(* succeeds only the next start can tell, from three records on disk: the  *)
(* pending hand-off, the last failed one, and the watermark of the newest  *)
(* release that is known to have been installed.                           *)
(*                                                                         *)
(* The host may end between any two steps.  The installer outlives it: it  *)
(* may finish after the old program was started again.  The user may also  *)
(* install a program by hand.                                              *)
(***************************************************************************)
EXTENDS Naturals, Sequences

CONSTANTS
    LastVersion,    \* versions are 1..LastVersion
    Calls           \* calls of desktop_confirm_update

ASSUME VersionsAssumption == LastVersion \in Nat \ {0}

VARIABLES
    binary,     \* the program installed
    pending,    \* pending-install.json; {} when there is none
    failed,     \* failed-install.json
    watermark,  \* installed-watermark.json
    host,       \* "off", "starting", "running"
    todo,       \* what a start has still to write, then the state it ends in
    state,      \* of TrustedUpdateMachine; a failure is "failed" when it may be
                \* retried, else "blocked", or "refused" when it is of the records
    candidate,  \* the release the machine is about; {} for none
    payload,    \* the staged installer that is held verified; {} for none
    fetching,   \* a check waits for the channel
    calls,      \* where each call of desktop_confirm_update is
    closing,    \* the exit machine is at an update exit
    handing,    \* the hand-off that exit has reached, and of what
    installer,  \* the installer that runs; {} for none
    awaited,    \* the release last handed over, until a program as new is there
                \* or the next hand-off is recorded
    surprised   \* a program was installed that the pending record does not await

disk    == <<pending, failed, watermark>>
machine == <<state, candidate, payload, fetching>>
exit    == <<closing, handing>>
outside == <<binary, installer, awaited, surprised>>
vars    == <<disk, host, todo, machine, calls, exit, outside>>

Versions == 1..LastVersion
Builds   == [version : Versions, source : {"release", "other"}]
Release(v) == [version |-> v, source |-> "release"]

Records == [from : Builds, to : Builds]
AtMostOne(S) == {{}} \cup {{x} : x \in S}

Newer(a, b) == a.version > b.version

CallSteps == {"idle", "consented", "download", "stage", "refresh", "reject", "exit"}
NoHandOff == [at |-> "none", of |-> {}]

Init ==
    /\ binary \in {b \in Builds : b.version = 1}
    /\ pending = {} /\ failed = {} /\ watermark = {}
    /\ host = "off" /\ todo = <<>>
    /\ state = "idle" /\ candidate = {} /\ payload = {} /\ fetching = FALSE
    /\ calls = [c \in Calls |-> "idle"]
    /\ closing = FALSE /\ handing = NoHandOff
    /\ installer = {} /\ awaited = {} /\ surprised = FALSE

--------------------------------------------------------------------------------
(* A start reads the records, decides, and writes what it has decided      *)
(* before it forgets the record that it was decided from.                  *)

Mismatch(p) ==
    \/ \E w \in watermark : Newer(w, p.to) \/ (w.version = p.to.version /\ w # p.to)
    \/ binary \notin {p.to, p.from}

(* A failed install is of no interest once a program as new was installed. *)
FailedMismatch(f) ==
    LET same(b) == b.version = f.to.version /\ b # f.to
    IN  \/ same(binary)
        \/ Newer(f.to, binary) /\ \E w \in watermark : same(w)

Unresolved(f) == \A b \in {binary} \cup watermark : Newer(f.to, b)

Usable(w) == IF \E b \in w : Newer(b, binary) THEN "refused" ELSE "idle"
UsableFailed(w) == IF Usable(w) = "idle" THEN "failed" ELSE "refused"

\* Fault: the pending record goes before what follows from it is kept.
DecisionForgettingFirst ==
    IF pending = {} THEN <<"idle">> ELSE <<"drop pending", "keep failed", "failed">>

Decision ==
    IF pending # {} THEN
        LET p == CHOOSE p \in pending : TRUE
        IN  IF Mismatch(p) THEN <<"refused">>
            ELSE IF binary = p.to THEN <<"keep watermark", "drop pending", "drop failed", "idle">>
            ELSE <<"keep failed", "drop pending", UsableFailed(watermark)>>
    ELSE IF \E f \in failed : FailedMismatch(f) THEN <<"refused">>
    ELSE IF \E f \in failed : Unresolved(f) THEN <<UsableFailed(watermark)>>
    ELSE IF failed # {} THEN <<"drop failed", Usable(watermark)>>
    ELSE <<Usable(watermark)>>

StartHost ==
    /\ host = "off"
    /\ host' = "starting" /\ todo' = Decision
    /\ UNCHANGED <<disk, machine, calls, exit, outside>>

Writing(step) == host = "starting" /\ Head(todo) = step
Written == todo' = Tail(todo) /\ UNCHANGED <<host, machine, calls, exit, outside>>

KeepWatermark ==
    /\ Writing("keep watermark") /\ Written
    /\ watermark' = {p.to : p \in pending}
    /\ UNCHANGED <<pending, failed>>

KeepFailed ==
    /\ Writing("keep failed") /\ Written
    /\ failed' = pending
    /\ UNCHANGED <<pending, watermark>>

DropPending ==
    /\ Writing("drop pending") /\ Written
    /\ pending' = {}
    /\ UNCHANGED <<failed, watermark>>

DropFailed ==
    /\ Writing("drop failed") /\ Written
    /\ failed' = {}
    /\ UNCHANGED <<pending, watermark>>

FinishStart ==
    /\ host = "starting" /\ Len(todo) = 1
    /\ host' = "running" /\ state' = Head(todo) /\ todo' = <<>>
    /\ UNCHANGED <<disk, candidate, payload, fetching, calls, exit, outside>>

(* A record that cannot be written or removed ends the start; the change   *)
(* may have been made all the same.                                        *)
StartFails ==
    /\ host = "starting" /\ Len(todo) > 1
    /\ \/ UNCHANGED disk
       \/ Writing("keep watermark") /\ watermark' = {p.to : p \in pending} /\ UNCHANGED <<pending, failed>>
       \/ Writing("keep failed") /\ failed' = pending /\ UNCHANGED <<pending, watermark>>
       \/ Writing("drop pending") /\ pending' = {} /\ UNCHANGED <<failed, watermark>>
       \/ Writing("drop failed") /\ failed' = {} /\ UNCHANGED <<pending, watermark>>
    /\ host' = "running" /\ state' = "blocked" /\ todo' = <<>>
    /\ UNCHANGED <<candidate, payload, fetching, calls, exit, outside>>

--------------------------------------------------------------------------------
(* Checking.  The machine is looked at before the channel is asked and     *)
(* changed when it has answered.                                           *)

Running == host = "running" /\ UNCHANGED <<host, todo, outside>>

BeginCheck ==
    /\ Running /\ state \in {"idle", "failed"}
    /\ state' = "checking" /\ fetching' = TRUE
    /\ candidate' = {}
    /\ UNCHANGED <<disk, payload, calls, exit>>

Answered == Running /\ fetching /\ fetching' = FALSE /\ UNCHANGED <<disk, calls, exit>>

\* Fault: the version that is installed is offered again.
FinishCheckSameVersion(v) ==
    /\ Answered
    /\ IF v < binary.version THEN state' = "idle" /\ candidate' = {}
       ELSE state' = "available" /\ candidate' = {Release(v)}
    /\ UNCHANGED payload

(* The channel may offer an older release than before. *)
FinishCheck(v) ==
    /\ Answered
    /\ IF v <= binary.version THEN state' = "idle" /\ candidate' = {}
       ELSE IF state # "checking" THEN UNCHANGED <<state, candidate>>
       ELSE IF \E w \in watermark : v <= w.version THEN state' = "failed" /\ candidate' = {}
       ELSE state' = "available" /\ candidate' = {Release(v)}
    /\ UNCHANGED payload

CheckFails ==
    /\ Answered
    /\ state' = "failed" /\ candidate' = {} /\ payload' = {}

DismissUpdate ==
    /\ Running /\ state = "available"
    /\ state' = "idle" /\ candidate' = {}
    /\ UNCHANGED <<disk, payload, fetching, calls, exit>>

--------------------------------------------------------------------------------
(* Confirming.  Several calls may be under way: each shows its prompt, and *)
(* what a call does is decided by the state it finds afterwards.           *)

Calling(c, from, to) ==
    /\ Running /\ calls[c] = from
    /\ calls' = [calls EXCEPT ![c] = to]
    /\ UNCHANGED <<disk, exit, fetching>>

\* Fault: the staged installer outlives the failure.
FailKeepingPayload(code) == state' = code /\ candidate' = {} /\ UNCHANGED payload

Fail(code) == state' = code /\ candidate' = {} /\ payload' = {}

Consent(c) == Calling(c, "idle", "consented") /\ UNCHANGED <<state, candidate, payload>>

ConfirmDownload(c) ==
    /\ Calling(c, "consented", "download") /\ state = "available"
    /\ state' = "downloading" /\ UNCHANGED <<candidate, payload>>

ConfirmInstall(c) ==
    /\ Calling(c, "consented", "refresh")
    /\ state = "ready" /\ payload = candidate /\ payload # {}
    /\ UNCHANGED <<state, candidate, payload>>

ConfirmRefused(c) ==
    /\ Calling(c, "consented", "idle") /\ state # "available"
    /\ IF state = "ready" /\ payload # {}
       THEN payload # candidate /\ state' = "blocked" /\ candidate' = {} /\ UNCHANGED payload
       ELSE UNCHANGED <<state, candidate, payload>>

(* A download that fails may be retried, one that does not verify may not. *)
DownloadFails(c) ==
    /\ Calling(c, "download", "idle")
    /\ Fail("failed") \/ Fail("blocked")

Downloaded(c) ==
    /\ Calling(c, "download", "stage") /\ state = "downloading"
    /\ state' = "verifying" /\ UNCHANGED <<candidate, payload>>

(* The staging task itself may be lost; then only the call ends, and the   *)
(* machine keeps verifying.                                                *)
StageFails(c) ==
    /\ Calling(c, "stage", "idle")
    /\ Fail("blocked") \/ UNCHANGED <<state, candidate, payload>>

AcceptVerified(c) ==
    /\ Calling(c, "stage", "exit") /\ state = "verifying"
    /\ state' = "ready" /\ payload' = candidate /\ UNCHANGED candidate

(* The certificates of an installer that was verified before are checked   *)
(* again; the call learns of a refusal before the machine does.            *)
Refreshed(c) ==
    /\ Calling(c, "refresh", "exit") /\ payload # {} /\ payload = candidate
    /\ UNCHANGED <<state, candidate, payload>>

RefreshFails(c) == Calling(c, "refresh", "reject") /\ UNCHANGED <<state, candidate, payload>>

\* Fault: a refused certificate may be retried at once.
RejectRetriably(c) == Calling(c, "reject", "idle") /\ Fail("failed")

Reject(c) == Calling(c, "reject", "idle") /\ Fail("blocked")

(* The exit machine takes one exit at a time, of a sidecar that is ready.  *)
BeginUpdateInstall(c) ==
    /\ Running /\ calls[c] = "exit"
    /\ calls' = [calls EXCEPT ![c] = "idle"]
    /\ closing' \in {closing, TRUE}
    /\ UNCHANGED <<disk, machine, handing>>

--------------------------------------------------------------------------------
(* Handing over, once the sidecar has shut down.                           *)

AtHandOff(from) ==
    /\ host = "running" /\ closing /\ handing.at = from
    /\ UNCHANGED <<host, todo, calls, fetching, binary, surprised>>
HandsOff(from) == AtHandOff(from) /\ UNCHANGED <<installer, awaited>>
GoOn(to) == handing' = [handing EXCEPT !.at = to] /\ UNCHANGED closing
EndExit == closing' = FALSE /\ handing' = NoHandOff

(* The shutdown is cancelled, refused or timed out. *)
ShutdownFails == HandsOff("none") /\ EndExit /\ UNCHANGED <<disk, state, candidate, payload>>

TakeVerified ==
    /\ HandsOff("none")
    /\ IF payload # {} /\ state = "ready"
       THEN /\ handing' = [at |-> "persist", of |-> payload] /\ UNCHANGED closing
            /\ state' = "installing" /\ payload' = {}
       ELSE EndExit /\ UNCHANGED <<state, payload>>
    /\ UNCHANGED <<disk, candidate>>

HandOff == {[from |-> binary, to |-> b] : b \in handing.of}

\* Fault: the old program advances the watermark when it hands over.
PersistPendingAndWatermark ==
    /\ AtHandOff("persist") /\ GoOn("launch")
    /\ pending' = HandOff /\ watermark' = handing.of /\ awaited' = {}
    /\ UNCHANGED <<failed, state, candidate, payload, installer>>

PersistPending ==
    /\ AtHandOff("persist") /\ GoOn("launch")
    /\ pending' = HandOff /\ awaited' = {}
    /\ UNCHANGED <<failed, watermark, state, candidate, payload, installer>>

(* The payload is given back unless the machine has failed meanwhile.      *)
GiveBack ==
    /\ IF state = "installing" THEN state' = "ready" /\ payload' = handing.of
                               ELSE UNCHANGED <<state, payload>>
    /\ UNCHANGED candidate
    /\ EndExit

PersistFails ==
    /\ AtHandOff("persist") /\ GiveBack
    /\ \/ UNCHANGED <<pending, awaited>>
       \/ pending' = HandOff /\ awaited' = {}
    /\ UNCHANGED <<failed, watermark, installer>>

(* CreateProcess; one installer runs at a time. *)
LaunchInstaller ==
    /\ AtHandOff("launch") /\ GoOn("launched")
    /\ installer = {} /\ installer' = handing.of /\ awaited' = handing.of
    /\ UNCHANGED <<disk, state, candidate, payload>>

LaunchFails == HandsOff("launch") /\ GoOn("retract") /\ UNCHANGED <<disk, state, candidate, payload>>

RetractPending ==
    /\ HandsOff("retract") /\ GiveBack
    /\ pending' = {}
    /\ UNCHANGED <<failed, watermark>>

RetractFails ==
    /\ HandsOff("retract") /\ EndExit
    /\ pending' \in {pending, {}}
    /\ state' = "blocked" /\ candidate' = {}
    /\ UNCHANGED <<failed, watermark, payload>>

--------------------------------------------------------------------------------
(* The world around the host.                                              *)

HostIsGone ==
    /\ host' = "off" /\ todo' = <<>>
    /\ state' = "idle" /\ candidate' = {} /\ payload' = {} /\ fetching' = FALSE
    /\ calls' = [c \in Calls |-> "idle"]
    /\ closing' = FALSE /\ handing' = NoHandOff

(* It exits after the hand-off or at the user's wish, or it crashes. *)
HostEnds == host # "off" /\ HostIsGone /\ UNCHANGED <<disk, outside>>

PutInPlace(b) ==
    /\ binary' = b
    /\ awaited' = {a \in awaited : Newer(a, b)}

(* An installer closes a program that runs, and never downgrades.  It may  *)
(* be one that a start has given up, with another update pending by now.   *)
InstallerSucceeds ==
    /\ \E b \in installer :
         /\ ~Newer(binary, b) /\ PutInPlace(b)
         /\ surprised' = (surprised \/ \E p \in pending : p.to # b)
    /\ installer' = {}
    /\ HostIsGone /\ UNCHANGED disk

InstallerFails ==
    /\ installer # {} /\ installer' = {}
    /\ UNCHANGED <<disk, host, todo, machine, calls, exit, binary, awaited, surprised>>

InstallByHand(b) ==
    /\ b # binary /\ PutInPlace(b) /\ surprised' = TRUE
    /\ HostIsGone /\ UNCHANGED <<disk, installer>>

--------------------------------------------------------------------------------
Start == StartHost \/ KeepWatermark \/ KeepFailed \/ DropPending \/ DropFailed
         \/ FinishStart \/ StartFails

Check == BeginCheck \/ CheckFails \/ DismissUpdate \/ \E v \in Versions : FinishCheck(v)

Confirm == \E c \in Calls :
    \/ Consent(c) \/ ConfirmDownload(c) \/ ConfirmInstall(c) \/ ConfirmRefused(c)
    \/ DownloadFails(c) \/ Downloaded(c) \/ StageFails(c) \/ AcceptVerified(c)
    \/ Refreshed(c) \/ RefreshFails(c) \/ Reject(c) \/ BeginUpdateInstall(c)

HandOver == ShutdownFails \/ TakeVerified \/ PersistPending \/ PersistFails
            \/ LaunchInstaller \/ LaunchFails \/ RetractPending \/ RetractFails

World == HostEnds \/ InstallerSucceeds \/ InstallerFails \/ \E b \in Builds : InstallByHand(b)

Next == Start \/ Check \/ Confirm \/ HandOver \/ World

Spec == Init /\ [][Next]_vars

--------------------------------------------------------------------------------
(* Properties *)

(* Every record is a hand-off to a newer release, the payload that is held *)
(* is the candidate, and the exit hands over only while it is under way.   *)
TypeOK ==
    /\ binary \in Builds
    /\ {pending, failed} \subseteq AtMostOne(Records)
    /\ \A r \in pending \cup failed : Newer(r.to, r.from) /\ r.to.source = "release"
    /\ {watermark, candidate, payload, installer, awaited} \subseteq AtMostOne(Builds)
    /\ host \in {"off", "starting", "running"}
    /\ host = "starting" <=> todo # <<>>
    /\ calls \in [Calls -> CallSteps]
    /\ payload # {} => payload = candidate
    /\ handing.at # "none" => closing

(* From the hand-over to an installer until a program as new is in place   *)
(* or the next hand-off is recorded, a record names the release: wherever  *)
(* the host ends, and whatever fails, the next start can tell that it is   *)
(* open or has failed (launch_verified_install_inner,                      *)
(* reconcile_persisted_state_for).                                         *)
EvidenceIsKept == \A b \in awaited : \E r \in pending \cup failed : r.to = b

(* A start refuses the records only when a program was installed that they *)
(* could not await: no order of crashes, failed writes and installers      *)
(* makes what the host has written contradict itself or the program        *)
(* (reconcile_startup, validate_watermark).                                *)
OnlySurprisesAreRefused == state = "refused" => surprised

(* The state of the machine tells what is the case, with any number of     *)
(* calls under way: it is checking while the channel is asked, when ready  *)
(* it holds the verified installer, and while it may check or download no  *)
(* hand-off is left to settle (desktop_check_for_updates,                  *)
(* cancel_verified_install, desktop_updater_pending_repair_required).      *)
StateTellsTheTruth ==
    /\ fetching <=> state = "checking"
    /\ state = "ready" => payload # {}
    /\ host = "running" /\ state \in {"idle", "failed", "checking", "available", "downloading"}
         => pending = {}

(* The watermark moves only to the program that runs, and never back.      *)
WatermarkFollowsProgram ==
    [][watermark' # watermark =>
        /\ watermark' = {binary}
        /\ \A old \in watermark, new \in watermark' : ~Newer(old, new)]_vars
================================================================================
