---------------------------- MODULE UpdaterProofs ----------------------------
(***************************************************************************)
(* Theorems of Updater, for any number of versions and any set of calls:   *)
(* a record names every hand-off that is open, only a program that the     *)
(* records could not await makes a start refuse them, the state of the     *)
(* machine is true, and the watermark follows the program.                 *)
(*                                                                         *)
(* What holds the proof together is the order of the versions: whatever    *)
(* the machine is about is newer than the program and than the watermark,  *)
(* so that the release a pending record names may become the watermark.    *)
(* A start is between two writes for as long as something is left to       *)
(* write, and what is left tells what has been written.                    *)
(***************************************************************************)
EXTENDS Updater, TLAPS

(* What a start that has taken a decision may still have to write.         *)
Succeeding     == <<"keep watermark", "drop pending", "drop failed", "idle">>
Forgetting     == <<"drop pending", "drop failed", "idle">>
Tidying(x)     == <<"drop failed", x>>
Failing(x)     == <<"keep failed", "drop pending", x>>
FailureKept(x) == <<"drop pending", x>>

StartIsSound ==
    \/ todo = <<>>
    \/ todo = Succeeding /\ pending # {} /\ \A p \in pending : p.to = binary
    \/ todo = Forgetting /\ awaited = {}
    \/ \E x \in {"failed", "refused"} :
          todo = Failing(x) /\ pending # {} /\ (x = "refused" => surprised)
    \/ \E x \in {"failed", "refused"} :
          todo = FailureKept(x) /\ failed = pending /\ (x = "refused" => surprised)
    \/ \E x \in {"idle", "refused"} :
          /\ todo = Tidying(x) /\ pending = {} /\ awaited = {}
          /\ x = "refused" => surprised
    \/ \E x \in {"idle", "failed", "refused"} :
          todo = <<x>> /\ (x = "refused" => surprised) /\ (x # "refused" => pending = {})

\* Whatever the machine is about is newer than the program and than the watermark.
Ordered ==
    /\ \A b \in candidate \cup handing.of :
         /\ Newer(b, binary) /\ b.source = "release"
         /\ \A w \in watermark : Newer(b, w)
    /\ \A b \in awaited : Newer(b, binary) /\ \A w \in watermark : Newer(b, w)
    /\ \A p \in pending, w \in watermark : Newer(p.to, w) \/ w = p.to
    /\ \A b \in watermark \cup installer : b.source = "release"

\* The pending record, when there is one, is the evidence.
Evidence ==
    /\ EvidenceIsKept
    /\ pending # {} => \A b \in awaited : \E p \in pending : p.to = b
    /\ handing.at = "launch" => \A b \in handing.of : \E p \in pending : p.to = b
    /\ handing.at \in {"launch", "retract"} => awaited = {}

\* What the records say of the program, unless it surprised them.
Unsurprised ==
    /\ surprised \in BOOLEAN
    /\ ~surprised =>
        /\ \A p \in pending : binary \in {p.from, p.to}
        /\ \A w \in watermark : ~Newer(w, binary)
        /\ binary.version = 1 \/ binary.source = "release"

States == {"idle", "checking", "available", "downloading", "verifying", "ready",
           "installing", "failed", "blocked", "refused"}
Places == {"none", "persist", "launch", "launched", "retract"}

\* The states in which the machine, the exit and the records fit one another.
MachineIsSound ==
    /\ state \in States
    /\ handing \in [at : Places, of : AtMostOne(Builds)]
    /\ fetching \in BOOLEAN /\ (fetching <=> state = "checking")
    /\ state \in {"available", "downloading", "verifying", "installing"} => candidate # {}
    /\ payload # {} <=> state = "ready"
    /\ handing.at # "none" => state \in {"installing", "blocked"}
    /\ state = "installing" => handing.at # "none" /\ handing.of = candidate
    /\ closing => state \in {"ready", "installing", "blocked"}
    /\ pending # {} /\ host = "running"
         => state \in {"ready", "installing", "blocked", "refused"}
    /\ state = "refused" => surprised
    /\ host # "running" => state = "idle" /\ candidate = {} /\ handing = NoHandOff

\* One call at a time downloads or stages; one that was asked to install finds the
\* installer ready, or what became of it.
CallsAreSound ==
    \A c \in Calls :
        /\ calls[c] = "download" => state = "downloading"
        /\ calls[c] = "stage" => state = "verifying"
        /\ calls[c] \in {"refresh", "reject", "exit"}
             => state \in {"ready", "installing", "blocked"}
        /\ \A d \in Calls : calls[c] \in {"download", "stage"}
                            /\ calls[d] \in {"download", "stage"} => c = d

UpdaterInv ==
    /\ TypeOK /\ StartIsSound /\ Ordered /\ Evidence
    /\ Unsurprised /\ MachineIsSound /\ CallsAreSound

USE VersionsAssumption
    DEF AtMostOne, Builds, Records, Versions, Newer, Release, disk, machine, exit, outside

--------------------------------------------------------------------------------
(* Initial states, and what groups of steps have in common.                *)

LEMMA Initially == Init => UpdaterInv
<1> SUFFICES ASSUME Init PROVE UpdaterInv
  OBVIOUS
<1>1. TypeOK
  BY DEF Init, TypeOK, NoHandOff, CallSteps
<1>2. StartIsSound /\ Unsurprised
  BY DEF Init, StartIsSound, Unsurprised
<1>3. Ordered /\ Evidence
  BY DEF Init, Ordered, Evidence, EvidenceIsKept, NoHandOff
<1>4. MachineIsSound /\ CallsAreSound
  BY DEF Init, MachineIsSound, CallsAreSound, NoHandOff, States, Places
<1> QED
  BY <1>1, <1>2, <1>3, <1>4 DEF UpdaterInv

(* While the host runs nothing is left to write.                           *)
LEMMA RunningWritesNothing ==
    ASSUME TypeOK, host = "running"
    PROVE  todo = <<>>
BY DEF TypeOK

(* Steps of the machine leave the records and the world alone.             *)
LEMMA RecordsUntouched ==
    ASSUME UpdaterInv, UNCHANGED <<disk, todo, handing, binary, awaited, surprised>>
    PROVE  StartIsSound' /\ Unsurprised' /\ Evidence'
BY DEF UpdaterInv, StartIsSound, Unsurprised, Evidence, EvidenceIsKept

--------------------------------------------------------------------------------
(* Checking and confirming.                                                *)

LEMMA CheckKeeps ==
    ASSUME UpdaterInv, Check
    PROVE  UpdaterInv'
<1> USE DEF Running, Answered, Fail
<1>0. TypeOK /\ Ordered /\ MachineIsSound /\ CallsAreSound
  BY DEF UpdaterInv
<1>1. StartIsSound' /\ Unsurprised' /\ Evidence'
  BY RecordsUntouched DEF Check, BeginCheck, CheckFails, DismissUpdate, FinishCheck
<1>2. TypeOK' /\ Ordered' /\ MachineIsSound' /\ CallsAreSound'
  <2>1. CASE BeginCheck
    <3>1. TypeOK' /\ Ordered'
      BY <1>0, <2>1 DEF BeginCheck, TypeOK, Ordered, MachineIsSound, CallSteps
    <3>2. MachineIsSound' /\ CallsAreSound'
      BY <1>0, <2>1 DEF BeginCheck, TypeOK, MachineIsSound, CallsAreSound, States, NoHandOff
    <3> QED
      BY <3>1, <3>2
  <2>2. CASE CheckFails
    <3>1. TypeOK' /\ Ordered'
      BY <1>0, <2>2 DEF CheckFails, TypeOK, Ordered, MachineIsSound, CallSteps
    <3>2. MachineIsSound' /\ CallsAreSound'
      BY <1>0, <2>2 DEF CheckFails, TypeOK, MachineIsSound, CallsAreSound, States, NoHandOff
    <3> QED
      BY <3>1, <3>2
  <2>3. CASE DismissUpdate
    <3>1. TypeOK' /\ Ordered'
      BY <1>0, <2>3 DEF DismissUpdate, TypeOK, Ordered, MachineIsSound, CallSteps
    <3>2. MachineIsSound' /\ CallsAreSound'
      BY <1>0, <2>3 DEF DismissUpdate, TypeOK, MachineIsSound, CallsAreSound, States, NoHandOff
    <3> QED
      BY <3>1, <3>2
  <2>4. ASSUME NEW v \in Versions, FinishCheck(v)
        PROVE  TypeOK' /\ Ordered' /\ MachineIsSound' /\ CallsAreSound'
    <3>1. TypeOK' /\ Ordered'
      BY <1>0, <2>4 DEF FinishCheck, TypeOK, Ordered, MachineIsSound, CallSteps
    <3>2. MachineIsSound' /\ CallsAreSound'
      BY <1>0, <2>4 DEF FinishCheck, TypeOK, MachineIsSound, CallsAreSound, States, NoHandOff
    <3> QED
      BY <3>1, <3>2
  <2> QED
    BY <2>1, <2>2, <2>3, <2>4 DEF Check
<1> QED
  BY <1>1, <1>2 DEF UpdaterInv

\* What one call may do (the body of Confirm).
ConfirmStep(c) ==
    \/ Consent(c) \/ ConfirmDownload(c) \/ ConfirmInstall(c) \/ ConfirmRefused(c)
    \/ DownloadFails(c) \/ Downloaded(c) \/ StageFails(c) \/ AcceptVerified(c)
    \/ Refreshed(c) \/ RefreshFails(c) \/ Reject(c) \/ BeginUpdateInstall(c)

LEMMA ConfirmKeeps ==
    ASSUME UpdaterInv, NEW c \in Calls, ConfirmStep(c)
    PROVE  UpdaterInv'
<1> USE DEF Running, Calling, Fail
<1>0. TypeOK /\ Ordered /\ MachineIsSound /\ CallsAreSound
  BY DEF UpdaterInv
<1>1. StartIsSound' /\ Unsurprised' /\ Evidence'
  BY RecordsUntouched
     DEF ConfirmStep, Consent, ConfirmDownload, ConfirmInstall, ConfirmRefused, DownloadFails,
         Downloaded, StageFails, AcceptVerified, Refreshed, RefreshFails, Reject,
         BeginUpdateInstall
<1>2. TypeOK' /\ Ordered' /\ MachineIsSound' /\ CallsAreSound'
  <2>1. CASE Consent(c)
    <3>1. TypeOK' /\ Ordered'
      BY <1>0, <2>1 DEF Consent, TypeOK, Ordered, MachineIsSound, CallSteps
    <3>2. MachineIsSound' /\ CallsAreSound'
      BY <1>0, <2>1 DEF Consent, TypeOK, MachineIsSound, CallsAreSound, States, NoHandOff
    <3> QED
      BY <3>1, <3>2
  <2>2. CASE ConfirmDownload(c)
    <3>1. TypeOK' /\ Ordered'
      BY <1>0, <2>2 DEF ConfirmDownload, TypeOK, Ordered, MachineIsSound, CallSteps
    <3>2. MachineIsSound' /\ CallsAreSound'
      BY <1>0, <2>2 DEF ConfirmDownload, TypeOK, MachineIsSound, CallsAreSound, States, NoHandOff
    <3> QED
      BY <3>1, <3>2
  <2>3. CASE ConfirmInstall(c)
    <3>1. TypeOK' /\ Ordered'
      BY <1>0, <2>3 DEF ConfirmInstall, TypeOK, Ordered, MachineIsSound, CallSteps
    <3>2. MachineIsSound' /\ CallsAreSound'
      BY <1>0, <2>3 DEF ConfirmInstall, TypeOK, MachineIsSound, CallsAreSound, States, NoHandOff
    <3> QED
      BY <3>1, <3>2
  <2>4. CASE ConfirmRefused(c)
    <3>1. TypeOK' /\ Ordered'
      BY <1>0, <2>4 DEF ConfirmRefused, TypeOK, Ordered, MachineIsSound, CallSteps
    <3>2. MachineIsSound' /\ CallsAreSound'
      BY <1>0, <2>4 DEF ConfirmRefused, TypeOK, MachineIsSound, CallsAreSound, States, NoHandOff
    <3> QED
      BY <3>1, <3>2
  <2>5. CASE DownloadFails(c)
    <3>1. TypeOK' /\ Ordered'
      BY <1>0, <2>5 DEF DownloadFails, TypeOK, Ordered, MachineIsSound, CallSteps
    <3>2. MachineIsSound' /\ CallsAreSound'
      BY <1>0, <2>5 DEF DownloadFails, TypeOK, MachineIsSound, CallsAreSound, States, NoHandOff
    <3> QED
      BY <3>1, <3>2
  <2>6. CASE Downloaded(c)
    <3>1. TypeOK' /\ Ordered'
      BY <1>0, <2>6 DEF Downloaded, TypeOK, Ordered, MachineIsSound, CallSteps
    <3>2. MachineIsSound' /\ CallsAreSound'
      BY <1>0, <2>6 DEF Downloaded, TypeOK, MachineIsSound, CallsAreSound, States, NoHandOff
    <3> QED
      BY <3>1, <3>2
  <2>7. CASE StageFails(c)
    <3>1. TypeOK' /\ Ordered'
      BY <1>0, <2>7 DEF StageFails, TypeOK, Ordered, MachineIsSound, CallSteps
    <3>2. MachineIsSound' /\ CallsAreSound'
      BY <1>0, <2>7 DEF StageFails, TypeOK, MachineIsSound, CallsAreSound, States, NoHandOff
    <3> QED
      BY <3>1, <3>2
  <2>8. CASE AcceptVerified(c)
    <3>1. TypeOK' /\ Ordered'
      BY <1>0, <2>8 DEF AcceptVerified, TypeOK, Ordered, MachineIsSound, CallSteps
    <3>2. MachineIsSound' /\ CallsAreSound'
      BY <1>0, <2>8 DEF AcceptVerified, TypeOK, MachineIsSound, CallsAreSound, States, NoHandOff
    <3> QED
      BY <3>1, <3>2
  <2>9. CASE Refreshed(c)
    <3>1. TypeOK' /\ Ordered'
      BY <1>0, <2>9 DEF Refreshed, TypeOK, Ordered, MachineIsSound, CallSteps
    <3>2. MachineIsSound' /\ CallsAreSound'
      BY <1>0, <2>9 DEF Refreshed, TypeOK, MachineIsSound, CallsAreSound, States, NoHandOff
    <3> QED
      BY <3>1, <3>2
  <2>10. CASE RefreshFails(c)
    <3>1. TypeOK' /\ Ordered'
      BY <1>0, <2>10 DEF RefreshFails, TypeOK, Ordered, MachineIsSound, CallSteps
    <3>2. MachineIsSound' /\ CallsAreSound'
      BY <1>0, <2>10 DEF RefreshFails, TypeOK, MachineIsSound, CallsAreSound, States, NoHandOff
    <3> QED
      BY <3>1, <3>2
  <2>11. CASE Reject(c)
    <3>1. TypeOK' /\ Ordered'
      BY <1>0, <2>11 DEF Reject, TypeOK, Ordered, MachineIsSound, CallSteps
    <3>2. MachineIsSound' /\ CallsAreSound'
      BY <1>0, <2>11 DEF Reject, TypeOK, MachineIsSound, CallsAreSound, States, NoHandOff
    <3> QED
      BY <3>1, <3>2
  <2>12. CASE BeginUpdateInstall(c)
    <3>1. TypeOK' /\ Ordered'
      BY <1>0, <2>12 DEF BeginUpdateInstall, TypeOK, Ordered, MachineIsSound, CallSteps
    <3>2. MachineIsSound' /\ CallsAreSound'
      BY <1>0, <2>12 DEF BeginUpdateInstall, TypeOK, MachineIsSound, CallsAreSound, States,
                             NoHandOff
    <3> QED
      BY <3>1, <3>2
  <2> QED
    BY <2>1, <2>2, <2>3, <2>4, <2>5, <2>6, <2>7, <2>8, <2>9, <2>10, <2>11, <2>12 DEF ConfirmStep
<1> QED
  BY <1>1, <1>2 DEF UpdaterInv

--------------------------------------------------------------------------------
(* Handing over.                                                           *)

(* Steps of the hand-over leave the world alone and have no start to mind. *)
LEMMA HandOverStarts ==
    ASSUME UpdaterInv, HandOver
    PROVE  StartIsSound'
<1>1. host = "running" /\ UNCHANGED todo
  BY DEF HandOver, ShutdownFails, TakeVerified, PersistPending, PersistFails, LaunchInstaller,
         LaunchFails, RetractPending, RetractFails, AtHandOff, HandsOff
<1> QED
  BY <1>1, RunningWritesNothing DEF UpdaterInv, StartIsSound

(* The record of a hand-off is one of a newer release.                     *)
LEMMA HandOffIsSound ==
    ASSUME UpdaterInv
    PROVE  /\ HandOff \in AtMostOne(Records)
           /\ \A r \in HandOff : /\ Newer(r.to, r.from) /\ r.to.source = "release"
                                 /\ r.from = binary /\ r.to \in handing.of
           /\ \A b \in handing.of : \E r \in HandOff : r.to = b
<1>1. handing.of = {} \/ \E b \in Builds : handing.of = {b}
  BY DEF UpdaterInv, MachineIsSound
<1>2. CASE handing.of = {}
  BY <1>2 DEF HandOff
<1>3. ASSUME NEW b \in Builds, handing.of = {b}
      PROVE  /\ HandOff \in AtMostOne(Records)
             /\ \A r \in HandOff : /\ Newer(r.to, r.from) /\ r.to.source = "release"
                                   /\ r.from = binary /\ r.to \in handing.of
             /\ \A x \in handing.of : \E r \in HandOff : r.to = x
  <2>1. HandOff = {[from |-> binary, to |-> b]}
    BY <1>3 DEF HandOff
  <2>2. [from |-> binary, to |-> b] \in Records
    BY <1>3 DEF UpdaterInv, TypeOK
  <2>3. Newer(b, binary) /\ b.source = "release"
    BY <1>3 DEF UpdaterInv, Ordered
  <2> QED
    BY <1>3, <2>1, <2>2, <2>3
<1> QED
  BY <1>1, <1>2, <1>3

LEMMA HandOverKeeps ==
    ASSUME UpdaterInv, HandOver
    PROVE  UpdaterInv'
<1> USE DEF AtHandOff, HandsOff, GoOn, EndExit, NoHandOff
<1>0. TypeOK /\ Ordered /\ Evidence /\ Unsurprised /\ MachineIsSound /\ CallsAreSound
  BY DEF UpdaterInv
<1>1. CASE ShutdownFails
  <2>1. TypeOK' /\ Ordered' /\ Evidence' /\ Unsurprised'
    BY <1>0, <1>1 DEF ShutdownFails, TypeOK, Ordered, Evidence, EvidenceIsKept, Unsurprised
  <2>2. MachineIsSound' /\ CallsAreSound'
    BY <1>0, <1>1 DEF ShutdownFails, MachineIsSound, CallsAreSound, Places
  <2> QED
    BY <1>1, <2>1, <2>2, HandOverStarts DEF UpdaterInv
<1>2. CASE TakeVerified
  <2>1. CASE payload # {} /\ state = "ready"
    <3>1. TypeOK' /\ Ordered' /\ Evidence' /\ Unsurprised'
      BY <1>0, <1>2, <2>1
         DEF TakeVerified, TypeOK, Ordered, Evidence, EvidenceIsKept, Unsurprised
    <3>2. MachineIsSound' /\ CallsAreSound'
      BY <1>0, <1>2, <2>1 DEF TakeVerified, TypeOK, MachineIsSound, CallsAreSound, Places, States
    <3> QED
      BY <1>2, <3>1, <3>2, HandOverStarts DEF UpdaterInv
  <2>2. CASE ~(payload # {} /\ state = "ready")
    <3>1. EndExit /\ UNCHANGED <<disk, state, candidate, payload>>
      BY <1>2, <2>2 DEF TakeVerified
    <3>2. TypeOK' /\ Ordered' /\ Evidence' /\ Unsurprised'
      BY <1>0, <1>2, <3>1
         DEF TakeVerified, TypeOK, Ordered, Evidence, EvidenceIsKept, Unsurprised
    <3>3. MachineIsSound' /\ CallsAreSound'
      BY <1>0, <1>2, <3>1 DEF TakeVerified, MachineIsSound, CallsAreSound, Places
    <3> QED
      BY <1>2, <3>2, <3>3, HandOverStarts DEF UpdaterInv
  <2> QED
    BY <2>1, <2>2
<1>3. CASE PersistPending
  <2>1. TypeOK' /\ Ordered' /\ Evidence' /\ Unsurprised'
    BY <1>0, <1>3, HandOffIsSound
       DEF PersistPending, TypeOK, Ordered, Evidence, EvidenceIsKept, Unsurprised, MachineIsSound
  <2>2. MachineIsSound' /\ CallsAreSound'
    BY <1>0, <1>3 DEF PersistPending, TypeOK, MachineIsSound, CallsAreSound, Places
  <2> QED
    BY <1>3, <2>1, <2>2, HandOverStarts DEF UpdaterInv
<1>4. CASE PersistFails
  <2>1. TypeOK' /\ Ordered' /\ Evidence' /\ Unsurprised'
    <3>1. TypeOK' /\ Ordered'
      BY <1>0, <1>4, HandOffIsSound DEF PersistFails, GiveBack, TypeOK, Ordered, MachineIsSound
    <3>2. Evidence'
      BY <1>0, <1>4, HandOffIsSound
         DEF PersistFails, GiveBack, Evidence, EvidenceIsKept, MachineIsSound
    <3>3. Unsurprised'
      BY <1>0, <1>4, HandOffIsSound DEF PersistFails, Unsurprised
    <3> QED
      BY <3>1, <3>2, <3>3
  <2>2. MachineIsSound' /\ CallsAreSound'
    <3>1. CASE state = "installing"
      BY <1>0, <1>4, <3>1
         DEF PersistFails, GiveBack, TypeOK, MachineIsSound, CallsAreSound, Places, States
    <3>2. CASE state # "installing"
      BY <1>0, <1>4, <3>2
         DEF PersistFails, GiveBack, TypeOK, MachineIsSound, CallsAreSound, Places, States
    <3> QED
      BY <3>1, <3>2
  <2> QED
    BY <1>4, <2>1, <2>2, HandOverStarts DEF UpdaterInv
<1>5. CASE LaunchInstaller
  <2>1. TypeOK' /\ Ordered' /\ Evidence' /\ Unsurprised'
    BY <1>0, <1>5
       DEF LaunchInstaller, TypeOK, Ordered, Evidence, EvidenceIsKept, Unsurprised, MachineIsSound
  <2>2. MachineIsSound' /\ CallsAreSound'
    BY <1>0, <1>5 DEF LaunchInstaller, TypeOK, MachineIsSound, CallsAreSound, Places
  <2> QED
    BY <1>5, <2>1, <2>2, HandOverStarts DEF UpdaterInv
<1>6. CASE LaunchFails
  <2>1. TypeOK' /\ Ordered' /\ Evidence' /\ Unsurprised'
    BY <1>0, <1>6
       DEF LaunchFails, TypeOK, Ordered, Evidence, EvidenceIsKept, Unsurprised, MachineIsSound
  <2>2. MachineIsSound' /\ CallsAreSound'
    BY <1>0, <1>6 DEF LaunchFails, TypeOK, MachineIsSound, CallsAreSound, Places
  <2> QED
    BY <1>6, <2>1, <2>2, HandOverStarts DEF UpdaterInv
<1>7. CASE RetractPending
  <2>1. TypeOK' /\ Ordered' /\ Evidence' /\ Unsurprised'
    BY <1>0, <1>7
       DEF RetractPending, GiveBack, TypeOK, Ordered, Evidence, EvidenceIsKept, Unsurprised,
           MachineIsSound
  <2>2. MachineIsSound' /\ CallsAreSound'
    <3>1. CASE state = "installing"
      BY <1>0, <1>7, <3>1
         DEF RetractPending, GiveBack, TypeOK, MachineIsSound, CallsAreSound, Places, States
    <3>2. CASE state # "installing"
      BY <1>0, <1>7, <3>2
         DEF RetractPending, GiveBack, TypeOK, MachineIsSound, CallsAreSound, Places, States
    <3> QED
      BY <3>1, <3>2
  <2> QED
    BY <1>7, <2>1, <2>2, HandOverStarts DEF UpdaterInv
<1>8. CASE RetractFails
  <2>1. TypeOK' /\ Ordered' /\ Evidence' /\ Unsurprised'
    BY <1>0, <1>8
       DEF RetractFails, TypeOK, Ordered, Evidence, EvidenceIsKept, Unsurprised, MachineIsSound
  <2>2. MachineIsSound' /\ CallsAreSound'
    BY <1>0, <1>8 DEF RetractFails, TypeOK, MachineIsSound, CallsAreSound, Places, States
  <2> QED
    BY <1>8, <2>1, <2>2, HandOverStarts DEF UpdaterInv
<1> QED
  BY <1>1, <1>2, <1>3, <1>4, <1>5, <1>6, <1>7, <1>8 DEF HandOver

--------------------------------------------------------------------------------
(* The world around the host.                                              *)

LEMMA HostGoesQuietly ==
    ASSUME UpdaterInv, HostIsGone
    PROVE  StartIsSound' /\ MachineIsSound' /\ CallsAreSound'
<1>1. MachineIsSound' /\ CallsAreSound'
  BY DEF HostIsGone, MachineIsSound, CallsAreSound, NoHandOff, Places, States
<1> QED
  BY <1>1 DEF HostIsGone, StartIsSound

(* Putting a program in place settles whatever is not newer than it.       *)
LEMMA WorldKeeps ==
    ASSUME UpdaterInv, World
    PROVE  UpdaterInv'
<1> USE DEF HostIsGone, NoHandOff
<1>0. TypeOK /\ Ordered /\ Evidence /\ Unsurprised /\ MachineIsSound
  BY DEF UpdaterInv
<1>1. CASE HostEnds
  <2>1. TypeOK' /\ Ordered' /\ Evidence' /\ Unsurprised'
    BY <1>0, <1>1
       DEF HostEnds, TypeOK, CallSteps, Ordered, Evidence, EvidenceIsKept, Unsurprised
  <2> QED
    BY <1>1, <2>1, HostGoesQuietly DEF HostEnds, UpdaterInv
<1>2. CASE InstallerSucceeds
  <2>1. PICK b \in installer : /\ ~Newer(binary, b) /\ PutInPlace(b)
                               /\ surprised' = (surprised \/ \E p \in pending : p.to # b)
    BY <1>2 DEF InstallerSucceeds
  <2>2. b \in Builds /\ b.source = "release" /\ b.version >= binary.version
    BY <1>0, <2>1 DEF TypeOK, Ordered
  <2>3. TypeOK' /\ Ordered' /\ Evidence'
    BY <1>0, <1>2, <2>1, <2>2
       DEF InstallerSucceeds, PutInPlace, TypeOK, CallSteps, Ordered, Evidence, EvidenceIsKept
  <2>4. Unsurprised'
    <3>1. surprised' \in BOOLEAN
      BY <1>0, <2>1 DEF Unsurprised
    <3>2. ~surprised' => ~surprised /\ \A p \in pending : p.to = b
      BY <2>1
    <3>3. ~surprised => \A w \in watermark : ~Newer(w, binary) /\ w \in Builds
      BY <1>0 DEF Unsurprised, TypeOK
    <3>4. binary \in Builds
      BY <1>0 DEF TypeOK
    <3>5. ~surprised => \A w \in watermark : ~Newer(w, b)
      BY <2>2, <3>3, <3>4
    <3>6. binary' = b /\ UNCHANGED <<pending, watermark>>
      BY <1>2, <2>1 DEF InstallerSucceeds, PutInPlace
    <3> QED
      BY <2>2, <3>1, <3>2, <3>5, <3>6 DEF Unsurprised
  <2> QED
    BY <1>2, <2>3, <2>4, HostGoesQuietly DEF InstallerSucceeds, UpdaterInv
<1>3. CASE InstallerFails
  <2>1. TypeOK' /\ Ordered'
    BY <1>0, <1>3 DEF InstallerFails, TypeOK, Ordered
  <2>2. StartIsSound' /\ Evidence' /\ Unsurprised'
    BY <1>3, RecordsUntouched DEF InstallerFails
  <2>3. MachineIsSound' /\ CallsAreSound'
    BY <1>3 DEF InstallerFails, UpdaterInv, MachineIsSound, CallsAreSound
  <2> QED
    BY <2>1, <2>2, <2>3 DEF UpdaterInv
<1>4. ASSUME NEW b \in Builds, InstallByHand(b)
      PROVE  UpdaterInv'
  <2>1. TypeOK' /\ Ordered' /\ Evidence' /\ Unsurprised'
    BY <1>0, <1>4
       DEF InstallByHand, PutInPlace, TypeOK, CallSteps, Ordered, Evidence, EvidenceIsKept,
           Unsurprised
  <2> QED
    BY <1>4, <2>1, HostGoesQuietly DEF InstallByHand, UpdaterInv
<1> QED
  BY <1>1, <1>2, <1>3, <1>4 DEF World

--------------------------------------------------------------------------------
(* Starting.  What is left to write is one of a few sequences, and its     *)
(* first element says which.                                               *)

LEMMA OneLeft == \A a : Head(<<a>>) = a /\ Len(<<a>>) = 1 /\ <<a>> # <<>>
OBVIOUS

LEMMA TwoLeft ==
    \A a, b : Head(<<a, b>>) = a /\ Len(<<a, b>>) = 2 /\ Tail(<<a, b>>) = <<b>>
OBVIOUS

LEMMA ThreeLeft ==
    \A a, b, c : /\ Head(<<a, b, c>>) = a /\ Len(<<a, b, c>>) = 3
                /\ Tail(<<a, b, c>>) = <<b, c>>
OBVIOUS

LEMMA FourLeft ==
    \A a, b, c, d : /\ Head(<<a, b, c, d>>) = a /\ Len(<<a, b, c, d>>) = 4
                   /\ Tail(<<a, b, c, d>>) = <<b, c, d>>
OBVIOUS

LEMMA TodoLists ==
    /\ /\ Head(Succeeding) = "keep watermark" /\ Len(Succeeding) = 4
       /\ Tail(Succeeding) = Forgetting
    /\ /\ Head(Forgetting) = "drop pending" /\ Len(Forgetting) = 3
       /\ Tail(Forgetting) = Tidying("idle")
    /\ \A x : /\ Head(Failing(x)) = "keep failed" /\ Len(Failing(x)) = 3
              /\ Tail(Failing(x)) = FailureKept(x)
    /\ \A x : /\ Head(FailureKept(x)) = "drop pending" /\ Len(FailureKept(x)) = 2
              /\ Tail(FailureKept(x)) = <<x>>
    /\ \A x : /\ Head(Tidying(x)) = "drop failed" /\ Len(Tidying(x)) = 2
              /\ Tail(Tidying(x)) = <<x>>
<1>1. /\ Head(Succeeding) = "keep watermark" /\ Len(Succeeding) = 4
      /\ Tail(Succeeding) = Forgetting
  BY FourLeft DEF Succeeding, Forgetting
<1>2. /\ Head(Forgetting) = "drop pending" /\ Len(Forgetting) = 3
      /\ Tail(Forgetting) = Tidying("idle")
  BY ThreeLeft DEF Forgetting, Tidying
<1>3. \A x : /\ Head(Failing(x)) = "keep failed" /\ Len(Failing(x)) = 3
            /\ Tail(Failing(x)) = FailureKept(x)
  BY ThreeLeft DEF Failing, FailureKept
<1>4. \A x : /\ Head(FailureKept(x)) = "drop pending" /\ Len(FailureKept(x)) = 2
            /\ Tail(FailureKept(x)) = <<x>>
  BY TwoLeft DEF FailureKept
<1>5. \A x : /\ Head(Tidying(x)) = "drop failed" /\ Len(Tidying(x)) = 2
            /\ Tail(Tidying(x)) = <<x>>
  BY TwoLeft DEF Tidying
<1> QED
  BY <1>1, <1>2, <1>3, <1>4, <1>5

LEMMA StepsOfStart ==
    ASSUME UpdaterInv, host = "starting"
    PROVE  \/ /\ Head(todo) = "keep watermark" /\ Len(todo) = 4 /\ Tail(todo) = Forgetting
              /\ pending # {} /\ \A p \in pending : p.to = binary
           \/ /\ Head(todo) = "drop pending" /\ Len(todo) = 3 /\ Tail(todo) = Tidying("idle")
              /\ awaited = {}
           \/ \E x \in {"failed", "refused"} :
                /\ Head(todo) = "keep failed" /\ Len(todo) = 3 /\ Tail(todo) = FailureKept(x)
                /\ pending # {} /\ (x = "refused" => surprised)
           \/ \E x \in {"failed", "refused"} :
                /\ Head(todo) = "drop pending" /\ Len(todo) = 2 /\ Tail(todo) = <<x>>
                /\ failed = pending /\ (x = "refused" => surprised)
           \/ \E x \in {"idle", "refused"} :
                /\ Head(todo) = "drop failed" /\ Len(todo) = 2 /\ Tail(todo) = <<x>>
                /\ pending = {} /\ awaited = {} /\ (x = "refused" => surprised)
           \/ \E x \in {"idle", "failed", "refused"} :
                /\ Head(todo) = x /\ Len(todo) = 1
                /\ (x = "refused" => surprised) /\ (x # "refused" => pending = {})
<1>1. StartIsSound /\ todo # <<>>
  BY DEF UpdaterInv, TypeOK
<1>2. CASE todo = Succeeding /\ pending # {} /\ \A p \in pending : p.to = binary
  BY <1>2, TodoLists
<1>3. CASE todo = Forgetting /\ awaited = {}
  BY <1>3, TodoLists
<1>4. CASE \E x \in {"failed", "refused"} :
             todo = Failing(x) /\ pending # {} /\ (x = "refused" => surprised)
  BY <1>4, TodoLists
<1>5. CASE \E x \in {"failed", "refused"} :
             todo = FailureKept(x) /\ failed = pending /\ (x = "refused" => surprised)
  BY <1>5, TodoLists
<1>6. CASE \E x \in {"idle", "refused"} :
             /\ todo = Tidying(x) /\ pending = {} /\ awaited = {}
             /\ x = "refused" => surprised
  BY <1>6, TodoLists
<1>7. CASE \E x \in {"idle", "failed", "refused"} :
             todo = <<x>> /\ (x = "refused" => surprised) /\ (x # "refused" => pending = {})
  BY <1>7, OneLeft
<1> QED
  BY <1>1, <1>2, <1>3, <1>4, <1>5, <1>6, <1>7 DEF StartIsSound

(* Once the program is there that the pending record awaits, nothing newer *)
(* is awaited, and the watermark may follow.                               *)
LEMMA ProgramHasArrived ==
    ASSUME UpdaterInv, pending # {}, \A p \in pending : p.to = binary
    PROVE  /\ {p.to : p \in pending} = {binary}
           /\ binary \in Builds /\ binary.source = "release"
           /\ \A w \in watermark : ~Newer(w, binary)
           /\ awaited = {}
<1>1. binary \in Builds /\ \A w \in watermark : w \in Builds
  BY DEF UpdaterInv, TypeOK
<1>2. binary.source = "release"
  BY DEF UpdaterInv, TypeOK
<1>3. \A w \in watermark : ~Newer(w, binary)
  BY <1>1 DEF UpdaterInv, Ordered
<1>4. \A b \in awaited : b = binary /\ Newer(b, binary)
  BY DEF UpdaterInv, Ordered, Evidence
<1> QED
  BY <1>1, <1>2, <1>3, <1>4

(* The writes of a start, whether they are reported or not.                *)
RecordWritten ==
    \/ UNCHANGED disk
    \/ /\ Writing("keep watermark") /\ watermark' = {p.to : p \in pending}
       /\ UNCHANGED <<pending, failed>>
    \/ Writing("keep failed") /\ failed' = pending /\ UNCHANGED <<pending, watermark>>
    \/ Writing("drop pending") /\ pending' = {} /\ UNCHANGED <<failed, watermark>>
    \/ Writing("drop failed") /\ failed' = {} /\ UNCHANGED <<pending, watermark>>

(* The part of TypeOK that is about the records.                           *)
RecordsTyped ==
    /\ pending \in AtMostOne(Records) /\ failed \in AtMostOne(Records)
    /\ watermark \in AtMostOne(Builds)
    /\ \A r \in pending \cup failed : Newer(r.to, r.from) /\ r.to.source = "release"

LEMMA WritesKeepRecords ==
    ASSUME UpdaterInv, host = "starting", RecordWritten,
           UNCHANGED <<candidate, handing, installer, binary, awaited, surprised>>
    PROVE  RecordsTyped' /\ Ordered' /\ Evidence' /\ Unsurprised'
<1>0. TypeOK /\ StartIsSound /\ Ordered /\ Evidence /\ Unsurprised /\ todo # <<>>
  BY DEF UpdaterInv, TypeOK
<1>1. RecordsTyped
  BY <1>0 DEF TypeOK, RecordsTyped
<1>2. handing.at = "none" /\ candidate = {} /\ handing.of = {}
  BY DEF UpdaterInv, MachineIsSound, NoHandOff
<1>3. CASE UNCHANGED disk
  BY <1>0, <1>1, <1>3 DEF RecordsTyped, Ordered, Evidence, EvidenceIsKept, Unsurprised
<1>4. CASE /\ Writing("keep watermark")
           /\ watermark' = {p.to : p \in pending} /\ UNCHANGED <<pending, failed>>
  <2>1. pending # {} /\ \A p \in pending : p.to = binary
    BY <1>4, StepsOfStart DEF Writing
  <2>2. /\ watermark' = {binary} /\ awaited = {}
        /\ binary \in Builds /\ binary.source = "release"
    BY <1>4, <2>1, ProgramHasArrived
  <2>3. UNCHANGED <<pending, failed, binary, surprised>>
    BY <1>4
  <2> HIDE <1>4
  <2>4. RecordsTyped'
    BY <1>1, <2>2, <2>3 DEF RecordsTyped
  <2>5. Ordered'
    BY <1>0, <1>2, <2>1, <2>2, <2>3 DEF Ordered
  <2>6. Evidence'
    BY <1>0, <1>2, <2>2, <2>3 DEF Evidence, EvidenceIsKept
  <2>7. Unsurprised'
    BY <1>0, <2>2, <2>3 DEF Unsurprised
  <2> QED
    BY <2>4, <2>5, <2>6, <2>7
<1>5. CASE Writing("keep failed") /\ failed' = pending /\ UNCHANGED <<pending, watermark>>
  <2>1. pending # {}
    BY <1>0, <1>5, StepsOfStart DEF Writing
  <2> QED
    BY <1>0, <1>1, <1>2, <1>5, <2>1
       DEF RecordsTyped, Ordered, Evidence, EvidenceIsKept, Unsurprised
<1>6. CASE Writing("drop pending") /\ pending' = {} /\ UNCHANGED <<failed, watermark>>
  <2>1. awaited = {} \/ failed = pending
    BY <1>0, <1>6, StepsOfStart DEF Writing
  <2> QED
    BY <1>0, <1>1, <1>2, <1>6, <2>1
       DEF RecordsTyped, Ordered, Evidence, EvidenceIsKept, Unsurprised
<1>7. CASE Writing("drop failed") /\ failed' = {} /\ UNCHANGED <<pending, watermark>>
  <2>1. awaited = {}
    BY <1>0, <1>7, StepsOfStart DEF Writing
  <2> QED
    BY <1>0, <1>1, <1>2, <1>7, <2>1
       DEF RecordsTyped, Ordered, Evidence, EvidenceIsKept, Unsurprised
<1> QED
  BY <1>3, <1>4, <1>5, <1>6, <1>7 DEF RecordWritten

LEMMA TypeFromRecords ==
    ASSUME TypeOK, RecordsTyped', host' \in {"off", "starting", "running"},
           host' = "starting" <=> todo' # <<>>,
           UNCHANGED <<binary, candidate, payload, installer, awaited, calls, exit>>
    PROVE  TypeOK'
BY DEF TypeOK, RecordsTyped

LEMMA StartWrites ==
    ASSUME UpdaterInv, KeepWatermark \/ KeepFailed \/ DropPending \/ DropFailed
    PROVE  UpdaterInv'
<1>0. TypeOK /\ StartIsSound /\ host = "starting" /\ todo # <<>>
  BY DEF UpdaterInv, TypeOK, KeepWatermark, KeepFailed, DropPending, DropFailed, Writing
<1>1. todo' = Tail(todo) /\ UNCHANGED <<host, machine, calls, exit, outside>>
  BY DEF KeepWatermark, KeepFailed, DropPending, DropFailed, Written
<1>2. RecordsTyped' /\ Ordered' /\ Evidence' /\ Unsurprised'
  <2>1. RecordWritten
    BY DEF RecordWritten, KeepWatermark, KeepFailed, DropPending, DropFailed
  <2> QED
    BY <1>0, <1>1, <2>1, WritesKeepRecords
<1>3. StartIsSound' /\ todo' # <<>>
  <2>1. CASE KeepWatermark
    <3>1. todo' = Forgetting /\ awaited = {}
      BY <1>0, <1>1, <2>1, StepsOfStart, ProgramHasArrived DEF KeepWatermark, Writing
    <3>2. Forgetting # <<>>
      BY DEF Forgetting
    <3> QED
      BY <1>1, <3>1, <3>2 DEF StartIsSound
  <2>2. CASE KeepFailed
    <3>1. PICK x \in {"failed", "refused"} :
             todo' = FailureKept(x) /\ (x = "refused" => surprised)
      BY <1>0, <1>1, <2>2, StepsOfStart DEF KeepFailed, Writing
    <3>2. failed' = pending' /\ surprised' = surprised
      BY <1>1, <2>2 DEF KeepFailed
    <3>3. FailureKept(x) # <<>>
      BY DEF FailureKept
    <3> QED
      BY <3>1, <3>2, <3>3 DEF StartIsSound
  <2>3. CASE DropPending
    <3>1. pending' = {} /\ surprised' = surprised /\ awaited' = awaited
      BY <1>1, <2>3 DEF DropPending
    <3>2. CASE Tail(todo) = Tidying("idle") /\ awaited = {}
      <4>1. Tidying("idle") # <<>>
        BY DEF Tidying
      <4> QED
        BY <1>1, <3>1, <3>2, <4>1 DEF StartIsSound
    <3>3. ASSUME NEW x \in {"failed", "refused"}, Tail(todo) = <<x>>, x = "refused" => surprised
          PROVE  StartIsSound' /\ todo' # <<>>
      BY <1>1, <3>1, <3>3, OneLeft DEF StartIsSound
    <3> QED
      BY <1>0, <2>3, <3>2, <3>3, StepsOfStart DEF DropPending, Writing
  <2>4. CASE DropFailed
    <3>1. PICK x \in {"idle", "refused"} :
             todo' = <<x>> /\ pending = {} /\ (x = "refused" => surprised)
      BY <1>0, <1>1, <2>4, StepsOfStart DEF DropFailed, Writing
    <3>2. pending' = {} /\ surprised' = surprised
      BY <1>1, <2>4, <3>1 DEF DropFailed
    <3> QED
      BY <3>1, <3>2, OneLeft DEF StartIsSound
  <2> QED
    BY <2>1, <2>2, <2>3, <2>4
<1>4. TypeOK'
  BY <1>0, <1>1, <1>2, <1>3, TypeFromRecords
<1>5. MachineIsSound' /\ CallsAreSound'
  BY <1>0, <1>1 DEF UpdaterInv, MachineIsSound, CallsAreSound
<1> QED
  BY <1>2, <1>3, <1>4, <1>5 DEF UpdaterInv

(* The end of a start.                                                     *)
LEMMA StartEnds ==
    ASSUME UpdaterInv, FinishStart \/ StartFails
    PROVE  UpdaterInv'
<1>0. TypeOK /\ StartIsSound /\ MachineIsSound /\ CallsAreSound /\ host = "starting" /\ todo # <<>>
  BY DEF UpdaterInv, TypeOK, FinishStart, StartFails
<1>1. /\ host' = "running" /\ todo' = <<>>
      /\ UNCHANGED <<candidate, payload, fetching, calls, exit, outside>>
  BY DEF FinishStart, StartFails
<1>2. RecordsTyped' /\ Ordered' /\ Evidence' /\ Unsurprised'
  <2>1. RecordWritten
    BY DEF RecordWritten, FinishStart, StartFails
  <2> QED
    BY <1>0, <1>1, <2>1, WritesKeepRecords
<1>3. StartIsSound' /\ TypeOK'
  BY <1>0, <1>1, <1>2, TypeFromRecords DEF StartIsSound
<1>4. CASE FinishStart
  <2>1. PICK x \in {"idle", "failed", "refused"} :
           state' = x /\ (x = "refused" => surprised) /\ (x # "refused" => pending = {})
    BY <1>0, <1>4, StepsOfStart DEF FinishStart
  <2>2. UNCHANGED pending
    BY <1>4 DEF FinishStart
  <2>3. MachineIsSound' /\ CallsAreSound'
    BY <1>0, <1>1, <2>1, <2>2 DEF MachineIsSound, CallsAreSound, States, NoHandOff
  <2> QED
    BY <1>2, <1>3, <2>3 DEF UpdaterInv
<1>5. CASE StartFails
  <2>1. state' = "blocked"
    BY <1>5 DEF StartFails
  <2>2. MachineIsSound' /\ CallsAreSound'
    BY <1>0, <1>1, <2>1 DEF MachineIsSound, CallsAreSound, States, NoHandOff
  <2> QED
    BY <1>2, <1>3, <2>2 DEF UpdaterInv
<1> QED
  BY <1>4, <1>5

(* What a start decides, case by case.                                     *)
LEMMA StartDecides ==
    ASSUME UpdaterInv, host = "off", todo' = Decision,
           UNCHANGED <<disk, binary, awaited, surprised>>
    PROVE  StartIsSound' /\ todo' # <<>>
<1>0. TypeOK /\ Ordered /\ Evidence /\ Unsurprised
  BY DEF UpdaterInv
<1>1. ~surprised => Usable(watermark) = "idle" /\ UsableFailed(watermark) = "failed"
  BY <1>0 DEF Unsurprised, Usable, UsableFailed
<1>2. Usable(watermark) \in {"idle", "refused"} /\ UsableFailed(watermark) \in {"failed", "refused"}
  BY DEF Usable, UsableFailed
<1>3. CASE pending # {}
  <2>1. PICK p \in Records : pending = {p}
    BY <1>0, <1>3 DEF TypeOK
  <2>2. (CHOOSE q \in pending : TRUE) = p
    BY <2>1
  <2>3. Decision = IF Mismatch(p) THEN <<"refused">>
                   ELSE IF binary = p.to THEN Succeeding ELSE Failing(UsableFailed(watermark))
    BY <1>3, <2>2 DEF Decision, Succeeding, Failing
  <2>4. Mismatch(p) => surprised
    <3>1. \A w \in watermark : w \in Builds /\ (Newer(p.to, w) \/ w = p.to)
      BY <1>0, <2>1 DEF TypeOK, Ordered
    <3>2. ~surprised => binary \in {p.from, p.to}
      BY <1>0, <2>1 DEF Unsurprised
    <3> QED
      BY <2>1, <3>1, <3>2 DEF Mismatch
  <2>5. CASE Mismatch(p)
    BY <2>3, <2>4, <2>5, OneLeft DEF StartIsSound
  <2>6. CASE ~Mismatch(p) /\ binary = p.to
    <3>1. Succeeding # <<>>
      BY DEF Succeeding
    <3> QED
      BY <1>3, <2>1, <2>3, <2>6, <3>1 DEF StartIsSound
  <2>7. CASE ~Mismatch(p) /\ binary # p.to
    <3>1. \A x : Failing(x) # <<>>
      BY DEF Failing
    <3>2. UsableFailed(watermark) = "refused" => surprised
      BY <1>0, <1>1 DEF Unsurprised
    <3> QED
      BY <1>2, <1>3, <2>3, <2>7, <3>1, <3>2 DEF StartIsSound
  <2> QED
    BY <2>5, <2>6, <2>7
<1>4. CASE pending = {} /\ \E f \in failed : FailedMismatch(f)
  <2>1. PICK f \in failed : FailedMismatch(f)
    BY <1>4
  <2>2. f \in Records /\ Newer(f.to, f.from) /\ f.to.source = "release"
    BY <1>0 DEF TypeOK
  <2>3. surprised
    <3>1. CASE binary.version = f.to.version /\ binary # f.to
      <4>1. f.to.version # 1
        BY <2>2
      <4>2. binary.source # "release"
        BY <1>0, <2>2, <3>1 DEF TypeOK
      <4> QED
        BY <1>0, <3>1, <4>1, <4>2 DEF Unsurprised
    <3>2. CASE Newer(f.to, binary) /\ \E w \in watermark : w.version = f.to.version /\ w # f.to
      BY <1>0, <3>2 DEF Unsurprised
    <3> QED
      BY <2>1, <3>1, <3>2 DEF FailedMismatch
  <2>4. Decision = <<"refused">>
    BY <1>4 DEF Decision
  <2> QED
    BY <2>3, <2>4, OneLeft DEF StartIsSound
<1>5. CASE /\ pending = {} /\ ~\E f \in failed : FailedMismatch(f)
           /\ \E f \in failed : Unresolved(f)
  <2>1. Decision = <<UsableFailed(watermark)>>
    BY <1>5 DEF Decision
  <2>2. UsableFailed(watermark) = "refused" => surprised
    BY <1>0, <1>1 DEF Unsurprised
  <2> QED
    BY <1>2, <1>5, <2>1, <2>2, OneLeft DEF StartIsSound
<1>6. CASE /\ pending = {} /\ ~\E f \in failed : FailedMismatch(f)
           /\ ~\E f \in failed : Unresolved(f)
  <2>1. Usable(watermark) = "refused" => surprised
    BY <1>0, <1>1 DEF Unsurprised
  <2>2. CASE failed # {}
    <3>1. Decision = Tidying(Usable(watermark))
      BY <1>6, <2>2 DEF Decision, Tidying
    <3>2. awaited = {}
      BY <1>0, <1>6 DEF Evidence, EvidenceIsKept, Ordered, Unresolved
    <3>3. \A x : Tidying(x) # <<>>
      BY DEF Tidying
    <3> QED
      BY <1>2, <1>6, <2>1, <3>1, <3>2, <3>3 DEF StartIsSound
  <2>3. CASE failed = {}
    <3>1. Decision = <<Usable(watermark)>>
      BY <1>6, <2>3 DEF Decision
    <3> QED
      BY <1>2, <1>6, <2>1, <3>1, OneLeft DEF StartIsSound
  <2> QED
    BY <2>2, <2>3
<1> QED
  BY <1>3, <1>4, <1>5, <1>6

LEMMA StartBegins ==
    ASSUME UpdaterInv, StartHost
    PROVE  UpdaterInv'
<1>1. StartIsSound' /\ todo' # <<>>
  BY StartDecides DEF StartHost
<1>2. TypeOK'
  BY <1>1 DEF StartHost, UpdaterInv, TypeOK
<1>3. Ordered' /\ Evidence' /\ Unsurprised'
  BY DEF StartHost, UpdaterInv, Ordered, Evidence, EvidenceIsKept, Unsurprised
<1>4. MachineIsSound' /\ CallsAreSound'
  BY DEF StartHost, UpdaterInv, MachineIsSound, CallsAreSound
<1> QED
  BY <1>1, <1>2, <1>3, <1>4 DEF UpdaterInv

--------------------------------------------------------------------------------
(* The theorems.                                                           *)

LEMMA NextKeeps == UpdaterInv /\ [Next]_vars => UpdaterInv'
<1> SUFFICES ASSUME UpdaterInv, [Next]_vars PROVE UpdaterInv'
  OBVIOUS
<1>1. CASE Start
  BY <1>1, StartBegins, StartWrites, StartEnds DEF Start
<1>2. CASE Check
  BY <1>2, CheckKeeps
<1>3. CASE Confirm
  <2>1. PICK c \in Calls : ConfirmStep(c)
    BY <1>3 DEF Confirm, ConfirmStep
  <2> QED
    BY <2>1, ConfirmKeeps
<1>4. CASE HandOver
  BY <1>4, HandOverKeeps
<1>5. CASE World
  BY <1>5, WorldKeeps
<1>6. CASE UNCHANGED vars
  <2>1. TypeOK' /\ Ordered'
    BY <1>6 DEF UpdaterInv, TypeOK, Ordered, vars
  <2>2. StartIsSound' /\ Evidence' /\ Unsurprised'
    BY <1>6, RecordsUntouched DEF vars
  <2>3. MachineIsSound' /\ CallsAreSound'
    BY <1>6 DEF UpdaterInv, MachineIsSound, CallsAreSound, vars
  <2> QED
    BY <2>1, <2>2, <2>3 DEF UpdaterInv
<1> QED
  BY <1>1, <1>2, <1>3, <1>4, <1>5, <1>6 DEF Next

LEMMA UpdaterInvHolds == Spec => []UpdaterInv
  BY Initially, NextKeeps, PTL DEF Spec

\* The records are hand-offs to newer releases and the payload that is held is the
\* candidate, in every reachable state (PendingInstall::new, finish_verification).
THEOREM TypeCorrect == Spec => []TypeOK
<1>1. UpdaterInv => TypeOK
  BY DEF UpdaterInv
<1> QED
  BY <1>1, UpdaterInvHolds, PTL

\* From the hand-over to an installer until it is resolved a record names the release,
\* wherever the host ends and whichever write fails (launch_verified_install_inner,
\* reconcile_persisted_state_for).
THEOREM HandOverLeavesEvidence == Spec => []EvidenceIsKept
<1>1. UpdaterInv => EvidenceIsKept
  BY DEF UpdaterInv, Evidence
<1> QED
  BY <1>1, UpdaterInvHolds, PTL

\* A start refuses the records only after a program was installed that they could not
\* await (reconcile_startup, validate_watermark).
THEOREM RefusalsAreSurprises == Spec => []OnlySurprisesAreRefused
<1>1. UpdaterInv => OnlySurprisesAreRefused
  BY DEF UpdaterInv, MachineIsSound, OnlySurprisesAreRefused
<1> QED
  BY <1>1, UpdaterInvHolds, PTL

\* The state of the machine tells what is the case, with any number of calls of
\* desktop_confirm_update under way.
THEOREM StateIsTrue == Spec => []StateTellsTheTruth
<1>1. UpdaterInv => StateTellsTheTruth
  BY DEF UpdaterInv, MachineIsSound, StateTellsTheTruth
<1> QED
  BY <1>1, UpdaterInvHolds, PTL

\* The watermark moves only to the program that runs, and never back
\* (persist_installed_watermark, after reconcile_startup).
THEOREM WatermarkFollows == Spec => WatermarkFollowsProgram
<1>1. ASSUME UpdaterInv, Next, watermark' # watermark
      PROVE  watermark' = {binary} /\ \A old \in watermark, new \in watermark' : ~Newer(old, new)
  <2>1. /\ host = "starting" /\ Head(todo) = "keep watermark"
        /\ watermark' = {p.to : p \in pending}
    BY <1>1
       DEF Next, Start, StartHost, KeepWatermark, KeepFailed, DropPending, DropFailed,
           FinishStart, StartFails, Writing, Written, Check, BeginCheck, CheckFails,
           DismissUpdate, FinishCheck, Answered, Running, Confirm, Consent, ConfirmDownload,
           ConfirmInstall, ConfirmRefused, DownloadFails, Downloaded, StageFails,
           AcceptVerified, Refreshed, RefreshFails, Reject, BeginUpdateInstall, Calling,
           HandOver, ShutdownFails, TakeVerified, PersistPending, PersistFails,
           LaunchInstaller, LaunchFails, RetractPending, RetractFails, HandsOff, World,
           HostEnds, InstallerSucceeds, InstallerFails, InstallByHand
  <2>2. pending # {} /\ \A p \in pending : p.to = binary
    BY <1>1, <2>1, StepsOfStart
  <2> QED
    BY <1>1, <2>1, <2>2, ProgramHasArrived
<1>2. UpdaterInv /\ [Next]_vars
      => [watermark' # watermark =>
            /\ watermark' = {binary}
            /\ \A old \in watermark, new \in watermark' : ~Newer(old, new)]_vars
  BY <1>1 DEF vars
<1> QED
  BY <1>2, UpdaterInvHolds, PTL DEF Spec, WatermarkFollowsProgram
==============================================================================
