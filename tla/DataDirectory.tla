----------------------------- MODULE DataDirectory -----------------------------
(***************************************************************************)
(* The data directory over its life: services that write to the database   *)
(* and the market lake, backups taken beside them, and restores that       *)
(* replace both while no service runs.                                     *)
(*                                                                         *)
(* A restore first settles the tasks of the old database, saves a backup   *)
(* of it and unpacks the new pair into a staging directory; until it has   *)
(* written its journal it may end anywhere and leave that directory behind. *)
(* Then it renames the old database and lake into the staging directory    *)
(* and the new ones out of it, one after the other, and records in the     *)
(* journal what it has done.  If it is cut short, whoever starts next      *)
(* first recovers: it compares what lies where with what the journal says, *)
(* rolls a restore back that was not committed and cleans up after one     *)
(* that was, and refuses to start when the two do not fit.  Recovery may   *)
(* be cut short as well.                                                   *)
(*                                                                         *)
(* Each action is one rename, one write of the journal or one removal, so  *)
(* that a crash comes between any two.  What the code compares by hash is  *)
(* compared here by value: two lakes with the same files are equal.        *)
(***************************************************************************)
EXTENDS MarketLake, Sequences

CONSTANTS
    Foreign,    \* backups of other data directories
    MaxRows,    \* bound: other transactions
    MaxCrashes, \* bound
    MaxRestores \* bound

ASSUME DirectoryBounds == {MaxRows, MaxCrashes, MaxRestores} \subseteq Nat

VARIABLES
    rows,       \* the rest of the database: a count of transactions
    present,    \* the components in their places
    serving,    \* a service process runs
    clone,      \* the copy of the database a backup has taken; {} for none
    archive,    \* the backup a restore would use; {} for none
    prep,       \* how far a restore has come that has no journal yet
    bundle,     \* the verified backup it was given; {} for none
    strays,     \* staging directories that no journal names: the one a restore
                \* fills, and those of restores that ended before their journal
    journal,    \* the restore journal
    staged,     \* the staging directory the journal names exists
    manifest,   \* it still holds the archive manifest
    aside,      \* the components in its "rollback", "new" and "discarded"
    torn,       \* where a lake is half removed
    todo,       \* what the restore or recovery under way has still to do
    refused,    \* a recovery has refused
    crashes, restores

starting == <<prep, bundle, strays>>
control == <<todo, refused, crashes, restores, starting>>
stage   == <<staged, manifest, aside, torn>>
live    == <<lakeVars, rows, present>>
backup  == <<clone, archive>>
vars    == <<live, serving, backup, journal, stage, control>>

Components == {"database", "market"}
Asides == {"rollback", "new", "discarded"}

(* A component that is absent is {}, one that is there {its contents}.     *)
Absent == [c \in Components |-> {}]
Database(cat, n) == {[catalogue |-> cat, rows |-> n]}
Lake(files, temps) == {[target |-> files, temp |-> temps]}

(* A backup holds a database and, if there is a lake, every file of it     *)
(* that the database lists.                                                *)
Listed(d) == {<<d, y>> : y \in Years}
ListedIn(cat) == UNION {Listed(d) : d \in cat}
BackupOf(db, withLake) ==
    [database |-> {db},
     market |-> IF withLake THEN Lake(ListedIn(db.catalogue), NoFiles) ELSE {}]

ASSUME ForeignAssumption ==
    \A a \in Foreign :
        \E cat \in SUBSET Datasets, n \in 0..MaxRows, withLake \in BOOLEAN :
            /\ cat # {} => withLake
            /\ a = BackupOf([catalogue |-> cat, rows |-> n], withLake)

LiveOf(c) ==
    IF c \notin present THEN {}
    ELSE IF c = "database" THEN Database(catalogue, rows) ELSE Lake(target, temp)
Live == [c \in Components |-> LiveOf(c)]

PutLive(c, contents) ==
    /\ present' = IF contents = {} THEN present \ {c} ELSE present \cup {c}
    /\ IF c = "database"
       THEN /\ catalogue' = UNION {x.catalogue : x \in contents}
            /\ \E n \in (IF contents = {} THEN {0} ELSE {x.rows : x \in contents}) : rows' = n
            /\ UNCHANGED <<target, temp>>
       ELSE /\ target' = UNION {x.target : x \in contents}
            /\ \E t \in (IF contents = {} THEN {NoFiles} ELSE {x.temp : x \in contents}) : temp' = t
            /\ UNCHANGED <<catalogue, rows>>
    /\ UNCHANGED writer

NoJournal == [phase |-> "none", original |-> Absent, installed |-> Absent,
              moved |-> {}, placed |-> {}]
Final == {"committed", "rolled_back"}

Init ==
    /\ catalogue = {} /\ target = {} /\ temp = NoFiles /\ writer = NoWriter
    /\ rows = 0 /\ present = {} /\ serving = FALSE
    /\ prep = "none" /\ bundle = {} /\ strays = 0
    /\ clone = {} /\ archive \in {{}} \cup {{a} : a \in Foreign}
    /\ journal = NoJournal
    /\ staged = FALSE /\ manifest = FALSE /\ torn = {}
    /\ aside = [p \in Asides |-> Absent]
    /\ todo = <<>> /\ refused = FALSE /\ crashes = 0 /\ restores = 0

--------------------------------------------------------------------------------
(* Services *)

(* Nobody holds the lifecycle lock to restore or to recover. *)
Idle == todo = <<>> /\ prep = "none"

(* Recovery comes first; both hold the lifecycle lock. *)
StartService ==
    /\ ~serving /\ Idle /\ journal = NoJournal
    /\ serving' = TRUE
    /\ UNCHANGED <<live, backup, journal, stage, control>>

(* A service creates its database by migration, then the root of the lake. *)
CreateDatabase ==
    /\ serving /\ "database" \notin present
    /\ PutLive("database", Database({}, 0))
    /\ UNCHANGED <<serving, backup, journal, stage, control>>

CreateLake ==
    /\ serving /\ "database" \in present /\ "market" \notin present
    /\ PutLive("market", Lake({}, NoFiles))
    /\ UNCHANGED <<serving, backup, journal, stage, control>>

WriteRows ==
    /\ serving /\ "database" \in present /\ rows < MaxRows
    /\ rows' = rows + 1
    /\ UNCHANGED <<lakeVars, present, serving, backup, journal, stage, control>>

WriteLake ==
    /\ serving /\ present = Components
    /\ LakeStep
    /\ UNCHANGED <<rows, present, serving, backup, journal, stage, control>>

StopService ==
    /\ serving /\ At("idle")
    /\ serving' = FALSE
    /\ UNCHANGED <<live, backup, journal, stage, control>>

Crash ==
    /\ crashes < MaxCrashes /\ crashes' = crashes + 1
    /\ serving \/ ~Idle
    /\ writer' = NoWriter
    /\ serving' \in {FALSE, serving}
    /\ todo' = <<>> /\ prep' = "none" /\ bundle' = {}
    /\ clone' \in {clone, {}}
    /\ UNCHANGED <<catalogue, target, temp, rows, present, archive, journal, stage,
                   refused, restores, strays>>

--------------------------------------------------------------------------------
(* Backup: a copy of the database, then the files its catalogue lists,     *)
(* without the lock of the lake.  Only a restore over a database keeps     *)
(* backups out, by the lock that migrations take.                          *)

Locked ==
    \/ prep # "none" /\ "database" \in present
    \/ \E i \in DOMAIN todo : todo[i][1] = "commit" /\ journal.original["database"] # {}

CopyDatabase ==
    /\ ~Locked /\ "database" \in present /\ clone = {}
    /\ clone' = LiveOf("database")
    /\ UNCHANGED <<live, serving, archive, journal, stage, control>>

HoldMarketFiles ==
    /\ ~Locked
    /\ \E db \in clone :
         LET listed == ListedIn(db.catalogue)
         IN  \/ /\ \A f \in listed : f \in target /\ temp[f] = "none"
                /\ listed # {} => "market" \in present
                /\ archive' = {BackupOf(db, "market" \in present)}
             \/ /\ \E f \in listed : f \notin target \/ temp[f] # "none"
                /\ UNCHANGED archive
    /\ clone' = {}
    /\ UNCHANGED <<live, serving, journal, stage, control>>

--------------------------------------------------------------------------------
(* Restore *)

(* The locks are taken, that of the database only where there is one.      *)
BeginRestore ==
    /\ ~serving /\ Idle /\ journal = NoJournal
    /\ "market" \in present => "database" \in present
    /\ "database" \in present => clone = {}
    /\ restores < MaxRestores /\ restores' = restores + 1
    /\ archive # {} /\ bundle' = archive
    /\ prep' = IF "database" \in present THEN "locked" ELSE "ready"
    /\ UNCHANGED <<live, serving, backup, journal, stage, todo, refused, crashes, strays>>

(* Tasks whose leases have lapsed are put back in the queue or cancelled,  *)
(* in one transaction of the live database; there may be none.             *)
RequeueExpiredLeases ==
    /\ prep = "locked" /\ prep' = "requeued"
    /\ UNCHANGED rows \/ (rows < MaxRows /\ rows' = rows + 1)
    /\ UNCHANGED <<lakeVars, present, serving, backup, journal, stage, todo, refused, crashes,
                   restores, bundle, strays>>

(* A backup of the old pair, with which the user may undo the restore.     *)
SaveRecoveryArchive ==
    /\ prep = "requeued" /\ prep' = "ready"
    /\ catalogue # {} => "market" \in present
    /\ \A f \in ListedIn(catalogue) : f \in target /\ temp[f] = "none"
    /\ \/ UNCHANGED archive
       \/ archive' = {BackupOf([catalogue |-> catalogue, rows |-> rows], "market" \in present)}
    /\ UNCHANGED <<live, serving, clone, journal, stage, todo, refused, crashes, restores,
                   bundle, strays>>

(* The old contents are hashed, which refuses files with two names.  Then  *)
(* a staging directory of a new name is made and filled.                   *)
StageBackup ==
    /\ prep = "ready" /\ prep' = "staged"
    /\ "market" \in present => \A f \in Files : temp[f] # "alias"
    /\ strays' = strays + 1
    /\ UNCHANGED <<live, serving, backup, journal, stage, todo, refused, crashes, restores,
                   bundle>>

(* Anything fails before the journal is written; the staging directory is  *)
(* removed, if that does not fail as well.                                 *)
AbandonRestore ==
    /\ prep # "none" /\ prep' = "none" /\ bundle' = {}
    /\ UNCHANGED strays \/ (prep = "staged" /\ strays' = strays - 1)
    /\ UNCHANGED <<live, serving, backup, journal, stage, todo, refused, crashes, restores>>

MoveAside(c, p) == aside' = [aside EXCEPT ![p][c] = LiveOf(c)] /\ PutLive(c, {})
PutBack(c, p)   == PutLive(c, aside[p][c]) /\ aside' = [aside EXCEPT ![p][c] = {}]

RestoreSteps(c, had, new) ==
    (IF had = {} THEN <<>> ELSE <<<<"move", c>>, <<"note move", c>>>>)
    \o (IF new = {} THEN <<>> ELSE <<<<"place", c>>, <<"note place", c>>>>)

(* The journal names the stage, and what is old and what is new.  From     *)
(* here on a restore that is cut short is recovered.                       *)
WriteJournal ==
    /\ prep = "staged" /\ prep' = "none" /\ bundle' = {} /\ strays' = strays - 1
    /\ \E a \in bundle :
         /\ aside' = [aside EXCEPT !["new"] = a]
         /\ journal' = [NoJournal EXCEPT !.phase = "prepared",
                                         !.original = Live, !.installed = a]
         /\ todo' = RestoreSteps("database", Live["database"], a["database"])
                    \o RestoreSteps("market", Live["market"], a["market"])
                    \o <<<<"commit", "both">>, <<"clean", "both">>>>
    /\ staged' = TRUE /\ manifest' = TRUE
    /\ UNCHANGED <<live, serving, backup, torn, refused, crashes, restores>>

Doing(step, c) == todo # <<>> /\ Head(todo) = <<step, c>>
Done == todo' = Tail(todo)

Rest == <<backup, serving, staged, manifest, torn, refused, crashes, restores, starting>>

Move(c) ==
    /\ Doing("move", c) /\ MoveAside(c, "rollback")
    /\ Done /\ UNCHANGED <<journal, Rest>>

NoteMove(c) ==
    /\ Doing("note move", c)
    /\ journal' = [journal EXCEPT !.moved = @ \cup {c}]
    /\ Done /\ UNCHANGED <<live, aside, Rest>>

Place(c) ==
    /\ Doing("place", c) /\ PutBack(c, "new")
    /\ Done /\ UNCHANGED <<journal, Rest>>

\* Fault: the journal says committed as soon as the database is placed.
NotePlaceCommits(c) ==
    /\ Doing("note place", c)
    /\ journal' = [journal EXCEPT !.placed = @ \cup {c}, !.phase = "committed"]
    /\ Done /\ UNCHANGED <<live, aside, Rest>>

NotePlace(c) ==
    /\ Doing("note place", c)
    /\ journal' = [journal EXCEPT !.placed = @ \cup {c}]
    /\ Done /\ UNCHANGED <<live, aside, Rest>>

Commit ==
    /\ Doing("commit", "both")
    /\ journal' = [journal EXCEPT !.phase = "committed"]
    /\ Done /\ UNCHANGED <<live, aside, Rest>>

(* The staging tree is removed in any order and not at once, a lake file   *)
(* by file; then the journal.                                              *)
Empty == \A p \in Asides : aside[p] = Absent

RemoveManifest ==
    /\ Doing("clean", "both") /\ manifest
    /\ manifest' = FALSE
    /\ UNCHANGED <<live, serving, backup, journal, staged, aside, torn, control>>

RemoveAside(p, c) ==
    /\ Doing("clean", "both") /\ aside[p][c] # {}
    /\ \/ /\ aside' = [aside EXCEPT ![p][c] = {}]
          /\ torn' = IF c = "market" THEN torn \ {p} ELSE torn
       \/ /\ c = "market" /\ p \notin torn
          /\ torn' = torn \cup {p} /\ UNCHANGED aside
    /\ UNCHANGED <<live, serving, backup, journal, staged, manifest, control>>

\* Fault: the journal goes with the stage still there.
FinishCleanupJournalFirst ==
    /\ Doing("clean", "both")
    /\ journal' = NoJournal /\ Done
    /\ UNCHANGED <<live, serving, backup, stage, refused, crashes, restores, starting>>

\* Fault: without a stage there is nothing left to do.
FinishCleanupOfStage ==
    /\ Doing("clean", "both") /\ Empty /\ ~manifest
    /\ IF staged THEN staged' = FALSE ELSE UNCHANGED staged
    /\ Done
    /\ UNCHANGED <<live, serving, backup, journal, manifest, aside, torn, refused, crashes,
                   restores, starting>>

FinishCleanup ==
    /\ Doing("clean", "both") /\ Empty /\ ~manifest
    /\ IF staged THEN staged' = FALSE /\ UNCHANGED <<journal, todo>>
       ELSE journal' = NoJournal /\ Done /\ UNCHANGED staged
    /\ UNCHANGED <<live, serving, backup, manifest, aside, torn, refused, crashes, restores,
                   starting>>

--------------------------------------------------------------------------------
(* Recovery *)

Had(c) == journal.original[c] # {}
Holds(p, c, contents) == aside[p][c] = contents /\ ~(c = "market" /\ p \in torn)

(* What lies aside is whole and what the journal says it is.               *)
AsidesFit ==
    \A c \in Components :
        /\ aside["rollback"][c] # {} => Holds("rollback", c, journal.original[c])
        /\ aside["new"][c] # {} => Holds("new", c, journal.installed[c])
        /\ aside["discarded"][c] # {} => Holds("discarded", c, journal.installed[c])

LiveFits ==
    CASE journal.phase = "committed" -> Live = journal.installed
      [] journal.phase = "rolled_back" -> Live = journal.original
      [] OTHER -> \A c \in Components :
            LiveOf(c) \in {{}, journal.original[c], journal.installed[c]}

StageFits == IF staged THEN manifest ELSE journal.phase \in Final

RollBackSteps ==
    <<<<"reconcile move", "database">>, <<"reconcile place", "database">>,
      <<"reconcile move", "market">>, <<"reconcile place", "market">>,
      <<"discard", "market">>, <<"note discard", "market">>,
      <<"put back", "market">>, <<"note put back", "market">>,
      <<"discard", "database">>, <<"note discard", "database">>,
      <<"put back", "database">>, <<"note put back", "database">>,
      <<"rolled back", "both">>, <<"clean", "both">>>>

Refuse == todo' = <<>> /\ refused' = TRUE

\* Fault: an unfinished restore is cleaned up like a finished one.
BeginRecoveryByCleanup ==
    /\ ~serving /\ Idle /\ journal # NoJournal
    /\ IF StageFits /\ AsidesFit /\ LiveFits
       THEN todo' = <<<<"clean", "both">>>> /\ UNCHANGED refused
       ELSE Refuse
    /\ UNCHANGED <<live, serving, backup, journal, stage, crashes, restores, starting>>

BeginRecovery ==
    /\ ~serving /\ Idle /\ journal # NoJournal
    /\ IF StageFits /\ AsidesFit /\ LiveFits
       THEN /\ todo' = IF journal.phase \in Final THEN <<<<"clean", "both">>>> ELSE RollBackSteps
            /\ UNCHANGED refused
       ELSE Refuse
    /\ UNCHANGED <<live, serving, backup, journal, stage, crashes, restores, starting>>

Calm == <<backup, serving, staged, manifest, torn, crashes, restores, starting>>

\* Fault: only the journal says what has been moved.
ReconcileMoveAsNoted(c) ==
    /\ Doing("reconcile move", c)
    /\ Done /\ UNCHANGED <<journal, live, aside, refused, Calm>>

(* A crash between a rename and its note is found out by what lies where.  *)
ReconcileMove(c) ==
    /\ Doing("reconcile move", c)
    /\ IF c \in journal.moved \/ aside["rollback"][c] = {}
       THEN Done /\ UNCHANGED <<journal, refused>>
       ELSE IF Had(c) /\ LiveOf(c) = {} /\ aside["new"][c] = journal.installed[c]
       THEN /\ journal' = [journal EXCEPT !.moved = @ \cup {c}]
            /\ Done /\ UNCHANGED refused
       ELSE IF Had(c) /\ LiveOf(c) = journal.installed[c] /\ aside["new"][c] = {}
       THEN /\ journal' = [journal EXCEPT !.moved = @ \cup {c}, !.placed = @ \cup {c}]
            /\ Done /\ UNCHANGED refused
       ELSE Refuse /\ UNCHANGED journal
    /\ UNCHANGED <<live, aside, Calm>>

ReconcilePlace(c) ==
    /\ Doing("reconcile place", c)
    /\ journal' = IF /\ c \notin journal.placed
                     /\ journal.installed[c] # {} /\ LiveOf(c) = journal.installed[c]
                     /\ aside["new"][c] = {}
                     /\ c \in journal.moved \/ ~Had(c)
                  THEN [journal EXCEPT !.placed = @ \cup {c}] ELSE journal
    /\ Done /\ UNCHANGED <<live, aside, refused, Calm>>

Discard(c) ==
    /\ Doing("discard", c)
    /\ IF c \notin journal.placed \/ (LiveOf(c) = {} /\ aside["discarded"][c] # {})
       THEN Done /\ UNCHANGED <<live, aside, refused>>
       ELSE IF LiveOf(c) # {} /\ LiveOf(c) = journal.installed[c] /\ aside["discarded"][c] = {}
       THEN MoveAside(c, "discarded") /\ Done /\ UNCHANGED refused
       ELSE Refuse /\ UNCHANGED <<live, aside>>
    /\ UNCHANGED <<journal, Calm>>

NoteDiscard(c) ==
    /\ Doing("note discard", c)
    /\ journal' = [journal EXCEPT !.placed = @ \ {c}]
    /\ Done /\ UNCHANGED <<live, aside, refused, Calm>>

PutOldBack(c) ==
    /\ Doing("put back", c)
    /\ IF c \notin journal.moved
          \/ (aside["rollback"][c] = {} /\ LiveOf(c) = journal.original[c])
       THEN Done /\ UNCHANGED <<live, aside, refused>>
       ELSE IF aside["rollback"][c] = journal.original[c] /\ LiveOf(c) = {}
       THEN PutBack(c, "rollback") /\ Done /\ UNCHANGED refused
       ELSE Refuse /\ UNCHANGED <<live, aside>>
    /\ UNCHANGED <<journal, Calm>>

NotePutBack(c) ==
    /\ Doing("note put back", c)
    /\ journal' = [journal EXCEPT !.moved = @ \ {c}]
    /\ Done /\ UNCHANGED <<live, aside, refused, Calm>>

RolledBack ==
    /\ Doing("rolled back", "both")
    /\ journal' = [journal EXCEPT !.phase = "rolled_back"]
    /\ Done /\ UNCHANGED <<live, aside, refused, Calm>>

--------------------------------------------------------------------------------
PrepareStep ==
    \/ RequeueExpiredLeases \/ SaveRecoveryArchive \/ StageBackup \/ AbandonRestore
    \/ WriteJournal

RestoreStep ==
    \/ \E c \in Components : Move(c) \/ NoteMove(c) \/ Place(c) \/ NotePlace(c)
    \/ Commit

CleanupStep ==
    RemoveManifest \/ FinishCleanup \/ \E p \in Asides, c \in Components : RemoveAside(p, c)

RecoveryStep ==
    \/ \E c \in Components :
         \/ ReconcileMove(c) \/ ReconcilePlace(c)
         \/ Discard(c) \/ NoteDiscard(c) \/ PutOldBack(c) \/ NotePutBack(c)
    \/ RolledBack

Next ==
    \/ StartService \/ CreateDatabase \/ CreateLake \/ WriteRows \/ WriteLake
    \/ StopService \/ Crash
    \/ CopyDatabase \/ HoldMarketFiles
    \/ BeginRestore \/ PrepareStep \/ RestoreStep \/ CleanupStep
    \/ BeginRecovery \/ RecoveryStep

Spec == Init /\ [][Next]_vars

(* A restore that is not cut short goes on, or fails.  A start that meets  *)
(* a journal recovers first, and is tried again.                           *)
Fairness ==
    /\ WF_vars(PrepareStep \/ RestoreStep \/ CleanupStep \/ RecoveryStep)
    /\ WF_vars(BeginRecovery)

LiveSpec == Spec /\ Fairness

--------------------------------------------------------------------------------
(* Properties *)

(* The variables hold what they should; a journal exists whenever a rename *)
(* is still to be done, and the stage it names never outlives it, so that  *)
(* a stage without a journal is that of a restore that never wrote one.    *)
TypeOK ==
    /\ LakeTypeOK
    /\ rows \in 0..MaxRows
    /\ present \subseteq Components
    /\ {serving, staged, manifest, refused} \subseteq BOOLEAN
    /\ journal.phase \in {"none", "prepared"} \cup Final
    /\ {journal.moved, journal.placed} \subseteq SUBSET Components
    /\ torn \subseteq Asides
    /\ prep \in {"none", "locked", "requeued", "ready", "staged"}
    /\ strays \in 0..restores
    /\ ~Idle => ~serving
    /\ todo # <<>> \/ staged \/ ~Empty => journal # NoJournal

(* While services run, every dataset the catalogue lists can be read, and  *)
(* every dataset can be written again, through failed and interrupted      *)
(* writes and through restores of backups taken beside running writers     *)
(* (_write_locked, _recover_partition_publish, _create_backup_under_locks).*)
ServicesFindTheirFiles ==
    /\ serving /\ catalogue # {} => "market" \in present /\ CatalogueIsReadable
    /\ LeftoversAreRecoverable

(* Until a restore is committed or rolled back each original component is  *)
(* whole, in its place or aside, and afterwards the components in place    *)
(* are whole: no crash loses either pair.                                  *)
NothingIsLost ==
    /\ journal.phase = "prepared" =>
         \A c \in Components : LiveOf(c) = journal.original[c]
                                \/ Holds("rollback", c, journal.original[c])
    /\ journal.phase = "committed" => Live = journal.installed
    /\ journal.phase = "rolled_back" => Live = journal.original

(* Recovery refuses its own leftovers in two cases only: a cleanup that    *)
(* was cut short, and a component equal to the one it replaced whose       *)
(* rollback was cut short.                                                 *)
RefusesOnlyTornOrEqual ==
    refused =>
        \/ ~StageFits \/ ~AsidesFit
        \/ \E c \in Components : Had(c) /\ journal.original[c] = journal.installed[c]

(* From outside, a restore is one swap of the pair, after at most one      *)
(* transaction that settles the tasks of the database it is to replace     *)
(* (ImplementsSwap).  Until it is decided the old pair is seen.            *)
Outside == CASE journal.phase \in {"none"} -> Live
             [] journal.phase = "committed" -> journal.installed
             [] OTHER -> journal.original

(* A restore under way has been given its backup; another may be taken     *)
(* beside it when there was no database to lock.                           *)
Offered == IF prep # "none" THEN bundle
           ELSE IF journal.phase = "prepared" THEN {journal.installed} ELSE archive

Unsettled == prep = "locked"

Swap == INSTANCE OfflineSwap WITH
    pair <- Outside, open <- serving, offer <- Offered, unsettled <- Unsettled

(* Every step of a restore, of its preparation and of its recoveries, with *)
(* crashes anywhere between them, is a step of OfflineSwap or none         *)
(* (restore_backup, _restore_owned_components, recover_restore).           *)
ImplementsSwap == [][Swap!Next]_<<Outside, serving, Offered, Unsettled>>

(* A restore that has begun ends, and one that was interrupted is rolled   *)
(* back or finished by the next start, unless it is refused.               *)
RestoreIsDecided ==
    (prep # "none" \/ journal # NoJournal) ~> ((prep = "none" /\ journal = NoJournal) \/ refused)
================================================================================
