------------------------------ MODULE MarketLake ------------------------------
(***************************************************************************)
(* The market lake: bars are stored as one file per year of a dataset and  *)
(* become visible by one catalogue transaction for all its years.          *)
(*                                                                         *)
(* A file is written under a temporary name, linked to its final name and  *)
(* then unlinked from the temporary one, so that a process that dies may   *)
(* leave either name or both.  A dataset is named after its contents: who  *)
(* writes it again writes the same files, and cleans up what an earlier    *)
(* writer left.  One lock covers the whole lake, in every process; it is   *)
(* released with the process that holds it.                                *)
(***************************************************************************)
EXTENDS Naturals, FiniteSets

CONSTANTS
    Datasets,   \* dataset versions
    LastYear    \* a dataset has the years 1..LastYear

ASSUME YearsAssumption == LastYear \in Nat \ {0}

VARIABLES
    catalogue,  \* the datasets the database lists
    target,     \* the files present under their final names
    temp,       \* what is under the temporary name of a file: "none", a file
                \* of its "own", or an "alias" of the final one
    writer      \* the writer that holds the lock

lakeVars == <<catalogue, target, temp, writer>>

Years == 1..LastYear
Files == Datasets \X Years
NoFiles == [f \in Files |-> "none"]

NoWriter == [dataset |-> "none", year |-> 0, at |-> "idle", created |-> {}]
Steps == {"recover", "create", "link", "unlink", "commit", "undo"}
Writers == {NoWriter} \cup
    [dataset : Datasets, year : Years, at : Steps, created : SUBSET Years]

LakeTypeOK ==
    /\ catalogue \subseteq Datasets
    /\ target \subseteq Files
    /\ temp \in [Files -> {"none", "own", "alias"}]
    /\ writer \in Writers

At(step) == writer.at = step
File == <<writer.dataset, writer.year>>
GoTo(step) == writer' = [writer EXCEPT !.at = step]

(* The years that are not there yet are the ones a failure takes back.     *)
BeginWrite(d) ==
    /\ At("idle")
    /\ writer' = [dataset |-> d, year |-> 1, at |-> "recover",
                  created |-> {y \in Years : <<d, y>> \notin target}]
    /\ UNCHANGED <<catalogue, target, temp>>

NextYear ==
    writer' = IF writer.year = LastYear THEN [writer EXCEPT !.at = "commit"]
              ELSE [writer EXCEPT !.at = "recover", !.year = @ + 1]

(* A temporary name is removed when there is no final one, or when it is   *)
(* an alias of it; beside a file it does not belong to it is an error.     *)
RecoverPublish ==
    /\ At("recover")
    /\ IF File \in target /\ temp[File] = "own"
       THEN GoTo("undo") /\ UNCHANGED temp
       ELSE /\ temp' = [temp EXCEPT ![File] = "none"]
            /\ IF File \in target THEN NextYear ELSE GoTo("create")
    /\ UNCHANGED <<catalogue, target>>

CreateTemp ==
    /\ At("create")
    /\ temp' = [temp EXCEPT ![File] = "own"]
    /\ GoTo("link")
    /\ UNCHANGED <<catalogue, target>>

LinkTarget ==
    /\ At("link")
    /\ IF File \in target
       THEN temp' = [temp EXCEPT ![File] = "none"] /\ NextYear /\ UNCHANGED target
       ELSE /\ target' = target \cup {File}
            /\ temp' = [temp EXCEPT ![File] = "alias"]
            /\ GoTo("unlink")
    /\ UNCHANGED catalogue

UnlinkTemp ==
    /\ At("unlink")
    /\ temp' = [temp EXCEPT ![File] = "none"]
    /\ NextYear
    /\ UNCHANGED <<catalogue, target>>

(* A file can be read when it has one link. *)
Readable(d) == \A y \in Years : <<d, y>> \in target /\ temp[<<d, y>>] = "none"

CommitCatalog ==
    /\ At("commit") /\ Readable(writer.dataset)
    /\ catalogue' = catalogue \cup {writer.dataset}
    /\ writer' = NoWriter
    /\ UNCHANGED <<target, temp>>

(* Generating, copying, checking or committing fails. *)
WriteFails ==
    /\ writer.at \in {"create", "link", "unlink", "commit"}
    /\ temp' = [temp EXCEPT ![File] = "none"]
    /\ GoTo("undo")
    /\ UNCHANGED <<catalogue, target>>

\* Fault: a failed write takes back every year it has published.
ToUndoPublished == {y \in Years : y <= writer.year /\ <<writer.dataset, y>> \in target}

ToUndo == {y \in writer.created : <<writer.dataset, y>> \in target}

Undo ==
    /\ At("undo")
    /\ IF ToUndo = {} THEN writer' = NoWriter /\ UNCHANGED target
       ELSE /\ \E y \in ToUndo : target' = target \ {<<writer.dataset, y>>}
            /\ UNCHANGED writer
    /\ UNCHANGED <<catalogue, temp>>

LakeStep ==
    \/ \E d \in Datasets : BeginWrite(d)
    \/ RecoverPublish \/ CreateTemp \/ LinkTarget \/ UnlinkTemp
    \/ CommitCatalog \/ WriteFails \/ Undo

--------------------------------------------------------------------------------
(* What the catalogue lists can be read, whoever writes, fails or dies     *)
(* meanwhile (_write_locked, _cleanup_published_partitions).               *)
CatalogueIsReadable == \A d \in catalogue : Readable(d)

(* Nothing that a writer leaves behind keeps the next one from writing:    *)
(* _recover_partition_publish never meets a temporary file that is none of *)
(* its own, nor does the link ever find the name taken.                    *)
LeftoversAreRecoverable ==
    \A f \in Files : f \in target => temp[f] # "own"
================================================================================
