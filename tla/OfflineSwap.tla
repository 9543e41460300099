------------------------------ MODULE OfflineSwap ------------------------------
(***************************************************************************)
(* What restoring a backup promises.  A data directory has a database and  *)
(* a market lake that belong together.  Services change them while they    *)
(* run; a restore replaces both by the pair of the backup it was given, in *)
(* one step, and only while no service runs.  Before that it may settle    *)
(* the tasks that dead services left running, by one transaction of the    *)
(* database, which stays when the restore then fails.  Apart from that, a  *)
(* restore that is cut short at any point, and everything done to recover  *)
(* from it, either is the swap or changes nothing.                         *)
(***************************************************************************)
EXTENDS Naturals

VARIABLES
    pair,       \* the database and the market lake
    open,       \* services run
    offer,      \* the backup the next swap installs, if there is one
    unsettled   \* a restore has begun and not yet settled the tasks

vars == <<pair, open, offer, unsettled>>

Use     == open /\ open' /\ UNCHANGED <<offer, unsettled>>
Open    == ~open /\ open' /\ UNCHANGED <<pair, offer, unsettled>>
Close   == open /\ ~open' /\ UNCHANGED <<pair, offer, unsettled>>
Backup  == UNCHANGED <<pair, open, unsettled>>
Begin   == ~open /\ offer # {} /\ ~unsettled /\ unsettled' /\ UNCHANGED <<pair, open, offer>>
Skip    == unsettled /\ ~unsettled' /\ UNCHANGED <<pair, open>>
Settle  == /\ unsettled /\ ~unsettled' /\ ~open /\ UNCHANGED <<open, offer>>
           /\ \E db \in pair["database"] :
                pair' = [pair EXCEPT !["database"] = {[db EXCEPT !.rows = @ + 1]}]
Swap    == ~open /\ ~open' /\ ~unsettled /\ ~unsettled' /\ pair' \in offer

Next == Use \/ Open \/ Close \/ Backup \/ Begin \/ Skip \/ Settle \/ Swap
================================================================================
