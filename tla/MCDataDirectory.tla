---------------------------- MODULE MCDataDirectory ----------------------------
EXTENDS DataDirectory
(* Backups of an empty directory, without a lake and with an empty one,    *)
(* and the backup of another directory that holds the same dataset.        *)
EmptyAndOther ==
    {BackupOf([catalogue |-> {}, rows |-> 0], FALSE),
     BackupOf([catalogue |-> {}, rows |-> 0], TRUE),
     BackupOf([catalogue |-> Datasets, rows |-> 0], TRUE)}
================================================================================
