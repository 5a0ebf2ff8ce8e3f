----------------------------- MODULE MCBackupRun -----------------------------
(***************************************************************************)
(* Instances of BackupRun and BackupRefines for TLC.                       *)
(***************************************************************************)
EXTENDS BackupRefines, TLC

(* Snapshots two days apart.                                               *)
EveryOtherDay == [t \in Timestamps |-> 2 * t]

=============================================================================
