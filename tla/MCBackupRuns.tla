---------------------------- MODULE MCBackupRuns ----------------------------
(* Values for BackupRuns small enough for TLC. *)
EXTENDS BackupRuns

=============================================================================
