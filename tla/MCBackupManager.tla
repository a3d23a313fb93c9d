-------------------------- MODULE MCBackupManager --------------------------
(* Model-checking instance of BackupManager: one caller beside the loops.  *)
EXTENDS BackupManager
=============================================================================
