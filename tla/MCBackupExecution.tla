------------------------- MODULE MCBackupExecution -------------------------
(* TLC instances of BackupExecution.  Jobs are numbers: createdAt orders   *)
(* them, so they are not symmetric.                                        *)
EXTENDS BackupExecution
=============================================================================
