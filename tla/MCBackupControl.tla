-------------------------- MODULE MCBackupControl --------------------------
(* Instances of BackupControl for TLC. *)
EXTENDS BackupControl
=============================================================================
