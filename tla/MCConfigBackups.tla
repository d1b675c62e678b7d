-------------------------- MODULE MCConfigBackups ---------------------------
(* TLC instance of ConfigBackups. *)
EXTENDS ConfigBackups

AllExceptions == {"same_second", "backup_failed", "unchecked", "stale_list", "copy_failed",
                  "client_deleted", "delete_failed"}
=============================================================================
