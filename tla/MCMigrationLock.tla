-------------------------- MODULE MCMigrationLock --------------------------
(***************************************************************************)
(* Instances of MigrationLock for TLC.                                     *)
(***************************************************************************)
EXTENDS MigrationLock

CONSTANTS engine, engine2, migrate
=============================================================================
