----------------------------- MODULE MCMigration -----------------------------
(***************************************************************************)
(* Instances of Migration for TLC.  A power loss leaves at most one        *)
(* temporary for each of the two migrations; with the ones they retry with *)
(* and a destination, five inodes are enough for one failure.              *)
(***************************************************************************)
EXTENDS Migration
=============================================================================
