----------------------------- MODULE MCStorageV2 -----------------------------
(***************************************************************************)
(* Instances of StorageV2 for TLC: the bounds and the failure model of     *)
(* each run are in its .cfg.                                               *)
(***************************************************************************)
EXTENDS StorageV2
=============================================================================
