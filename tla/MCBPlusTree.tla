----------------------------- MODULE MCBPlusTree -----------------------------
(***************************************************************************)
(* Instances of BPlusTree for TLC.  A node holds two items, so six keys    *)
(* reach three levels and every repair of leaves and of internal nodes.    *)
(***************************************************************************)
EXTENDS BPlusTree
=============================================================================
