---------------------------- MODULE MCPagedTable ----------------------------
(***************************************************************************)
(* Instances of PagedTable for TLC.  Four cells to a payload: a leaf holds *)
(* two to four entries and an internal node three to five children, so a   *)
(* handful of rows splits leaves, internal nodes and the root.  The rows   *)
(* give the two indexes their keys in different orders; the shortest may   *)
(* fit in pages that are there, so that an insert appends none.            *)
(***************************************************************************)
EXTENDS PagedTable

MCRows == {<<1, 1>>, <<1, 3>>, <<2, 1>>, <<3, 2>>}
=============================================================================
