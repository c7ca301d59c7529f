---------------------------- MODULE MCSqlCommand ----------------------------
(***************************************************************************)
(* Instances of SqlCommand for TLC.  One field and two cell values are     *)
(* enough to tell filters apart: "a = 1" selects one record, "a = a" none, *)
(* "1 = a" names no field.                                                 *)
(***************************************************************************)
EXTENDS WhereMeaning
=============================================================================
