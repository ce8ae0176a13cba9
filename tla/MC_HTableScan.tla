--------------------------- MODULE MC_HTableScan ---------------------------
(***************************************************************************)
(* Model-checking instance of HTableScan: two rows, up to three qualifiers *)
(* and three timestamps, so that a table (any subset of the cells) has     *)
(* several versions per column, columns before, between and after the     *)
(* requested ones, and rows whose result spans more than one call.         *)
(***************************************************************************)
EXTENDS HTableScan

MC_Rows == {1, 2}
MC_Quals3 == {1, 2, 3}
MC_Quals2 == {1, 2}
MC_Stamps2 == {1, 2}
MC_Stamps3 == {1, 2, 3}
MC_Stamps4 == {1, 2, 3, 4}
\* limit_per_row_per_cf_ / batch_size_ / max_result_size_ value meaning "no limit"
MC_Unlimited == -1
=============================================================================
