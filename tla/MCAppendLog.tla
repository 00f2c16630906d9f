---- MODULE MCAppendLog ----
(* Instances of AppendLog for TLC: the cfg files choose the faults, the     *)
(* kinds of records and the bound on the file.  No symmetry: compaction     *)
(* picks an order of the records with CHOOSE.                               *)
EXTENDS AppendLog
====
