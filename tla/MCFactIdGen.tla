---- MODULE MCFactIdGen ----
(* Instances of FactIdGen for TLC. *)
EXTENDS FactIdGen
====
