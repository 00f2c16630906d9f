---- MODULE MCFactIndex ----
(* Instances of FactIndex for TLC.  Fact ids are numbers, for their order. *)
EXTENDS FactIndex, TLC

Symmetric == Permutations(Clients) \cup Permutations(Slots)
====
