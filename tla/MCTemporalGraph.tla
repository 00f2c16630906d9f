---- MODULE MCTemporalGraph ----
(* Instances of TemporalGraph for TLC. *)
EXTENDS TemporalGraph, Naturals, TLC

(* Told apart only by being different. *)
Symmetric ==
    Permutations(FactIds) \cup Permutations(Clients)
    \cup Permutations(Objects) \cup Permutations(Dims)

(* A state with more than one record in doubt is checked and not continued. *)
OneInDoubt == Cardinality(doubt.facts) + Cardinality(doubt.registry) <= 1
====
