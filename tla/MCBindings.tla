----------------------------- MODULE MCBindings -----------------------------
(* Two threads of a host program, and the bounds of the run: two objects, so   *)
(* that a database is opened again while or after its first handle lives, and  *)
(* four calls, so that both threads fail, one after the other and overlapping. *)
EXTENDS Bindings, TLC

CONSTANTS t1, t2

MCThreads == {t1, t2}
MCSymmetry == Permutations(MCThreads)

=============================================================================
