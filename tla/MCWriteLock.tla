---- MODULE MCWriteLock ----
(* Instances of WriteLock for TLC. *)
EXTENDS WriteLock, TLC

CONSTANTS a1, a2, b1, b2, A, B

(* Two processes, two threads in each. *)
OfProcess == [o \in {a1, a2, b1, b2} |-> IF o \in {a1, a2} THEN A ELSE B]
Symmetric == Permutations(Inodes)
====
