----------------------------- MODULE MCKeyPool -----------------------------
(* Finite instances of KeyPool for TLC. *)
EXTENDS KeyPool, TLC

CallerSymmetry == Permutations(Callers)
============================================================================
