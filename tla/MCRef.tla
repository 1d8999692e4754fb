------------------------------- MODULE MCRef -------------------------------
(* A registry of a few slots for TLC. *)
EXTENDS LuaRef, TLC

Symmetry == Permutations(Bases) \cup Permutations(Threads) \cup Permutations(Obj)
=============================================================================
