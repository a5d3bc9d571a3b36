---------------------------- MODULE MCRunActors ----------------------------
(* A small instance of RunActors for TLC. *)
EXTENDS RunActors, TLC

Symmetric == Permutations(Actor) \cup Permutations(Slot)
=============================================================================
