-------------------------- MODULE MCCollaboration --------------------------
(* A small instance of Collaboration: the slots are interchangeable.       *)
EXTENDS Collaboration, TLC

MCSymmetry == Permutations(Slot)

=============================================================================
