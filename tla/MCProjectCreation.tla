------------------------- MODULE MCProjectCreation -------------------------
(* A small instance of ProjectCreation for TLC: one agent asks twice for the *)
(* same name, written differently.                                           *)
EXTENDS ProjectCreation, TLC

CONSTANTS r1, r2, g1, d1, t1, t2

MCGrant == (r1 :> g1) @@ (r2 :> g1)
MCDraft == (r1 :> d1) @@ (r2 :> d1)
MCTitle == (r1 :> t1) @@ (r2 :> t2)

Symmetric == Permutations(Slot)
=============================================================================
