----------------------------- MODULE MCLeadRun -----------------------------
(* A small instance of LeadRun for TLC: two results that disagree, a review  *)
(* of the first, and in the second a request for an owner's action.          *)
EXTENDS LeadRun, TLC

CONSTANTS a1, a2, r1, r2, q1, p1

MCAuthor == (r1 :> a1) @@ (r2 :> a1) @@ (q1 :> a1) @@ (p1 :> a2)

MCEvent ==
    (r1 :> [kind |-> "result", value |-> 1, asks |-> FALSE])
    @@ (r2 :> [kind |-> "result", value |-> 2, asks |-> FALSE])
    @@ (q1 :> [kind |-> "request", target |-> r1, reviewer |-> a2, asks |-> FALSE])
    @@ (p1 :> [kind |-> "review", target |-> r1, passed |-> TRUE, asks |-> TRUE])

Symmetric == Permutations(Slot)
=============================================================================
