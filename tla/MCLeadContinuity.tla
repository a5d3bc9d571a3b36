-------------------------- MODULE MCLeadContinuity --------------------------
(* Small instances of LeadContinuity for TLC. *)
EXTENDS LeadContinuity, TLC

Intervals == [k \in Kind |-> IF k = "point" THEN 1 ELSE 1]

Symmetric == Permutations(Lead) \cup Permutations(Key) \cup Permutations(Slot) \cup Permutations(Cron)
=============================================================================
