---------------------------- MODULE MCRestoreJob ----------------------------
(* Model-checking instance of RestoreJob: requests are interchangeable.    *)
EXTENDS RestoreJob, TLC

Symmetry == Permutations(Previewer) \cup Permutations(Applier)

=============================================================================
