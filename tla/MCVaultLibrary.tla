--------------------------- MODULE MCVaultLibrary ---------------------------
(* Model-checking instance of VaultLibrary: handlers are interchangeable.  *)
EXTENDS VaultLibrary, TLC

Symmetry == Permutations(Handler)

=============================================================================
