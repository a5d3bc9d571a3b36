------------------------- MODULE MCVaultPersistence -------------------------
(* Model-checking instance of VaultPersistence.  The configurations choose *)
(* thresholds small enough for every save strategy to be taken.            *)
EXTENDS VaultPersistence

=============================================================================
