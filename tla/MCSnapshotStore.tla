-------------------------- MODULE MCSnapshotStore --------------------------
(***************************************************************************)
(* Small instance of SnapshotStore for TLC.                                *)
(***************************************************************************)
EXTENDS SnapshotStore, TLC

CONSTANTS c1, c2, n1, n2, r1, r2_, none

MCSlot == {c1, c2}

\* What a capture finds: the content only the oldest snapshot has.
MCContent == {n1}
MCRecipient == {r1, r2_}

\* Three snapshots are there, the last two of one content.
MCBefore == 1 :> n1 @@ 2 :> n2 @@ 3 :> n2

\* R2 may lose what the newest of them uses, which it shares with the second.
MCFrail == {3}

MCSymmetry == Permutations(MCSlot)

=============================================================================
