------------------------------ MODULE DocStore ------------------------------
(***************************************************************************)
(* What the document store promises: one checkpoint with its state vector  *)
(* and a journal of updates appended since, replaced as a whole by the     *)
(* next checkpoint.  VaultPersistence uses the store through these two     *)
(* operations; ChunkedDocStore shows how they are kept in key-value pairs. *)
(***************************************************************************)
EXTENDS Sequences

CONSTANTS Payload, StateVector

VARIABLES
    checkpoint,     \* <<>> before the first one, else <<[update, sv]>>
    journal         \* updates in the order they were appended

vars == <<checkpoint, journal>>

Init == checkpoint = <<>> /\ journal = <<>>

AppendUpdate(u) ==
    /\ journal' = Append(journal, u)
    /\ UNCHANGED checkpoint

RewriteCheckpoint(u, sv) ==
    /\ checkpoint' = <<[update |-> u, sv |-> sv]>>
    /\ journal' = <<>>

Next ==
    \/ \E u \in Payload : AppendUpdate(u)
    \/ \E u \in Payload, sv \in StateVector : RewriteCheckpoint(u, sv)

Spec == Init /\ [][Next]_vars

=============================================================================
