---------------------------- MODULE DurableVault ----------------------------
(***************************************************************************)
(* What a vault promises its clients about durability, with no queue,      *)
(* journal, checkpoint or failure: state that has been stored stays        *)
(* stored, and only stored state is ever reported durable.                 *)
(***************************************************************************)
CONSTANT Struct

VARIABLES
    inserted,   \* structs that survive an eviction
    deleted,    \* deletions that survive an eviction
    reported    \* structs some client was told are durable

vars == <<inserted, deleted, reported>>

Init == inserted = {} /\ deleted = {} /\ reported = {}

\* Storing may add any state, and takes nothing away.
Store ==
    /\ inserted \subseteq inserted' /\ inserted' \subseteq Struct
    /\ deleted \subseteq deleted' /\ deleted' \subseteq Struct
    /\ UNCHANGED reported

\* A report covers stored structs only.
Report ==
    /\ reported \subseteq reported' /\ reported' \subseteq inserted
    /\ UNCHANGED <<inserted, deleted>>

Next == Store \/ Report

Spec == Init /\ [][Next]_vars

=============================================================================
