----------------------------- MODULE NoteWrites -----------------------------
(***************************************************************************)
(* Optimistic writes to one path of a vault's live document: web edits     *)
(* that name the version they were made from, web creations, and restore   *)
(* writes that name the content they expect.  Each reads the document,     *)
(* awaits digests and a D1 query while clients go on editing, and then     *)
(* compares state vectors before it applies its transaction.               *)
(*                                                                         *)
(* What is abstracted.  A note's text is a set of passages; a version      *)
(* binds file and text.  A state vector is only ever compared with an      *)
(* older one of the same document, so a request keeps a flag that is       *)
(* raised by every change that inserts structs; erasing a passage inserts  *)
(* none.  Other paths (a rename is a deletion here and a creation there),  *)
(* size bounds and the save that follows the transaction                   *)
(* (VaultPersistence) are left out.                                        *)
(***************************************************************************)
EXTENDS Naturals, FiniteSets

CONSTANTS
    Files,          \* bound: file identities, 1..Files
    Passage,        \* passages of text
    Clock,          \* modification times
    Editor,         \* writeMarkdownNote with an expected version
    Creator,        \* writeMarkdownNote without one
    Restorer,       \* restoreMarkdownNote
    Attempts,       \* rounds of each retry loop
    InFlight        \* bound: requests in flight at once

ASSUME NoteAssumption ==
    /\ Files \in Nat \ {0} /\ Attempts \in Nat \ {0} /\ InFlight \in Nat
    /\ Clock \subseteq Nat /\ Clock # {}
    /\ Editor \cap Restorer = {} /\ Creator \cap (Editor \cup Restorer) = {}

File == 1..Files
Text == SUBSET Passage
Request == Editor \cup Creator \cup Restorer

VARIABLES
    file,       \* metadata and text of the path's file identities
    active,     \* the vault's status in D1
    call        \* requests in flight

vars == <<file, active, call>>

Unused == [state |-> "none", mtime |-> 0, text |-> {}]

\* What is left of a deleted file: its text is never looked at again.
Tombstone == [Unused EXCEPT !.state = "deleted"]

NoFile == 0

NoCall == [pc |-> "idle", id |-> NoFile, expected |-> {}, content |-> {},
           seenId |-> NoFile, seen |-> {}, moved |-> FALSE, inner |-> 1, outer |-> 1]

InState(s) == {f \in File : file[f].state = s}

\* extractMaterializedSnapshot: of several active files with one path the one
\* modified last, then the one with the greater identity.
Newer(f, g) ==
    \/ file[f].mtime > file[g].mtime
    \/ file[f].mtime = file[g].mtime /\ f >= g

NoteId ==
    IF InState("active") = {} THEN NoFile
    ELSE CHOOSE f \in InState("active") : \A g \in InState("active") : Newer(f, g)

NoteText == IF NoteId = NoFile THEN {} ELSE file[NoteId].text

\* Requests that hold a state vector they will compare.
Comparing(r, c) ==
    r \notin Creator /\ c.pc \in {"captured", "compare", "version", "apply"}

\* A transaction that inserts structs moves the document's state vector.
Transact(new, calls) ==
    /\ file' = new
    /\ call' = [r \in Request |-> [calls[r] EXCEPT !.moved = @ \/ Comparing(r, calls[r])]]

-----------------------------------------------------------------------------
(* Requests *)

At(r, pc) == call' = [call EXCEPT ![r].pc = pc]

Answer(r) == call' = [call EXCEPT ![r] = NoCall]

\* The editor read this version some time before it sends the new text.
BeginUpdate(r, content) ==
    /\ call[r].pc = "idle" /\ NoteId # NoFile
    /\ call' = [call EXCEPT ![r] = [NoCall EXCEPT
          !.pc = "capture", !.id = NoteId, !.expected = NoteText, !.content = content]]
    /\ UNCHANGED <<file, active>>

\* captureStableLiveNote: read the note, then await its version.
Capture(r) ==
    /\ call[r].pc = "capture"
    /\ IF NoteId = NoFile
       THEN Answer(r)
       ELSE call' = [call EXCEPT ![r].pc = "captured",
                                 ![r].seenId = NoteId, ![r].seen = NoteText]
    /\ UNCHANGED <<file, active>>

Again(round) == round < Attempts

\* What was read is read again.
Afresh(c, pc, inner, outer) ==
    [c EXCEPT !.pc = pc, !.inner = inner, !.outer = outer,
              !.seenId = NoFile, !.seen = {}, !.moved = FALSE]

Captured(r) ==
    /\ call[r].pc = "captured"
    /\ IF ~call[r].moved
       THEN call' = [call EXCEPT ![r].pc = "version", ![r].inner = 1]
       ELSE IF Again(call[r].inner)
            THEN call' = [call EXCEPT ![r] = Afresh(@, "capture", @.inner + 1, @.outer)]
            ELSE Answer(r)
    /\ UNCHANGED <<file, active>>

\* Awaits the new version's digest and isVaultActive.
CheckActive(r) ==
    /\ call[r].pc = "version"
    /\ IF active THEN At(r, "apply") ELSE Answer(r)
    /\ UNCHANGED <<file, active>>

\* (mutant) the document is not looked at again after the last await
NeverMoved(r) == FALSE

Moved(r) == call[r].moved

\* (mutant) the rounds are not counted
RetryForever(r, pc) == call' = [call EXCEPT ![r] = Afresh(@, pc, 1, 1)]

Retry(r, pc) ==
    IF Again(call[r].outer)
    THEN call' = [call EXCEPT ![r] = Afresh(@, pc, 1, @.outer + 1)]
    ELSE Answer(r)

SameVersion(r) == call[r].seenId = call[r].id /\ call[r].seen = call[r].expected

Replace(r, mtime) ==
    Transact([file EXCEPT ![call[r].seenId] =
                [state |-> "active", mtime |-> mtime, text |-> call[r].content]],
             [call EXCEPT ![r] = NoCall])

\* applyMarkdownNoteWrite, in one transaction with the checks before it.
ApplyUpdate(r) ==
    /\ r \in Editor /\ call[r].pc = "apply"
    /\ IF Moved(r) THEN Retry(r, "capture") /\ UNCHANGED file
       ELSE IF SameVersion(r) THEN \E now \in Clock : Replace(r, now)
       ELSE Answer(r) /\ UNCHANGED file
    /\ UNCHANGED active

NewFile(r, id, mtime, files) ==
    [files EXCEPT ![id] = [state |-> "active", mtime |-> mtime, text |-> call[r].content]]

BeginCreate(r, content) ==
    /\ call[r].pc = "idle"
    /\ call' = [call EXCEPT ![r] = [NoCall EXCEPT !.pc = "version", !.content = content]]
    /\ UNCHANGED <<file, active>>

\* Refused when the path has a note or a tombstone.
ApplyCreate(r) ==
    /\ r \in Creator /\ call[r].pc = "apply"
    /\ IF InState("active") \cup InState("deleted") = {}
       THEN \E id \in InState("none"), now \in Clock :
              Transact(NewFile(r, id, now, file), [call EXCEPT ![r] = NoCall])
       ELSE Answer(r) /\ UNCHANGED file
    /\ UNCHANGED active

\* A restore entry: new content, and the previewed content (id NoFile: the
\* preview saw no note).
BeginRestore(r, content) ==
    /\ call[r].pc = "idle"
    /\ call' = [call EXCEPT ![r] = [NoCall EXCEPT
          !.pc = "read", !.id = NoteId, !.expected = NoteText, !.content = content]]
    /\ UNCHANGED <<file, active>>

ReadForRestore(r) ==
    /\ call[r].pc = "read"
    /\ call' = [call EXCEPT ![r].pc = "compare",
                            ![r].seenId = NoteId, ![r].seen = NoteText]
    /\ UNCHANGED <<file, active>>

\* After the digest of the content that was read.
Restorable(r) ==
    \/ call[r].seenId = NoFile /\ call[r].id = NoFile
    \/ call[r].seenId # NoFile /\ call[r].seen = call[r].content
    \/ call[r].seenId # NoFile /\ call[r].id # NoFile /\ call[r].seen = call[r].expected

Compare(r) ==
    /\ call[r].pc = "compare"
    /\ IF Restorable(r) THEN At(r, "version") ELSE Answer(r)
    /\ UNCHANGED <<file, active>>

\* removePathTombstones.
WithoutTombstones == [f \in File |-> IF file[f].state = "deleted" THEN Unused ELSE file[f]]

\* applyMarkdownNoteRestore: recreate, leave alone what is restored already,
\* or replace.
ApplyRestore(r) ==
    /\ r \in Restorer /\ call[r].pc = "apply"
    /\ IF Moved(r) THEN Retry(r, "read") /\ UNCHANGED file
       ELSE IF call[r].seenId = NoFile
       THEN \E id \in InState("none") \cup InState("deleted"), mtime \in Clock :
              Transact(NewFile(r, id, mtime, WithoutTombstones), [call EXCEPT ![r] = NoCall])
       ELSE IF call[r].seen = call[r].content
       THEN Answer(r) /\ UNCHANGED file
       ELSE \E mtime \in Clock : Replace(r, mtime)
    /\ UNCHANGED active

-----------------------------------------------------------------------------
(* What clients and the owner do meanwhile *)

Insert(f, p, mtime) ==
    /\ file[f].state = "active" /\ p \notin file[f].text
    /\ Transact([file EXCEPT ![f].text = @ \cup {p}, ![f].mtime = mtime], call)
    /\ UNCHANGED active

\* Deleting characters inserts nothing.
Erase(f, p) ==
    /\ file[f].state = "active" /\ p \in file[f].text
    /\ file' = [file EXCEPT ![f].text = @ \ {p}]
    /\ UNCHANGED <<active, call>>

ClientCreates(f, text, mtime) ==
    /\ file[f].state = "none"
    /\ Transact([file EXCEPT ![f] = [state |-> "active", mtime |-> mtime, text |-> text]], call)
    /\ UNCHANGED active

ClientDeletes(f) ==
    /\ file[f].state = "active"
    /\ Transact([file EXCEPT ![f] = Tombstone], call)
    /\ UNCHANGED active

Revoke ==
    /\ active /\ active' = FALSE
    /\ UNCHANGED <<file, call>>

Evict ==
    /\ call' = [r \in Request |-> NoCall]
    /\ UNCHANGED <<file, active>>

Init ==
    /\ file = [f \in File |-> Unused]
    /\ active = TRUE
    /\ call = [r \in Request |-> NoCall]

Step(r) ==
    \/ Capture(r) \/ Captured(r) \/ CheckActive(r)
    \/ ReadForRestore(r) \/ Compare(r)
    \/ ApplyUpdate(r) \/ ApplyCreate(r) \/ ApplyRestore(r)

Client ==
    \E f \in File :
       \/ \E p \in Passage, mtime \in Clock : Insert(f, p, mtime)
       \/ \E p \in Passage : Erase(f, p)
       \/ \E text \in Text, mtime \in Clock : ClientCreates(f, text, mtime)
       \/ ClientDeletes(f)

Begin ==
    /\ Cardinality({r \in Request : call[r].pc # "idle"}) < InFlight
    /\ \E content \in Text :
         \/ \E r \in Editor : BeginUpdate(r, content)
         \/ \E r \in Creator : BeginCreate(r, content)
         \/ \E r \in Restorer : BeginRestore(r, content)

Next ==
    \/ Begin \/ Client \/ Revoke \/ Evict
    \/ \E r \in Request : Step(r)

Spec == Init /\ [][Next]_vars

-----------------------------------------------------------------------------
(* Properties *)

TypeOK ==
    /\ file \in [File -> [state : {"none", "active", "deleted"},
                          mtime : {0} \cup Clock, text : Text]]
    /\ active \in BOOLEAN
    /\ call \in [Request ->
         [pc : {"idle", "capture", "captured", "version", "apply", "read", "compare"},
          id : {NoFile} \cup File, expected : Text, content : Text,
          seenId : {NoFile} \cup File, seen : Text, moved : BOOLEAN,
          inner : 1..Attempts, outer : 1..Attempts]]

\* A web edit or restore replaces the path's note in this step.
Writes(r) == call[r].pc = "apply" /\ call'[r] = NoCall /\ file' # file

(***************************************************************************)
(* Nothing its author has not seen is lost.  An edit replaces the file it  *)
(* was made from, which is still the path's live note, and every passage   *)
(* it discards was in the version it names: a note that was deleted, or    *)
(* recreated with the same text, during the awaits is not overwritten.  A  *)
(* restore replaces only passages the preview or the backup had, and it    *)
(* revives or recreates a note only where none is live.                    *)
(***************************************************************************)
NothingUnseenLost ==
    [][/\ \A r \in Editor : Writes(r) =>
             NoteId = call[r].id /\ NoteText \subseteq call[r].expected
       /\ \A r \in Restorer : Writes(r) =>
             \/ NoteId = NoFile /\ call[r].id = NoFile
             \/ NoteId # NoFile /\ \/ NoteText \subseteq call[r].expected
                                   \/ NoteText \subseteq call[r].content]_vars

\* What a request may still have to do, were it to retry whenever it can.
Remaining(c) ==
    LET stage == CASE c.pc = "idle"                  -> 0
                   [] c.pc = "apply"                 -> 1
                   [] c.pc = "version"               -> 2
                   [] c.pc \in {"captured", "compare"} -> 3 + 2 * (Attempts - c.inner)
                   [] c.pc \in {"capture", "read"}    -> 4 + 2 * (Attempts - c.inner)
    IN  IF c.pc = "idle" THEN 0 ELSE stage + (Attempts - c.outer) * (2 * Attempts + 2)

(***************************************************************************)
(* Clients who never stop typing cannot keep a request in its retry loops: *)
(* what it has left to do is a number, and every step of it leaves less,   *)
(* however the two loops are nested and whatever moved the document.       *)
(***************************************************************************)
EveryStepCounts ==
    [][\A r \in Request : call[r].pc # "idle" /\ call'[r].pc # call[r].pc
         => Remaining(call[r]) \in Nat /\ Remaining(call'[r]) < Remaining(call[r])]_vars

=============================================================================
