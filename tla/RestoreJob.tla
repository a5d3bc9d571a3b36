----------------------------- MODULE RestoreJob -----------------------------
(***************************************************************************)
(* One recovery restore into one vault: the D1 job and its entries, the    *)
(* staging objects in R2, the requests that upload, preview, confirm and   *)
(* apply it, and the hourly reaper.  The browser retries and a tab may be  *)
(* open twice, so requests of every kind overlap; each of their awaits is  *)
(* a boundary between two actions and any of them may end a request.       *)
(*                                                                         *)
(* What is abstracted.  A note's content and its hash are one value;       *)
(* restoreMarkdownNote compares and writes as one step (NoteWrites models  *)
(* its awaits); a materialization is what the vault held when it was       *)
(* captured.  The target hashes are written in D1 batches of               *)
(* ENTRY_BATCH_SIZE and here in one step.  Audit rows, quarantined source  *)
(* devices and the counts shown to the owner are left out, except the      *)
(* upload count, which is a guard.                                         *)
(***************************************************************************)
EXTENDS Naturals, Sequences, FiniteSets

CONSTANTS
    Notes,          \* number of notes in the backup; notes are 1..Notes
    Text,           \* other contents the target's notes may have
    Source,         \* content of the backup's note
    Absent,         \* the note does not exist (a NULL hash)
    Previewer,      \* POST .../complete requests
    Applier,        \* POST .../apply requests
    BatchSize,      \* APPLY_BATCH_SIZE
    Edited,         \* bound: the notes other people change
    MaxBuilds       \* bound: materializations asked for

ASSUME RestoreAssumption ==
    /\ Notes \in Nat \ {0} /\ BatchSize \in Nat \ {0}
    /\ Edited \subseteq 1..Notes /\ MaxBuilds \in Nat
    /\ Source \notin Text /\ Absent \notin Text /\ Source # Absent

Note == 1..Notes
Content == Text \cup {Source, Absent}

VARIABLES
    job,        \* the restore_jobs row
    entry,      \* restore_entries.status; "none": no such row
    target,     \* restore_entries.target_content_sha256
    object,     \* staging objects present in R2
    upload,     \* stageRestoreNote
    preview,    \* completeRestorePreview requests
    apply,      \* applyRestoreBatch requests
    reap,       \* cleanupExpiredRestores
    note,       \* the target's notes
    builds,     \* materialization jobs of the vault
    lineage,    \* restored_note_lineage
    expired,    \* expires_at has passed
    restored    \* history: notes the vault answered ok for

rows == <<job, entry, target>>
requests == <<upload, preview, apply, reap>>
outside == <<note, builds, expired>>
vars == <<rows, object, requests, outside, lineage, restored>>

Unlisted == [status |-> "none", uploaded |-> 0, build |-> 0, verified |-> 0]

IdleUpload == [pc |-> "idle", note |-> 1]
IdlePreview == [pc |-> "idle", build |-> 0]
Unread == [n \in Note |-> Absent]

IdleApply == [pc |-> "idle", todo |-> {}, expect |-> Unread, build |-> 0]
IdleReap == [pc |-> "idle", seen |-> "none"]

Entries(status) == {n \in Note : entry[n] = status}

\* The note an applier is at.
Current(a) == CHOOSE n \in apply[a].todo : \A m \in apply[a].todo : n <= m

\* A request ends: it answered, threw, or its Worker went away.
UploadAt(pc) == upload' = [upload EXCEPT !.pc = pc]
PreviewAt(p, pc) == preview' = [preview EXCEPT ![p].pc = pc]
ApplyAt(a, pc) == apply' = [apply EXCEPT ![a].pc = pc]
EndPreview(p) == preview' = [preview EXCEPT ![p] = IdlePreview]
EndApply(a) == apply' = [apply EXCEPT ![a] = IdleApply]

\* queueMaterialization: of what the vault holds now, finished or not.
QueueBuild(status) ==
    /\ Len(builds) < MaxBuilds
    /\ builds' = Append(builds, [status |-> status, notes |-> note, has |-> restored])

-----------------------------------------------------------------------------
(* Creating and uploading *)

CreateJob ==
    /\ job.status = "none" /\ ~expired
    /\ job' = [Unlisted EXCEPT !.status = "staging"]
    /\ UNCHANGED <<entry, target, object, requests, outside, lineage, restored>>

InsertEntries ==
    /\ job.status = "staging" /\ ~expired
    /\ \E batch \in SUBSET Entries("none") \ {{}} :
         entry' = [n \in Note |-> IF n \in batch THEN "pending" ELSE entry[n]]
    /\ UNCHANGED <<job, target, object, requests, outside, lineage, restored>>

CreateFailed ==
    /\ job.status = "staging" /\ Entries("none") # {} /\ ~expired
    /\ job' = [job EXCEPT !.status = "failed"]
    /\ UNCHANGED <<entry, target, object, requests, outside, lineage, restored>>

\* The browser knows the job once all its entries are listed.
BeginUpload(n) ==
    /\ upload.pc = "idle" /\ job.status = "staging" /\ ~expired
    /\ Entries("none") = {}
    /\ upload' = [pc |-> IF entry[n] = "pending" THEN "put" ELSE "count", note |-> n]
    /\ UNCHANGED <<rows, object, preview, apply, reap, outside, lineage, restored>>

PutObject ==
    /\ upload.pc = "put"
    /\ object' = object \cup {upload.note}
    /\ UploadAt("stage")
    /\ UNCHANGED <<rows, preview, apply, reap, outside, lineage, restored>>

MarkStaged ==
    /\ upload.pc = "stage"
    /\ entry' = [entry EXCEPT ![upload.note] = IF @ = "pending" THEN "staged" ELSE @]
    /\ UploadAt("count")
    /\ UNCHANGED <<job, target, object, preview, apply, reap, outside, lineage, restored>>

CountUploads ==
    /\ upload.pc = "count"
    /\ job' = IF job.status = "staging"
              THEN [job EXCEPT !.uploaded = Cardinality(Entries("staged") \cup Entries("applied"))]
              ELSE job
    /\ upload' = IdleUpload
    /\ UNCHANGED <<entry, target, object, preview, apply, reap, outside, lineage, restored>>

-----------------------------------------------------------------------------
(* Previewing and confirming *)

\* A materialization that did not fail is used as it is; a failed one is
\* taken off the row.
UsableBuild(b) == b # 0 /\ builds[b].status # "failed"

DropBuild(b) ==
    job' = IF job.build = b /\ job.status \in {"staging", "applying"}
           THEN [job EXCEPT !.build = 0]
           ELSE job

\* The row remembers a materialization that is not finished, unless the job
\* has moved on or remembers another.
RegisterBuild(b, status) ==
    job' = IF job.status = status /\ job.build = 0 THEN [job EXCEPT !.build = b] ELSE job

\* POST .../complete: use the row's materialization, or ask for one; answer
\* 202 while it is running.
BeginPreview(p) ==
    /\ preview[p].pc = "idle" /\ job.status = "staging" /\ Entries("none") = {}
    /\ IF UsableBuild(job.build)
       THEN /\ builds[job.build].status = "completed"
            /\ preview' = [preview EXCEPT ![p] = [pc |-> "compare", build |-> job.build]]
            /\ UNCHANGED job
       ELSE PreviewAt(p, "queue") /\ DropBuild(job.build)
    /\ UNCHANGED <<entry, target, object, upload, apply, reap, outside, lineage, restored>>

PreviewBuild(p) ==
    /\ preview[p].pc = "queue"
    /\ \E status \in {"queued", "completed"} :
         /\ QueueBuild(status)
         /\ preview' = [preview EXCEPT ![p] =
               [pc |-> IF status = "queued" THEN "register" ELSE "compare",
                build |-> Len(builds')]]
    /\ UNCHANGED <<rows, object, upload, apply, reap, note, expired, lineage, restored>>

PreviewPending(p) ==
    /\ preview[p].pc = "register"
    /\ RegisterBuild(preview[p].build, "staging")
    /\ EndPreview(p)
    /\ UNCHANGED <<entry, target, object, upload, apply, reap, outside, lineage, restored>>

\* completeRestorePreview reads the job and joins its entries with the
\* generation.
Compare(p) ==
    /\ preview[p].pc = "compare"
    /\ IF /\ job.status = "staging" /\ ~expired
          /\ job.uploaded = Notes /\ Cardinality(Entries("staged")) = Notes
       THEN PreviewAt(p, "targets")
       ELSE EndPreview(p)
    /\ UNCHANGED <<rows, object, upload, apply, reap, outside, lineage, restored>>

WriteTargets(p) ==
    /\ preview[p].pc = "targets"
    /\ target' = [n \in Note |->
                    IF entry[n] = "staged" THEN builds[preview[p].build].notes[n] ELSE target[n]]
    /\ PreviewAt(p, "preview")
    /\ UNCHANGED <<job, entry, object, upload, apply, reap, outside, lineage, restored>>

SetPreview(p) ==
    /\ preview[p].pc = "preview"
    /\ job' = IF job.status = "staging" THEN [job EXCEPT !.status = "preview"] ELSE job
    /\ EndPreview(p)
    /\ UNCHANGED <<entry, target, object, upload, apply, reap, outside, lineage, restored>>

BuildAfterConfirm == 0

Confirm ==
    /\ job.status = "preview" /\ ~expired
    /\ job' = [job EXCEPT !.status = "applying", !.build = BuildAfterConfirm]
    /\ UNCHANGED <<entry, target, object, requests, outside, lineage, restored>>

-----------------------------------------------------------------------------
(* applyRestoreBatch *)

BeginApply(a) ==
    /\ apply[a].pc = "idle" /\ job.status = "applying" /\ ~expired
    /\ apply' = [apply EXCEPT ![a] = [IdleApply EXCEPT !.pc = "select", !.build = job.build]]
    /\ UNCHANGED <<rows, object, upload, preview, reap, outside, lineage, restored>>

\* The first BatchSize staged entries, in order.
NextBatch ==
    {n \in Entries("staged") : Cardinality({m \in Entries("staged") : m < n}) < BatchSize}

Continue(todo) == IF todo = {} THEN "count" ELSE "fetch"

\* With the entries come the hashes previewed for them.
SelectBatch(a) ==
    /\ apply[a].pc = "select"
    /\ apply' = [apply EXCEPT ![a].todo = NextBatch, ![a].pc = Continue(NextBatch),
                   ![a].expect = [n \in Note |-> IF n \in NextBatch THEN target[n] ELSE Absent]]
    /\ UNCHANGED <<rows, object, upload, preview, reap, outside, lineage, restored>>

\* A missing object ends the request: restore_unavailable.
FetchObject(a) ==
    /\ apply[a].pc = "fetch"
    /\ IF Current(a) \in object THEN ApplyAt(a, "write") ELSE EndApply(a)
    /\ UNCHANGED <<rows, object, upload, preview, reap, outside, lineage, restored>>

\* restoreMarkdownNote: idempotent, and refused when the note has changed.
RestoreWrite(a) ==
    /\ apply[a].pc = "write"
    /\ LET n == Current(a)
       IN  IF note[n] \in {Source, apply[a].expect[n]}
           THEN /\ note' = [note EXCEPT ![n] = Source]
                /\ restored' = restored \cup {n}
                /\ ApplyAt(a, "record")
           ELSE ApplyAt(a, "stale") /\ UNCHANGED <<note, restored>>
    /\ UNCHANGED <<rows, object, upload, preview, reap, builds, expired, lineage>>

MarkRestoreFailed(a) ==
    /\ apply[a].pc = "stale"
    /\ job' = IF job.status = "applying" THEN [job EXCEPT !.status = "failed"] ELSE job
    /\ EndApply(a)
    /\ UNCHANGED <<entry, target, object, upload, preview, reap, outside, lineage, restored>>

\* (mutant) the entry stays staged
NotRecorded(n) == entry

Recorded(n) == [entry EXCEPT ![n] = IF @ = "staged" THEN "applied" ELSE @]

\* One batch: the entry, then its lineage while the job is being applied.  An
\* entry another request has recorded ends this one.
RecordApplied(a) ==
    /\ apply[a].pc = "record"
    /\ LET n == Current(a)
       IN  /\ entry' = Recorded(n)
           /\ lineage' = IF job.status = "applying" /\ entry'[n] = "applied"
                         THEN lineage \cup {n}
                         ELSE lineage
           /\ IF entry[n] = "staged" THEN ApplyAt(a, "delete") ELSE EndApply(a)
    /\ UNCHANGED <<job, target, object, upload, preview, reap, outside, restored>>

\* Best effort: a failed deletion is logged.
DeleteObject(a) ==
    /\ apply[a].pc = "delete"
    /\ object' \in {object, object \ {Current(a)}}
    /\ LET rest == apply[a].todo \ {Current(a)}
       IN  apply' = [apply EXCEPT ![a].todo = rest, ![a].pc = Continue(rest)]
    /\ UNCHANGED <<rows, upload, preview, reap, outside, lineage, restored>>

NoneRemaining == \A n \in Note : entry[n] \in {"applied", "none"}

CountRemaining(a) ==
    /\ apply[a].pc = "count"
    /\ IF NoneRemaining THEN ApplyAt(a, "build") ELSE EndApply(a)
    /\ UNCHANGED <<rows, object, upload, preview, reap, outside, lineage, restored>>

\* The materialization the row had when this request read it.
CheckBuild(a) ==
    /\ apply[a].pc = "build"
    /\ IF UsableBuild(apply[a].build)
       THEN /\ IF builds[apply[a].build].status = "completed"
               THEN ApplyAt(a, "complete")
               ELSE EndApply(a)
            /\ UNCHANGED job
       ELSE ApplyAt(a, "queue") /\ DropBuild(apply[a].build)
    /\ UNCHANGED <<entry, target, object, upload, preview, reap, outside, lineage, restored>>

ApplyBuild(a) ==
    /\ apply[a].pc = "queue"
    /\ \E status \in {"queued", "completed"} :
         /\ QueueBuild(status)
         /\ apply' = [apply EXCEPT
               ![a].pc = IF status = "queued" THEN "register" ELSE "complete",
               ![a].build = Len(builds')]
    /\ UNCHANGED <<rows, object, upload, preview, reap, note, expired, lineage, restored>>

ApplyPending(a) ==
    /\ apply[a].pc = "register"
    /\ RegisterBuild(apply[a].build, "applying")
    /\ EndApply(a)
    /\ UNCHANGED <<entry, target, object, upload, preview, reap, outside, lineage, restored>>

Complete(a) ==
    /\ apply[a].pc = "complete"
    /\ job' = IF job.status = "applying"
              THEN [job EXCEPT !.status = "applied", !.verified = apply[a].build, !.build = 0]
              ELSE job
    /\ EndApply(a)
    /\ UNCHANGED <<entry, target, object, upload, preview, reap, outside, lineage, restored>>

-----------------------------------------------------------------------------
(* cleanupExpiredRestores *)

ReapAt(pc) == reap' = [reap EXCEPT !.pc = pc]

ClaimCleanup ==
    /\ reap.pc = "idle" /\ expired
    /\ Entries("none") # Note
    /\ reap' = [pc |-> "objects", seen |-> job.status]
    /\ UNCHANGED <<rows, object, upload, preview, apply, outside, lineage, restored>>

\* Every recorded staging key.
ReapObjects ==
    /\ reap.pc = "objects"
    /\ object' = object \ {n \in Note : entry[n] # "none"}
    /\ ReapAt("status")
    /\ UNCHANGED <<rows, upload, preview, apply, outside, lineage, restored>>

\* (mutant) an unfinished job that was being applied is not failed
UnfinishedUnlessApplying == {"staging", "preview"}

Unfinished == {"staging", "preview", "applying"}

FailExpired ==
    /\ reap.pc = "status"
    /\ job' = CASE reap.seen \in Unfinished /\ job.status \in Unfinished ->
                     [job EXCEPT !.status = "failed", !.build = 0]
                [] reap.seen = "failed" /\ job.status = "failed" -> [job EXCEPT !.build = 0]
                [] OTHER -> job
    /\ ReapAt("entries")
    /\ UNCHANGED <<entry, target, object, upload, preview, apply, outside, lineage, restored>>

ReapEntries ==
    /\ reap.pc = "entries"
    /\ entry' = [n \in Note |-> "none"]
    /\ target' = [n \in Note |-> Absent]
    /\ reap' = IdleReap
    /\ UNCHANGED <<job, object, upload, preview, apply, outside, lineage, restored>>

-----------------------------------------------------------------------------
(* The surroundings *)

\* Someone edits, creates or deletes a note of the target.
Edit(n) ==
    /\ \E content \in Content \ {note[n]} : note' = [note EXCEPT ![n] = content]
    /\ UNCHANGED <<rows, object, requests, builds, expired, lineage, restored>>

BuildEnds(b) ==
    /\ builds[b].status = "queued"
    /\ \E status \in {"completed", "failed"} : builds' = [builds EXCEPT ![b].status = status]
    /\ UNCHANGED <<rows, object, requests, note, expired, lineage, restored>>

Expire ==
    /\ job.status # "none" /\ ~expired
    /\ expired' = TRUE
    /\ UNCHANGED <<rows, object, requests, note, builds, lineage, restored>>

\* Any call of a request may reject, or its Worker be evicted.
Abandon ==
    /\ \/ upload' = IdleUpload /\ UNCHANGED <<preview, apply, reap>>
       \/ \E p \in Previewer : EndPreview(p) /\ UNCHANGED <<upload, apply, reap>>
       \/ \E a \in Applier : EndApply(a) /\ UNCHANGED <<upload, preview, reap>>
       \/ reap' = IdleReap /\ UNCHANGED <<upload, preview, apply>>
    /\ UNCHANGED <<rows, object, outside, lineage, restored>>

Init ==
    /\ job = Unlisted
    /\ entry = [n \in Note |-> "none"] /\ target = [n \in Note |-> Absent]
    /\ object = {}
    /\ upload = IdleUpload
    /\ preview = [p \in Previewer |-> IdlePreview]
    /\ apply = [a \in Applier |-> IdleApply]
    /\ reap = IdleReap
    /\ note \in [Note -> Content] /\ \A n \in Note \ Edited : note[n] = Absent
    /\ builds = <<>> /\ lineage = {} /\ restored = {} /\ expired = FALSE

Upload ==
    \/ \E n \in Note : BeginUpload(n)
    \/ PutObject \/ MarkStaged \/ CountUploads

Preview(p) ==
    \/ BeginPreview(p) \/ PreviewBuild(p) \/ PreviewPending(p)
    \/ Compare(p) \/ WriteTargets(p) \/ SetPreview(p)

Apply(a) ==
    \/ BeginApply(a) \/ SelectBatch(a) \/ FetchObject(a) \/ RestoreWrite(a)
    \/ MarkRestoreFailed(a) \/ RecordApplied(a) \/ DeleteObject(a)
    \/ CountRemaining(a) \/ CheckBuild(a) \/ ApplyBuild(a) \/ ApplyPending(a)
    \/ Complete(a)

Reap == ClaimCleanup \/ ReapObjects \/ FailExpired \/ ReapEntries

Next ==
    \/ CreateJob \/ InsertEntries \/ CreateFailed
    \/ Upload \/ Confirm \/ Reap
    \/ \E p \in Previewer : Preview(p)
    \/ \E a \in Applier : Apply(a)
    \/ \E n \in Edited : Edit(n)
    \/ \E b \in 1..Len(builds) : BuildEnds(b)
    \/ Expire \/ Abandon

Spec == Init /\ [][Next]_vars

-----------------------------------------------------------------------------
(* Properties *)

TypeOK ==
    /\ job \in [status : {"none", "staging", "preview", "applying", "applied", "failed"},
                uploaded : 0..Notes, build : 0..Len(builds), verified : 0..Len(builds)]
    /\ entry \in [Note -> {"none", "pending", "staged", "applied"}]
    /\ target \in [Note -> Content]
    /\ object \subseteq Note
    /\ upload \in [pc : {"idle", "put", "stage", "count"}, note : Note]
    /\ preview \in [Previewer ->
         [pc : {"idle", "queue", "register", "compare", "targets", "preview"},
          build : 0..Len(builds)]]
    /\ apply \in [Applier ->
         [pc : {"idle", "select", "fetch", "write", "stale", "record", "delete",
                "count", "build", "queue", "register", "complete"},
          todo : SUBSET Note, expect : [Note -> Content], build : 0..Len(builds)]]
    /\ \A a \in Applier :
         apply[a].pc \in {"fetch", "write", "stale", "record", "delete"} => apply[a].todo # {}
    /\ reap \in [pc : {"idle", "objects", "status", "entries"},
                 seen : {"none", "staging", "preview", "applying", "applied", "failed"}]
    /\ note \in [Note -> Content]
    /\ builds \in Seq([status : {"queued", "completed", "failed"},
                      notes : [Note -> Content], has : SUBSET Note])
    /\ lineage \subseteq Note /\ restored \subseteq Note /\ expired \in BOOLEAN

(***************************************************************************)
(* A restore reported as applied wrote every note of the backup and tagged *)
(* every one with its lineage, although requests overlap, are repeated and *)
(* race the reaper, which deletes the entries whose count decides.         *)
(***************************************************************************)
AppliedIsComplete == job.status = "applied" => restored = Note /\ lineage = Note

(***************************************************************************)
(* The generation an applied restore reports as verified was captured      *)
(* after the last of its notes was written, not at the preview or half way.*)
(***************************************************************************)
VerifiedAfterRestore == job.status = "applied" => builds[job.verified].has = Note

(***************************************************************************)
(* A restore can be resumed whatever was interrupted: every entry still to *)
(* be applied has its staging object.                                      *)
(***************************************************************************)
Resumable ==
    ~expired /\ job.status \in {"staging", "preview", "applying"} =>
        Entries("staged") \subseteq object

(***************************************************************************)
(* The reaper finds a job by its entries, so deleting them never strands   *)
(* one that is unfinished: whatever requests and interrupted reapers did   *)
(* meanwhile, the job has ended as applied or failed by then.              *)
(***************************************************************************)
NoneStranded ==
    [][Entries("none") # Note /\ Entries("none")' = Note
         => job'.status \in {"applied", "failed"}]_vars

(***************************************************************************)
(* The state invariant of a restore: rows are well formed, a job recorded  *)
(* as applied has written and tagged every note, and the generation it     *)
(* names as verified was captured after the last of them (applyRestore),   *)
(* whichever requests were abandoned or overlapped.                        *)
(***************************************************************************)
RestoreInv == TypeOK /\ AppliedIsComplete /\ VerifiedAfterRestore

=============================================================================
