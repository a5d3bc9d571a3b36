-------------------------- MODULE RestoreJobProofs --------------------------
(***************************************************************************)
(* Proofs about RestoreJob, for any backup, requests and materializations, *)
(* and about ProjectCreation, for any requests, grants, policies and       *)
(* calls.                                                                  *)
(***************************************************************************)
EXTENDS RestoreJob, ProjectCreation, FiniteSetTheorems, SequenceTheorems,
        NaturalsInduction, WellFoundedInduction, TLAPS

-----------------------------------------------------------------------------
(* The inductive invariant: the rows, and one part for each kind of request *)

Status == {"none", "staging", "preview", "applying", "applied", "failed"}

JobRow ==
    [status : Status, uploaded : 0..Notes, build : 0..Len(builds), verified : 0..Len(builds)]

BuildRow ==
    [status : {"queued", "completed", "failed"}, notes : [Note -> Content], has : SUBSET Note]

PreviewRow ==
    [pc : {"idle", "queue", "register", "compare", "targets", "preview"},
     build : 0..Len(builds)]

ApplyRow ==
    [pc : {"idle", "select", "fetch", "write", "stale", "record", "delete",
           "count", "build", "queue", "register", "complete"},
     todo : SUBSET Note, expect : [Note -> Content], build : 0..Len(builds)]

RowsFit ==
    /\ job \in JobRow
    /\ entry \in [Note -> {"none", "pending", "staged", "applied"}]
    /\ target \in [Note -> Content]
    /\ object \subseteq Note
    /\ note \in [Note -> Content]
    /\ builds \in Seq(BuildRow)
    /\ lineage \subseteq Note /\ restored \subseteq Note /\ expired \in BOOLEAN

\* What is left of the entries at each status of the job: they are listed
\* first, applied only once confirmed, and deleted only once the job has ended.
EntriesFit ==
    /\ job.status = "none" => \A n \in Note : entry[n] = "none"
    /\ job.status \in {"preview", "applying"} => \A n \in Note : entry[n] # "none"
    /\ job.status \in {"none", "staging", "preview"} => \A n \in Note : entry[n] # "applied"
    /\ \A n \in Note : entry[n] = "applied" =>
          n \in restored /\ (job.status = "applying" => n \in lineage)

Holds(b) == b # 0 /\ builds[b].has = Note

\* A build the job names while it is applied, or was verified by, has every note.
BuildsFit ==
    /\ job.status = "applying" /\ job.build # 0 => Holds(job.build)
    /\ job.status = "applied" =>
          restored = Note /\ lineage = Note /\ Holds(job.verified)

\* An entry still to be applied has its object until the job expires.
ObjectsFit == ~expired => \A n \in Note : entry[n] = "staged" => n \in object

RowsInv == RowsFit /\ EntriesFit /\ BuildsFit /\ ObjectsFit

UploadInv ==
    /\ upload \in [pc : {"idle", "put", "stage", "count"}, note : Note]
    /\ upload.pc # "idle" /\ ~expired =>
         /\ \A n \in Note : entry[n] # "none"
         /\ upload.pc = "stage" /\ entry[upload.note] = "pending" => upload.note \in object

\* A preview under way is of a job whose entries are listed.
PreviewsInv ==
    /\ preview \in [Previewer -> PreviewRow]
    /\ \A p \in Previewer :
          /\ preview[p].pc # "idle" /\ job.status \in {"none", "staging"} =>
                \A n \in Note : entry[n] # "none"
          /\ preview[p].pc \notin {"idle", "queue"} => preview[p].build # 0

First(todo) == CHOOSE n \in todo : \A m \in todo : n <= m

\* What a request that applies the job relies on at each of its awaits.
ApplyFits(r) ==
    /\ r.pc = "idle" => r.build = 0
    /\ r.pc # "idle" => job.status \in {"applying", "applied", "failed"}
    /\ r.pc \in {"fetch", "write", "stale", "record", "delete"} => r.todo # {}
    /\ r.pc = "record" => First(r.todo) \in restored
    /\ r.pc = "delete" => entry[First(r.todo)] \in {"applied", "none"}
    /\ r.pc \in {"build", "queue", "register", "complete"} /\ job.status = "applying" =>
          \A n \in Note : entry[n] = "applied"
    /\ r.build # 0 /\ job.status = "applying" => Holds(r.build)
    /\ r.pc \in {"register", "complete"} => r.build # 0

AppliesInv ==
    /\ apply \in [Applier -> ApplyRow]
    /\ \A a \in Applier : ApplyFits(apply[a])

\* The reaper deletes the entries of a job that has expired and ended.
ReapInv ==
    /\ reap \in [pc : {"idle", "objects", "status", "entries"}, seen : Status]
    /\ reap.pc # "idle" => expired
    /\ reap.pc \in {"objects", "status"} =>
         /\ reap.seen # "none" /\ job.status # "none"
         /\ reap.seen \in {"applied", "failed"} => job.status = reap.seen
    /\ reap.pc = "entries" => job.status \in {"applied", "failed"}

IInv == RowsInv /\ UploadInv /\ PreviewsInv /\ AppliesInv /\ ReapInv

-----------------------------------------------------------------------------
(* What the parts say *)

LEMMA Parameters ==
    /\ Notes \in Nat /\ Notes > 0 /\ Note \subseteq Nat /\ 1 \in Note /\ MaxBuilds \in Nat
    /\ Source \in Content /\ Absent \in Content /\ Edited \subseteq Note
<1>1. Notes \in Nat /\ Notes > 0 /\ MaxBuilds \in Nat /\ Edited \subseteq Note
  BY RestoreAssumption DEF RestoreAssumption, Note
<1> QED BY <1>1 DEF Note, Content

LEMMA FirstIn == ASSUME NEW todo \in SUBSET Note, todo # {} PROVE First(todo) \in todo
<1> DEFINE R == OpToRel(<, Nat)
<1>1. IsWellFoundedOn(R, Nat)
  BY NatLessThanWellFounded
<1>2. todo \subseteq Nat
  BY Parameters
<1>3. PICK n \in todo : \A m \in todo : ~ (<<m, n>> \in R)
  BY <1>1, <1>2, WFMin
<1>4. \A m \in todo : n <= m
  <2>1. \A m \in todo : ~(m < n)
    BY <1>2, <1>3 DEF OpToRel
  <2> QED BY <1>2, <2>1
<1> QED BY <1>4 DEF First

LEMMA NotesCounted ==
    ASSUME NEW S \in SUBSET Note PROVE Cardinality(S) \in 0..Notes
<1>1. IsFiniteSet(Note) /\ Cardinality(Note) = Notes
  BY Parameters, FS_Interval DEF Note
<1>2. IsFiniteSet(S) /\ Cardinality(S) <= Notes
  BY <1>1, FS_Subset
<1>3. Cardinality(S) \in Nat
  BY <1>2, FS_CardinalityType
<1> QED BY <1>2, <1>3, Parameters

LEMMA IsApplying == ASSUME NEW a PROVE Current(a) = First(apply[a].todo)
  BY DEF Current, First

LEMMA BuildsAre ==
    ASSUME RowsInv
    PROVE  /\ Len(builds) \in Nat /\ DOMAIN builds = 1..Len(builds)
           /\ \A b \in 1..Len(builds) : /\ builds[b] \in BuildRow
                                        /\ builds[b].notes \in [Note -> Content]
                                        /\ builds[b].has \subseteq Note
                                        /\ builds[b].status \in {"queued", "completed", "failed"}
<1>1. builds \in Seq(BuildRow)
  BY DEF RowsInv, RowsFit
<1>2. \A row \in BuildRow : /\ row.notes \in [Note -> Content] /\ row.has \subseteq Note
                            /\ row.status \in {"queued", "completed", "failed"}
  BY DEF BuildRow
<1> QED BY <1>1, <1>2

LEMMA JobIs ==
    ASSUME RowsInv
    PROVE  /\ job \in JobRow /\ job.status \in Status /\ job.uploaded \in 0..Notes
           /\ job.build \in 0..Len(builds) /\ job.verified \in 0..Len(builds)
<1>1. job \in JobRow
  BY DEF RowsInv, RowsFit
<1> QED BY <1>1 DEF JobRow

-----------------------------------------------------------------------------
(* What every step leaves to the requests that are under way *)

StatusMoves ==
    \/ job'.status = job.status
    \/ job.status = "none" /\ job'.status = "staging"
    \/ job.status = "staging" /\ job'.status = "preview"
    \/ job.status = "preview" /\ job'.status = "applying"
    \/ job.status = "applying" /\ job'.status = "applied"
    \/ job.status \in {"staging", "preview", "applying"} /\ job'.status = "failed"

EntryMoves(n) ==
    \/ entry'[n] = entry[n]
    \/ entry[n] = "none" /\ entry'[n] = "pending" /\ job.status = "staging"
    \/ entry[n] = "pending" /\ entry'[n] = "staged"
    \/ entry[n] = "staged" /\ entry'[n] = "applied"
    \/ entry'[n] = "none" /\ expired /\ job.status \in {"applied", "failed"}

\* An object goes when its entry has been applied, or the job has expired.
ObjectMoves(n) ==
    n \in object /\ n \notin object' => expired \/ entry[n] \in {"applied", "none"}

Onward ==
    /\ Len(builds) \in Nat /\ Len(builds') \in Nat /\ Len(builds) <= Len(builds')
    /\ \A b \in 1..Len(builds) : builds'[b].has = builds[b].has
    /\ restored \subseteq restored'
    /\ expired => expired'
    /\ StatusMoves
    /\ \A n \in Note : EntryMoves(n) /\ ObjectMoves(n)

LEMMA StillHolds ==
    ASSUME Onward, restored \subseteq Note, NEW b \in 0..Len(builds), Holds(b) PROVE Holds(b)'
<1>1. b \in 1..Len(builds)
  BY DEF Onward, Holds
<1> QED BY <1>1 DEF Onward, Holds

LEMMA MoreBuilds ==
    ASSUME Onward
    PROVE  /\ 0..Len(builds) \subseteq 0..Len(builds')
           /\ \A r \in ApplyRow : r \in ApplyRow'
           /\ \A r \in PreviewRow : r \in PreviewRow'
<1>1. 0..Len(builds) \subseteq 0..Len(builds')
  BY DEF Onward
<1> QED BY <1>1 DEF ApplyRow, PreviewRow

LEMMA UploadKept == ASSUME UploadInv, Onward, UNCHANGED upload PROVE UploadInv'
<1> SUFFICES ASSUME upload.pc # "idle", ~expired'
             PROVE  /\ \A n \in Note : entry'[n] # "none"
                    /\ upload.pc = "stage" /\ entry'[upload.note] = "pending" =>
                          upload.note \in object'
  BY DEF UploadInv
<1>1. ~expired /\ \A n \in Note : EntryMoves(n) /\ ObjectMoves(n)
  BY DEF Onward
<1>2. \A n \in Note : entry[n] # "none"
  BY <1>1 DEF UploadInv
<1>3. \A n \in Note : entry'[n] # "none"
  BY <1>1, <1>2 DEF EntryMoves
<1>4. ASSUME upload.pc = "stage", entry'[upload.note] = "pending" PROVE upload.note \in object'
  <2>1. upload.note \in Note
    BY DEF UploadInv
  <2>2. entry[upload.note] = "pending"
    BY <1>1, <1>2, <1>4, <2>1 DEF EntryMoves
  <2>3. upload.note \in object
    BY <1>1, <1>4, <2>2 DEF UploadInv
  <2> QED BY <1>1, <2>1, <2>2, <2>3 DEF ObjectMoves
<1> QED BY <1>3, <1>4

LEMMA PreviewFits ==
    ASSUME Onward, NEW r,
           r.pc # "idle" /\ job.status \in {"none", "staging"} => \A n \in Note : entry[n] # "none"
    PROVE  r.pc # "idle" /\ job'.status \in {"none", "staging"} => \A n \in Note : entry'[n] # "none"
<1> SUFFICES ASSUME r.pc # "idle", job'.status \in {"none", "staging"}, NEW n \in Note
             PROVE  entry'[n] # "none"
  OBVIOUS
<1>1. job.status \in {"none", "staging"}
  BY DEF Onward, StatusMoves
<1>2. entry[n] # "none"
  BY <1>1
<1> QED BY <1>1, <1>2 DEF Onward, EntryMoves

\* One preview goes on, or none.
LEMMA PreviewMoves ==
    ASSUME PreviewsInv, Onward, NEW p \in Previewer, NEW r \in PreviewRow',
           preview' = [preview EXCEPT ![p] = r],
           r.pc # "idle" /\ job'.status \in {"none", "staging"} =>
              \A n \in Note : entry'[n] # "none",
           r.pc \notin {"idle", "queue"} => r.build # 0
    PROVE  PreviewsInv'
<1>1. preview \in [Previewer -> PreviewRow] /\ PreviewRow \subseteq PreviewRow'
  BY MoreBuilds DEF PreviewsInv
<1>2. /\ preview' \in [Previewer -> PreviewRow']
      /\ \A q \in Previewer : preview'[q] = IF q = p THEN r ELSE preview[q]
  BY <1>1
<1>3. \A q \in Previewer :
         /\ preview'[q].pc # "idle" /\ job'.status \in {"none", "staging"} =>
               \A n \in Note : entry'[n] # "none"
         /\ preview'[q].pc \notin {"idle", "queue"} => preview'[q].build # 0
  BY <1>2, PreviewFits DEF PreviewsInv
<1> QED BY <1>2, <1>3 DEF PreviewsInv

LEMMA PreviewsKept == ASSUME PreviewsInv, Onward, UNCHANGED preview PROVE PreviewsInv'
<1>1. preview \in [Previewer -> PreviewRow] /\ PreviewRow \subseteq PreviewRow'
  BY MoreBuilds DEF PreviewsInv
<1>2. \A q \in Previewer :
         preview[q].pc # "idle" /\ job'.status \in {"none", "staging"} =>
               \A n \in Note : entry'[n] # "none"
  BY PreviewFits DEF PreviewsInv
<1> QED BY <1>1, <1>2 DEF PreviewsInv

LEMMA ApplyStillFits ==
    ASSUME Onward, NEW r \in ApplyRow, ApplyFits(r), restored \subseteq Note PROVE ApplyFits(r)'
<1>1. /\ r.todo \subseteq Note /\ r.build \in 0..Len(builds)
      /\ r.todo # {} => First(r.todo) \in Note
  <2>1. r.todo \in SUBSET Note /\ r.build \in 0..Len(builds)
    BY DEF ApplyRow
  <2> QED BY <2>1, FirstIn
<1>2. r.pc # "idle" => job'.status \in {"applying", "applied", "failed"}
  BY DEF ApplyFits, Onward, StatusMoves
<1>3. r.pc = "record" => First(r.todo) \in restored'
  BY DEF ApplyFits, Onward
<1>4. r.pc = "delete" => entry'[First(r.todo)] \in {"applied", "none"}
  <2> SUFFICES ASSUME r.pc = "delete" PROVE entry'[First(r.todo)] \in {"applied", "none"}
    OBVIOUS
  <2>1. /\ First(r.todo) \in Note /\ entry[First(r.todo)] \in {"applied", "none"}
        /\ job.status # "staging"
    BY <1>1 DEF ApplyFits
  <2> QED BY <2>1 DEF Onward, EntryMoves
<1>5. r.pc # "idle" /\ job'.status = "applying" => job.status = "applying"
  BY DEF ApplyFits, Onward, StatusMoves
<1>6. r.pc \in {"build", "queue", "register", "complete"} /\ job'.status = "applying" =>
          \A n \in Note : entry'[n] = "applied"
  <2> SUFFICES ASSUME r.pc \in {"build", "queue", "register", "complete"},
                      job'.status = "applying", NEW n \in Note
               PROVE  entry'[n] = "applied"
    OBVIOUS
  <2>1. job.status = "applying" /\ entry[n] = "applied"
    BY <1>5 DEF ApplyFits
  <2> QED BY <2>1 DEF Onward, EntryMoves
<1>7. r.build # 0 /\ job'.status = "applying" => Holds(r.build)'
  <2> SUFFICES ASSUME r.build # 0, job'.status = "applying" PROVE Holds(r.build)'
    OBVIOUS
  <2>1. r.pc # "idle"
    BY DEF ApplyFits
  <2>2. Holds(r.build)
    BY <1>5, <2>1 DEF ApplyFits
  <2> QED BY <1>1, <2>2, StillHolds
<1> QED BY <1>2, <1>3, <1>4, <1>6, <1>7 DEF ApplyFits

LEMMA ApplyMoves ==
    ASSUME AppliesInv, Onward, restored \subseteq Note,
           NEW a \in Applier, NEW r \in ApplyRow', ApplyFits(r)',
           apply' = [apply EXCEPT ![a] = r]
    PROVE  AppliesInv'
<1>1. apply \in [Applier -> ApplyRow] /\ ApplyRow \subseteq ApplyRow'
  BY MoreBuilds DEF AppliesInv
<1>2. /\ apply' \in [Applier -> ApplyRow']
      /\ \A b \in Applier : apply'[b] = IF b = a THEN r ELSE apply[b]
  BY <1>1
<1>3. ASSUME NEW b \in Applier PROVE ApplyFits(apply[b])'
  <2>1. PICK s : s = apply'[b]
    OBVIOUS
  <2>2. ApplyFits(s)'
    <3>1. CASE b = a
      BY <1>2, <2>1, <3>1
    <3>2. CASE b # a
      <4>1. s = apply[b] /\ s \in ApplyRow /\ ApplyFits(s)
        BY <1>1, <1>2, <2>1, <3>2 DEF AppliesInv
      <4> QED BY <4>1, ApplyStillFits
    <3> QED BY <3>1, <3>2
  <2> QED BY <2>1, <2>2 DEF ApplyFits
<1> QED BY <1>2, <1>3 DEF AppliesInv

LEMMA AppliesKept ==
    ASSUME AppliesInv, Onward, restored \subseteq Note, UNCHANGED apply PROVE AppliesInv'
<1>1. apply \in [Applier -> ApplyRow] /\ ApplyRow \subseteq ApplyRow'
  BY MoreBuilds DEF AppliesInv
<1>2. ASSUME NEW b \in Applier PROVE ApplyFits(apply[b])'
  <2>1. PICK s : s = apply[b]
    OBVIOUS
  <2>2. ApplyFits(s)'
    BY <1>1, <2>1, ApplyStillFits DEF AppliesInv
  <2> QED BY <2>1, <2>2 DEF ApplyFits
<1> QED BY <1>1, <1>2 DEF AppliesInv

LEMMA ReapKept == ASSUME ReapInv, Onward, UNCHANGED reap PROVE ReapInv'
<1>1. /\ job.status \in {"applied", "failed"} => job'.status = job.status
      /\ job.status # "none" => job'.status # "none"
      /\ expired => expired'
  BY DEF Onward, StatusMoves
<1> QED BY <1>1 DEF ReapInv

\* A step keeps the parts of the requests it is none of.
LEMMA StepInv ==
    ASSUME IInv, RowsInv', Onward,
           UNCHANGED upload \/ UploadInv', UNCHANGED preview \/ PreviewsInv',
           UNCHANGED apply \/ AppliesInv', UNCHANGED reap \/ ReapInv'
    PROVE  IInv'
<1>1. restored \subseteq Note
  BY DEF IInv, RowsInv, RowsFit
<1> QED BY <1>1, UploadKept, PreviewsKept, AppliesKept, ReapKept DEF IInv

-----------------------------------------------------------------------------
(* The rows *)

LEMMA RowsSame ==
    ASSUME RowsInv, UNCHANGED <<job, entry, target, object, note, builds, lineage, restored, expired>>
    PROVE  RowsInv' /\ Onward
<1>1. JobRow' = JobRow /\ BuildRow' = BuildRow
  BY DEF JobRow, BuildRow
<1>2. RowsFit'
  BY <1>1 DEF RowsInv, RowsFit
<1>3. EntriesFit' /\ BuildsFit' /\ ObjectsFit'
  BY DEF RowsInv, EntriesFit, BuildsFit, ObjectsFit, Holds
<1>4. Onward
  BY BuildsAre DEF Onward, StatusMoves, EntryMoves, ObjectMoves
<1> QED BY <1>2, <1>3, <1>4 DEF RowsInv

\* The job's row is written.
LEMMA JobWritten ==
    ASSUME RowsInv, NEW r \in JobRow, job' = r, StatusMoves,
           UNCHANGED <<entry, target, object, note, builds, lineage, restored, expired>>,
           r.status \in {"preview", "applying"} => \A n \in Note : entry[n] # "none",
           r.status = "applying" /\ r.build # 0 => Holds(r.build),
           r.status = "applied" => restored = Note /\ lineage = Note /\ Holds(r.verified)
    PROVE  RowsInv' /\ Onward
<1>1. JobRow' = JobRow /\ BuildRow' = BuildRow
  BY DEF JobRow, BuildRow
<1>2. RowsFit'
  BY <1>1 DEF RowsInv, RowsFit
<1>3. EntriesFit'
  <2>1. r.status = "none" => job.status = "none"
    BY DEF StatusMoves
  <2>2. r.status \in {"none", "staging", "preview"} => job.status \in {"none", "staging", "preview"}
    BY DEF StatusMoves
  <2>3. r.status = "applying" => job.status \in {"preview", "applying"}
    BY DEF StatusMoves
  <2> QED BY <2>1, <2>2, <2>3 DEF RowsInv, EntriesFit
<1>4. BuildsFit'
  <2>1. \A b : Holds(b)' <=> Holds(b)
    BY DEF Holds
  <2> QED BY <2>1 DEF BuildsFit, Holds
<1>5. ObjectsFit'
  BY DEF RowsInv, ObjectsFit
<1>6. Onward
  BY BuildsAre DEF Onward, EntryMoves, ObjectMoves
<1> QED BY <1>2, <1>3, <1>4, <1>5, <1>6 DEF RowsInv

\* An entry's status, its object or lineage is written, or its note.
LEMMA EntryWritten ==
    ASSUME RowsInv, UNCHANGED <<job, builds, expired>>,
           entry' \in [Note -> {"none", "pending", "staged", "applied"}],
           target' \in [Note -> Content], note' \in [Note -> Content],
           object' \subseteq Note, lineage' \subseteq Note, restored' \subseteq Note,
           lineage \subseteq lineage', restored \subseteq restored',
           \A n \in Note : EntryMoves(n) /\ ObjectMoves(n),
           \A n \in Note : entry'[n] = "applied" /\ entry[n] # "applied" =>
              /\ job.status \in {"applying", "applied", "failed"}
              /\ n \in restored'
              /\ job.status = "applying" => n \in lineage',
           ~expired => \A n \in Note : entry'[n] = "staged" => n \in object'
    PROVE  RowsInv' /\ Onward
<1>1. JobRow' = JobRow /\ BuildRow' = BuildRow
  BY DEF JobRow, BuildRow
<1>2. RowsFit'
  BY <1>1 DEF RowsInv, RowsFit
<1>3. EntriesFit'
  <2>1. job.status = "none" => \A n \in Note : entry'[n] = "none"
    BY DEF RowsInv, EntriesFit, EntryMoves
  <2>2. job.status \in {"preview", "applying"} => \A n \in Note : entry'[n] # "none"
    BY DEF RowsInv, EntriesFit, EntryMoves
  <2>3. job.status \in {"none", "staging", "preview"} => \A n \in Note : entry'[n] # "applied"
    BY DEF RowsInv, EntriesFit
  <2>4. \A n \in Note : entry'[n] = "applied" =>
           n \in restored' /\ (job.status = "applying" => n \in lineage')
    BY DEF RowsInv, EntriesFit
  <2> QED BY <2>1, <2>2, <2>3, <2>4 DEF EntriesFit
<1>4. BuildsFit'
  BY DEF RowsInv, RowsFit, BuildsFit, Holds
<1>5. ObjectsFit'
  BY DEF ObjectsFit
<1>6. Onward
  BY BuildsAre DEF Onward, StatusMoves
<1> QED BY <1>2, <1>3, <1>4, <1>5, <1>6 DEF RowsInv

\* A build is asked for, or ends.
LEMMA BuildsWritten ==
    ASSUME RowsInv, UNCHANGED <<job, entry, target, object, note, lineage, restored, expired>>,
           builds' \in Seq(BuildRow), Len(builds) <= Len(builds'),
           \A b \in 1..Len(builds) : builds'[b].has = builds[b].has
    PROVE  RowsInv' /\ Onward
<1>1. Len(builds) \in Nat /\ Len(builds') \in Nat /\ BuildRow' = BuildRow
  BY BuildsAre DEF BuildRow
<1>2. Onward
  BY <1>1 DEF Onward, StatusMoves, EntryMoves, ObjectMoves
<1>3. RowsFit'
  <2>1. 0..Len(builds) \subseteq 0..Len(builds')
    BY <1>1
  <2>2. job \in JobRow'
    BY <2>1 DEF RowsInv, RowsFit, JobRow
  <2> QED BY <1>1, <2>2 DEF RowsInv, RowsFit
<1>4. \A b \in 0..Len(builds) : Holds(b) => Holds(b)'
  BY <1>1 DEF Holds
<1>5. BuildsFit'
  BY <1>4, JobIs DEF RowsInv, BuildsFit, Holds
<1>6. EntriesFit' /\ ObjectsFit'
  BY DEF RowsInv, EntriesFit, ObjectsFit
<1> QED BY <1>2, <1>3, <1>5, <1>6 DEF RowsInv

LEMMA BuildQueued ==
    ASSUME RowsInv, NEW status \in {"queued", "completed"}, QueueBuild(status),
           UNCHANGED <<job, entry, target, object, note, lineage, restored, expired>>
    PROVE  /\ RowsInv' /\ Onward
           /\ Len(builds') \in 1..Len(builds') /\ Len(builds') # 0
           /\ builds'[Len(builds')].has = restored
<1>1. PICK b : b = [status |-> status, notes |-> note, has |-> restored]
  OBVIOUS
<1>2. b \in BuildRow /\ b.has = restored
  BY <1>1 DEF BuildRow, RowsInv, RowsFit
<1>3. builds' = Append(builds, b) /\ builds \in Seq(BuildRow)
  BY <1>1 DEF QueueBuild, RowsInv, RowsFit
<1>4. /\ builds' \in Seq(BuildRow) /\ Len(builds') = Len(builds) + 1 /\ Len(builds) \in Nat
      /\ \A i \in 1..Len(builds) : builds'[i] = builds[i]
      /\ builds'[Len(builds) + 1] = b
  BY <1>2, <1>3, AppendProperties, BuildsAre
<1>5. RowsInv' /\ Onward
  BY <1>4, BuildsWritten
<1> QED BY <1>2, <1>4, <1>5

LEMMA InitInv == Init => IInv
<1> SUFFICES ASSUME Init PROVE IInv
  OBVIOUS
<1> USE DEF Init
<1>1. builds = <<>> /\ Len(builds) = 0 /\ builds \in Seq(BuildRow) /\ 0 \in 0..Notes
  BY Parameters
<1>2. RowsInv
  <2>1. job \in JobRow
    BY <1>1 DEF Unlisted, JobRow, Status
  <2>2. RowsFit
    BY <1>1, <2>1, Parameters DEF RowsFit
  <2> QED BY <2>2 DEF RowsInv, EntriesFit, BuildsFit, ObjectsFit, Unlisted
<1>3. UploadInv
  BY Parameters DEF UploadInv, IdleUpload
<1>4. PreviewsInv
  BY <1>1 DEF PreviewsInv, IdlePreview, PreviewRow
<1>5. AppliesInv
  <2>1. IdleApply \in ApplyRow /\ ApplyFits(IdleApply)
    BY <1>1, Parameters DEF IdleApply, Unread, ApplyRow, ApplyFits
  <2> QED BY <2>1 DEF AppliesInv
<1>6. ReapInv
  BY DEF ReapInv, IdleReap, Status
<1> QED BY <1>2, <1>3, <1>4, <1>5, <1>6 DEF IInv

-----------------------------------------------------------------------------
(* Creating and uploading *)

LEMMA CreateJobInv == IInv /\ CreateJob => IInv' /\ Onward
<1> SUFFICES ASSUME IInv, CreateJob PROVE IInv' /\ Onward
  OBVIOUS
<1>1. PICK r : r = [Unlisted EXCEPT !.status = "staging"]
  OBVIOUS
<1>2. /\ UNCHANGED <<entry, target, object, note, builds, lineage, restored, expired>>
      /\ UNCHANGED <<upload, preview, apply, reap>> /\ job' = r /\ job.status = "none"
  BY <1>1 DEF CreateJob, requests, outside
<1>3. r \in JobRow /\ r.status = "staging"
  <2>1. r = [status |-> "staging", uploaded |-> 0, build |-> 0, verified |-> 0]
    BY <1>1 DEF Unlisted
  <2>2. 0 \in 0..Notes /\ 0 \in 0..Len(builds)
    BY Parameters, BuildsAre DEF IInv
  <2> QED BY <2>1, <2>2 DEF JobRow, Status
<1>4. RowsInv' /\ Onward
  BY <1>2, <1>3, JobWritten DEF IInv, StatusMoves
<1> QED BY <1>2, <1>4, StepInv

LEMMA InsertEntriesInv == IInv /\ InsertEntries => IInv' /\ Onward
<1> SUFFICES ASSUME IInv, InsertEntries PROVE IInv' /\ Onward
  OBVIOUS
<1>1. PICK batch \in SUBSET Entries("none") :
         entry' = [n \in Note |-> IF n \in batch THEN "pending" ELSE entry[n]]
  BY DEF InsertEntries
<1>2. /\ UNCHANGED <<job, target, object, note, builds, lineage, restored, expired>>
      /\ UNCHANGED <<upload, preview, apply, reap>> /\ job.status = "staging"
  BY DEF InsertEntries, requests, outside
<1>3. entry \in [Note -> {"none", "pending", "staged", "applied"}]
  BY DEF IInv, RowsInv, RowsFit
<1>4. \A n \in Note : /\ entry'[n] \in {"none", "pending", "staged", "applied"}
                      /\ entry'[n] = entry[n] \/ (entry[n] = "none" /\ entry'[n] = "pending")
  BY <1>1, <1>3 DEF Entries
<1>5. entry' \in [Note -> {"none", "pending", "staged", "applied"}]
  BY <1>1, <1>4
<1>6. \A n \in Note : EntryMoves(n) /\ ObjectMoves(n)
  BY <1>2, <1>4 DEF EntryMoves, ObjectMoves
<1>7. ~expired => \A n \in Note : entry'[n] = "staged" => n \in object'
  BY <1>2, <1>4 DEF IInv, RowsInv, ObjectsFit
<1>8. RowsInv' /\ Onward
  BY <1>2, <1>4, <1>5, <1>6, <1>7, EntryWritten DEF IInv, RowsInv, RowsFit
<1> QED BY <1>2, <1>8, StepInv

LEMMA CreateFailedInv == IInv /\ CreateFailed => IInv' /\ Onward
<1> SUFFICES ASSUME IInv, CreateFailed PROVE IInv' /\ Onward
  OBVIOUS
<1>1. PICK r : r = [job EXCEPT !.status = "failed"]
  OBVIOUS
<1>2. /\ UNCHANGED <<entry, target, object, note, builds, lineage, restored, expired>>
      /\ UNCHANGED <<upload, preview, apply, reap>> /\ job' = r /\ job.status = "staging"
  BY <1>1 DEF CreateFailed, requests, outside
<1>3. r \in JobRow /\ r.status = "failed"
  BY <1>1, JobIs DEF IInv, JobRow, Status
<1>4. RowsInv' /\ Onward
  BY <1>2, <1>3, JobWritten DEF IInv, StatusMoves
<1> QED BY <1>2, <1>4, StepInv

\* The upload goes on, and nothing else.
LEMMA UploadMoves ==
    ASSUME IInv, UNCHANGED <<rows, object, preview, apply, reap, outside, lineage, restored>>, UploadInv'
    PROVE  IInv' /\ Onward
<1>1. RowsInv' /\ Onward
  BY RowsSame DEF IInv, rows, outside
<1> QED BY <1>1, StepInv

LEMMA BeginUploadInv == ASSUME IInv, NEW n \in Note, BeginUpload(n) PROVE IInv' /\ Onward
<1>1. /\ UNCHANGED <<rows, object, preview, apply, reap, outside, lineage, restored>>
      /\ Entries("none") = {}
      /\ upload' = [pc |-> IF entry[n] = "pending" THEN "put" ELSE "count", note |-> n]
  BY DEF BeginUpload
<1>2. upload' \in [pc : {"idle", "put", "stage", "count"}, note : Note] /\ upload'.pc # "stage"
  BY <1>1
<1>3. \A m \in Note : entry'[m] # "none"
  BY <1>1 DEF Entries, rows
<1> QED BY <1>1, <1>2, <1>3, UploadMoves DEF UploadInv

LEMMA PutObjectInv == IInv /\ PutObject => IInv' /\ Onward
<1> SUFFICES ASSUME IInv, PutObject PROVE IInv' /\ Onward
  OBVIOUS
<1>1. /\ UNCHANGED <<job, entry, target, note, builds, lineage, restored, expired>>
      /\ UNCHANGED <<preview, apply, reap>>
      /\ object' = object \cup {upload.note} /\ upload' = [upload EXCEPT !.pc = "stage"]
      /\ upload.pc = "put"
  BY DEF PutObject, rows, outside, UploadAt
<1>2. upload \in [pc : {"idle", "put", "stage", "count"}, note : Note] /\ upload.note \in Note
  BY DEF IInv, UploadInv
<1>3. \A n \in Note : EntryMoves(n) /\ ObjectMoves(n)
  BY <1>1 DEF EntryMoves, ObjectMoves
<1>4. ~expired => \A n \in Note : entry'[n] = "staged" => n \in object'
  BY <1>1 DEF IInv, RowsInv, ObjectsFit
<1>5. RowsInv' /\ Onward
  BY <1>1, <1>2, <1>3, <1>4, EntryWritten DEF IInv, RowsInv, RowsFit
<1>6. UploadInv'
  BY <1>1, <1>2 DEF IInv, UploadInv
<1> QED BY <1>1, <1>5, <1>6, StepInv

LEMMA MarkStagedInv == IInv /\ MarkStaged => IInv' /\ Onward
<1> SUFFICES ASSUME IInv, MarkStaged PROVE IInv' /\ Onward
  OBVIOUS
<1>1. PICK n : n = upload.note
  OBVIOUS
<1>2. /\ UNCHANGED <<job, target, object, note, builds, lineage, restored, expired>>
      /\ UNCHANGED <<preview, apply, reap>> /\ upload.pc = "stage"
      /\ entry' = [entry EXCEPT ![n] = IF @ = "pending" THEN "staged" ELSE @]
      /\ upload' = [upload EXCEPT !.pc = "count"]
  BY <1>1 DEF MarkStaged, outside, UploadAt
<1>3. /\ upload \in [pc : {"idle", "put", "stage", "count"}, note : Note] /\ n \in Note
      /\ entry \in [Note -> {"none", "pending", "staged", "applied"}]
  BY <1>1 DEF IInv, UploadInv, RowsInv, RowsFit
<1>4. /\ entry' \in [Note -> {"none", "pending", "staged", "applied"}]
      /\ \A m \in Note : \/ entry'[m] = entry[m]
                         \/ m = n /\ entry[m] = "pending" /\ entry'[m] = "staged"
  BY <1>2, <1>3
<1>5. \A m \in Note : EntryMoves(m) /\ ObjectMoves(m)
  BY <1>2, <1>4 DEF EntryMoves, ObjectMoves
<1>6. ~expired => \A m \in Note : entry'[m] = "staged" => m \in object'
  BY <1>1, <1>2, <1>4 DEF IInv, RowsInv, ObjectsFit, UploadInv
<1>7. RowsInv' /\ Onward
  BY <1>2, <1>4, <1>5, <1>6, EntryWritten DEF IInv, RowsInv, RowsFit
<1>8. UploadInv'
  <2>1. upload' \in [pc : {"idle", "put", "stage", "count"}, note : Note] /\ upload'.pc = "count"
    BY <1>2, <1>3
  <2>2. ~expired => \A m \in Note : entry'[m] # "none"
    BY <1>2, <1>4 DEF IInv, UploadInv
  <2> QED BY <1>2, <2>1, <2>2 DEF UploadInv
<1> QED BY <1>2, <1>7, <1>8, StepInv

LEMMA CountUploadsInv == IInv /\ CountUploads => IInv' /\ Onward
<1> SUFFICES ASSUME IInv, CountUploads PROVE IInv' /\ Onward
  OBVIOUS
<1>1. PICK uploaded : uploaded = Cardinality(Entries("staged") \cup Entries("applied"))
  OBVIOUS
<1>2. /\ UNCHANGED <<entry, target, object, note, builds, lineage, restored, expired>>
      /\ UNCHANGED <<preview, apply, reap>> /\ upload' = IdleUpload
      /\ \/ job' = job
         \/ job.status = "staging" /\ job' = [job EXCEPT !.uploaded = uploaded]
  BY <1>1 DEF CountUploads, outside
<1>3. PICK r : r = job'
  OBVIOUS
<1>4. r \in JobRow /\ r.status = job.status /\ r.build = job.build /\ r.verified = job.verified
  <2>1. uploaded \in 0..Notes
    BY <1>1, NotesCounted DEF Entries
  <2> QED BY <1>2, <1>3, <2>1, JobIs DEF IInv, JobRow
<1>5. RowsInv' /\ Onward
  BY <1>2, <1>3, <1>4, JobWritten DEF IInv, StatusMoves, RowsInv, EntriesFit, BuildsFit
<1>6. UploadInv'
  BY <1>2, Parameters DEF UploadInv, IdleUpload
<1> QED BY <1>2, <1>5, <1>6, StepInv

-----------------------------------------------------------------------------
(* Previewing and confirming *)

LEMMA PreviewIs ==
    ASSUME IInv, NEW p \in Previewer
    PROVE  /\ preview[p] \in PreviewRow /\ preview[p].build \in 0..Len(builds)
           /\ preview[p].pc # "idle" /\ job.status \in {"none", "staging"} =>
                 \A n \in Note : entry[n] # "none"
           /\ preview[p].pc \notin {"idle", "queue"} => preview[p].build # 0
<1>1. preview[p] \in PreviewRow
  BY DEF IInv, PreviewsInv
<1> QED BY <1>1 DEF IInv, PreviewsInv, PreviewRow

LEMMA IdlePreviewFits == ASSUME RowsInv PROVE IdlePreview \in PreviewRow /\ IdlePreview.pc = "idle"
  BY BuildsAre DEF IdlePreview, PreviewRow

\* The job's row changes, or nothing does, and a preview goes on.
LEMMA PreviewStep ==
    ASSUME IInv, RowsInv', Onward, UNCHANGED <<upload, apply, reap, builds>>,
           NEW p \in Previewer, NEW r \in PreviewRow, preview' = [preview EXCEPT ![p] = r],
           r.pc = "idle" \/ preview[p].pc # "idle" \/ \A n \in Note : entry[n] # "none",
           r.pc \notin {"idle", "queue"} => r.build # 0
    PROVE  IInv' /\ Onward
<1>1. r \in PreviewRow'
  BY MoreBuilds
<1>2. r.pc # "idle" /\ job.status \in {"none", "staging"} => \A n \in Note : entry[n] # "none"
  BY PreviewIs
<1>3. PreviewsInv'
  BY <1>1, <1>2, PreviewFits, PreviewMoves DEF IInv
<1> QED BY <1>3, StepInv

\* A build is taken off the row, or put on it.
LEMMA DropBuildFits ==
    ASSUME RowsInv, NEW b, DropBuild(b),
           UNCHANGED <<entry, target, object, note, builds, lineage, restored, expired>>
    PROVE  RowsInv' /\ Onward
<1>1. job' = job \/ job' = [job EXCEPT !.build = 0]
  BY DEF DropBuild
<1>2. PICK r : r = job'
  OBVIOUS
<1>3. /\ r \in JobRow /\ r.status = job.status /\ r.verified = job.verified
      /\ r.build = job.build \/ r.build = 0
  BY <1>1, <1>2, JobIs, BuildsAre DEF JobRow
<1> QED BY <1>2, <1>3, JobWritten DEF StatusMoves, RowsInv, EntriesFit, BuildsFit

LEMMA RegisterBuildFits ==
    ASSUME RowsInv, NEW b \in 0..Len(builds), NEW status, RegisterBuild(b, status),
           job.status = status /\ status = "applying" => Holds(b),
           UNCHANGED <<entry, target, object, note, builds, lineage, restored, expired>>
    PROVE  RowsInv' /\ Onward
<1>1. job' = job \/ (job.status = status /\ job' = [job EXCEPT !.build = b])
  BY DEF RegisterBuild
<1>2. PICK r : r = job'
  OBVIOUS
<1>3. /\ r \in JobRow /\ r.status = job.status /\ r.verified = job.verified
      /\ r.build = job.build \/ (job.status = status /\ r.build = b)
  BY <1>1, <1>2, JobIs, BuildsAre DEF JobRow
<1>4. r.status = "applying" /\ r.build # 0 => Holds(r.build)
  BY <1>3 DEF RowsInv, BuildsFit
<1> QED BY <1>2, <1>3, <1>4, JobWritten DEF StatusMoves, RowsInv, EntriesFit, BuildsFit

LEMMA BeginPreviewInv == ASSUME IInv, NEW p \in Previewer, BeginPreview(p) PROVE IInv' /\ Onward
<1>1. /\ UNCHANGED <<entry, target, object, note, builds, lineage, restored, expired>>
      /\ UNCHANGED <<upload, apply, reap>> /\ \A n \in Note : entry[n] # "none"
      /\ IF UsableBuild(job.build)
         THEN /\ preview' = [preview EXCEPT ![p] = [pc |-> "compare", build |-> job.build]]
              /\ UNCHANGED job
         ELSE preview' = [preview EXCEPT ![p].pc = "queue"] /\ DropBuild(job.build)
  BY DEF BeginPreview, outside, PreviewAt, Entries
<1>2. CASE UsableBuild(job.build)
  <2>1. PICK r : r = [pc |-> "compare", build |-> job.build]
    OBVIOUS
  <2>2. r \in PreviewRow /\ r.build # 0 /\ preview' = [preview EXCEPT ![p] = r]
    BY <1>1, <1>2, <2>1, JobIs DEF IInv, PreviewRow, UsableBuild
  <2>3. RowsInv' /\ Onward
    BY <1>1, <1>2, RowsSame DEF IInv
  <2> QED BY <1>1, <2>2, <2>3, PreviewStep
<1>3. CASE ~UsableBuild(job.build)
  <2>1. PICK r : r = [preview[p] EXCEPT !.pc = "queue"]
    OBVIOUS
  <2>2. r \in PreviewRow /\ r.pc = "queue" /\ preview' = [preview EXCEPT ![p] = r]
    BY <1>1, <1>3, <2>1, PreviewIs DEF PreviewRow
  <2>3. RowsInv' /\ Onward
    BY <1>1, <1>3, DropBuildFits DEF IInv
  <2> QED BY <1>1, <2>2, <2>3, PreviewStep
<1> QED BY <1>2, <1>3

LEMMA PreviewBuildInv == ASSUME IInv, NEW p \in Previewer, PreviewBuild(p) PROVE IInv' /\ Onward
<1>1. PICK status \in {"queued", "completed"} :
         /\ QueueBuild(status)
         /\ preview' = [preview EXCEPT ![p] =
               [pc |-> IF status = "queued" THEN "register" ELSE "compare",
                build |-> Len(builds')]]
  BY DEF PreviewBuild
<1>2. /\ UNCHANGED <<job, entry, target, object, note, lineage, restored, expired>>
      /\ UNCHANGED <<upload, apply, reap>> /\ preview[p].pc = "queue"
  BY DEF PreviewBuild, rows
<1>3. RowsInv' /\ Onward /\ Len(builds') \in 1..Len(builds') /\ Len(builds') # 0
  BY <1>1, <1>2, BuildQueued DEF IInv
<1>4. PICK r : r = [pc |-> IF status = "queued" THEN "register" ELSE "compare", build |-> Len(builds')]
  OBVIOUS
<1>5. r \in PreviewRow' /\ r.build # 0 /\ preview' = [preview EXCEPT ![p] = r] /\ r.pc # "idle"
  BY <1>1, <1>3, <1>4 DEF PreviewRow
<1>6. PreviewsInv'
  <2>1. preview[p].pc # "idle" /\ job'.status \in {"none", "staging"} => \A n \in Note : entry'[n] # "none"
    BY <1>2, PreviewIs
  <2> QED BY <1>2, <1>3, <1>5, <2>1, PreviewMoves DEF IInv
<1> QED BY <1>2, <1>3, <1>6, StepInv

LEMMA PreviewPendingInv == ASSUME IInv, NEW p \in Previewer, PreviewPending(p) PROVE IInv' /\ Onward
<1>1. PICK b : b = preview[p].build
  OBVIOUS
<1>2. /\ UNCHANGED <<entry, target, object, note, builds, lineage, restored, expired>>
      /\ UNCHANGED <<upload, apply, reap>> /\ RegisterBuild(b, "staging")
      /\ preview' = [preview EXCEPT ![p] = IdlePreview]
  BY <1>1 DEF PreviewPending, outside, EndPreview
<1>3. RowsInv' /\ Onward
  BY <1>1, <1>2, PreviewIs, RegisterBuildFits DEF IInv
<1> QED BY <1>2, <1>3, IdlePreviewFits, PreviewStep DEF IInv

\* A preview goes on to its next await, or ends, and nothing else changes.
LEMMA PreviewAtInv ==
    ASSUME IInv, NEW p \in Previewer, preview[p].pc \in {"compare", "targets", "preview"},
           NEW pc \in {"targets", "preview"},
           PreviewAt(p, pc) \/ EndPreview(p), RowsInv', Onward,
           UNCHANGED <<upload, apply, reap, builds>>
    PROVE  IInv' /\ Onward
<1>1. CASE PreviewAt(p, pc)
  <2>1. PICK r : r = [preview[p] EXCEPT !.pc = pc]
    OBVIOUS
  <2>2. /\ r \in PreviewRow /\ r.pc = pc /\ r.build = preview[p].build
        /\ preview' = [preview EXCEPT ![p] = r]
    BY <1>1, <2>1, PreviewIs DEF PreviewRow, PreviewAt
  <2> QED BY <2>2, PreviewIs, PreviewStep
<1>2. CASE EndPreview(p)
  BY <1>2, IdlePreviewFits, PreviewStep DEF EndPreview, IInv
<1> QED BY <1>1, <1>2

LEMMA CompareInv == ASSUME IInv, NEW p \in Previewer, Compare(p) PROVE IInv' /\ Onward
<1>1. /\ UNCHANGED <<job, entry, target, object, note, builds, lineage, restored, expired>>
      /\ UNCHANGED <<upload, apply, reap>> /\ preview[p].pc = "compare"
      /\ PreviewAt(p, "targets") \/ EndPreview(p)
  BY DEF Compare, outside, rows
<1>2. RowsInv' /\ Onward
  BY <1>1, RowsSame DEF IInv
<1> QED BY <1>1, <1>2, PreviewAtInv

LEMMA WriteTargetsInv == ASSUME IInv, NEW p \in Previewer, WriteTargets(p) PROVE IInv' /\ Onward
<1>1. PICK b : b = preview[p].build
  OBVIOUS
<1>2. /\ UNCHANGED <<job, entry, object, note, builds, lineage, restored, expired>>
      /\ UNCHANGED <<upload, apply, reap>> /\ preview[p].pc = "targets" /\ PreviewAt(p, "preview")
      /\ target' = [n \in Note |-> IF entry[n] = "staged" THEN builds[b].notes[n] ELSE target[n]]
  BY <1>1 DEF WriteTargets, outside
<1>3. b \in 1..Len(builds)
  <2>1. b \in 0..Len(builds) /\ b # 0 /\ Len(builds) \in Nat
    BY <1>1, <1>2, PreviewIs, BuildsAre DEF IInv
  <2> QED BY <2>1
<1>4. target' \in [Note -> Content]
  <2>1. builds[b].notes \in [Note -> Content] /\ target \in [Note -> Content]
    BY <1>3, BuildsAre DEF IInv, RowsInv, RowsFit
  <2> QED BY <1>2, <2>1
<1>5. RowsInv' /\ Onward
  <2>1. \A n \in Note : EntryMoves(n) /\ ObjectMoves(n)
    BY <1>2 DEF EntryMoves, ObjectMoves
  <2>2. ~expired => \A n \in Note : entry'[n] = "staged" => n \in object'
    BY <1>2 DEF IInv, RowsInv, ObjectsFit
  <2>3. /\ entry' \in [Note -> {"none", "pending", "staged", "applied"}]
        /\ note' \in [Note -> Content] /\ object' \subseteq Note
        /\ lineage' \subseteq Note /\ restored' \subseteq Note
    BY <1>2 DEF IInv, RowsInv, RowsFit
  <2> QED BY <1>2, <1>4, <2>1, <2>2, <2>3, EntryWritten DEF IInv
<1> QED BY <1>2, <1>5, PreviewAtInv

LEMMA SetPreviewInv == ASSUME IInv, NEW p \in Previewer, SetPreview(p) PROVE IInv' /\ Onward
<1>1. /\ UNCHANGED <<entry, target, object, note, builds, lineage, restored, expired>>
      /\ UNCHANGED <<upload, apply, reap>> /\ preview[p].pc = "preview" /\ EndPreview(p)
      /\ \/ job' = job
         \/ job.status = "staging" /\ job' = [job EXCEPT !.status = "preview"]
  BY DEF SetPreview, outside
<1>2. RowsInv' /\ Onward
  <2>1. CASE job' = job
    BY <1>1, <2>1, RowsSame DEF IInv
  <2>2. CASE job.status = "staging" /\ job' = [job EXCEPT !.status = "preview"]
    <3>1. PICK r : r = job'
      OBVIOUS
    <3>2. r \in JobRow /\ r.status = "preview"
      BY <2>2, <3>1, JobIs DEF IInv, JobRow, Status
    <3>3. \A n \in Note : entry[n] # "none"
      BY <1>1, <2>2, PreviewIs
    <3>4. StatusMoves
      BY <2>2, <3>1, <3>2 DEF StatusMoves
    <3> QED BY <1>1, <3>1, <3>2, <3>3, <3>4, JobWritten DEF IInv
  <2> QED BY <1>1, <2>1, <2>2
<1> QED BY <1>1, <1>2, PreviewAtInv

LEMMA ConfirmInv == IInv /\ Confirm => IInv' /\ Onward
<1> SUFFICES ASSUME IInv, Confirm PROVE IInv' /\ Onward
  OBVIOUS
<1>1. PICK r : r = [job EXCEPT !.status = "applying", !.build = 0]
  OBVIOUS
<1>2. /\ UNCHANGED <<entry, target, object, note, builds, lineage, restored, expired>>
      /\ UNCHANGED <<upload, preview, apply, reap>> /\ job' = r /\ job.status = "preview"
  BY <1>1 DEF Confirm, requests, outside, BuildAfterConfirm
<1>3. r \in JobRow /\ r.status = "applying" /\ r.build = 0
  <2>1. 0 \in 0..Len(builds) /\ job \in JobRow
    BY JobIs, BuildsAre DEF IInv
  <2> QED BY <1>1, <2>1 DEF JobRow, Status
<1>4. \A n \in Note : entry[n] # "none"
  BY <1>2 DEF IInv, RowsInv, EntriesFit
<1>5. StatusMoves
  BY <1>2, <1>3 DEF StatusMoves
<1>6. RowsInv' /\ Onward
  BY <1>2, <1>3, <1>4, <1>5, JobWritten DEF IInv
<1> QED BY <1>2, <1>6, StepInv

-----------------------------------------------------------------------------
(* Applying *)

LEMMA ApplyIs ==
    ASSUME IInv, NEW a \in Applier
    PROVE  /\ apply[a] \in ApplyRow /\ ApplyFits(apply[a])
           /\ apply[a].todo \in SUBSET Note /\ apply[a].expect \in [Note -> Content]
           /\ apply[a].build \in 0..Len(builds)
           /\ Current(a) = First(apply[a].todo)
           /\ apply[a].pc \in {"fetch", "write", "stale", "record", "delete"} => Current(a) \in Note
<1>1. apply[a] \in ApplyRow /\ ApplyFits(apply[a])
  BY DEF IInv, AppliesInv
<1>2. apply[a].todo \in SUBSET Note
  BY <1>1 DEF ApplyRow
<1> QED BY <1>1, <1>2, FirstIn, IsApplying DEF ApplyRow, ApplyFits

LEMMA IdleFits == ASSUME RowsInv PROVE IdleApply \in ApplyRow /\ ApplyFits(IdleApply)
  BY BuildsAre, Parameters DEF IdleApply, Unread, ApplyRow, ApplyFits

\* A request that applies the job goes on.
LEMMA ApplyStep ==
    ASSUME IInv, RowsInv', Onward, UNCHANGED <<upload, preview, reap>>,
           NEW a \in Applier, NEW r \in ApplyRow', ApplyFits(r)', apply' = [apply EXCEPT ![a] = r]
    PROVE  IInv' /\ Onward
<1>1. AppliesInv'
  BY ApplyMoves DEF IInv, RowsInv, RowsFit
<1> QED BY <1>1, StepInv

LEMMA EndApplyInv ==
    ASSUME IInv, RowsInv', Onward, UNCHANGED <<upload, preview, reap>>,
           NEW a \in Applier, EndApply(a)
    PROVE  IInv' /\ Onward
<1>1. IdleApply \in ApplyRow /\ ApplyFits(IdleApply)
  BY IdleFits DEF IInv
<1>2. PICK r : r = IdleApply
  OBVIOUS
<1>3. r \in ApplyRow' /\ ApplyFits(r)'
  <2>1. r \in ApplyRow /\ ApplyFits(r)
    BY <1>1, <1>2
  <2> QED BY <2>1, MoreBuilds, ApplyStillFits DEF IInv, RowsInv, RowsFit
<1> QED BY <1>2, <1>3, ApplyStep DEF EndApply

\* Only the request changes.
LEMMA ApplyOnly ==
    ASSUME IInv, UNCHANGED <<job, entry, target, object, note, builds, lineage, restored, expired>>,
           UNCHANGED <<upload, preview, reap>>,
           NEW a \in Applier,
           \/ EndApply(a)
           \/ \E r \in ApplyRow : ApplyFits(r) /\ apply' = [apply EXCEPT ![a] = r]
    PROVE  IInv' /\ Onward
<1>1. RowsInv' /\ Onward
  BY RowsSame DEF IInv
<1>2. CASE EndApply(a)
  BY <1>1, <1>2, EndApplyInv
<1>3. ASSUME NEW r \in ApplyRow, ApplyFits(r), apply' = [apply EXCEPT ![a] = r] PROVE IInv' /\ Onward
  <2>1. r \in ApplyRow' /\ ApplyFits(r)'
    BY <1>1, <1>3, MoreBuilds, ApplyStillFits DEF IInv, RowsInv, RowsFit
  <2> QED BY <1>1, <1>3, <2>1, ApplyStep
<1> QED BY <1>2, <1>3

\* Between two awaits at which the same note is at hand.
LEMMA ApplyAtFits ==
    ASSUME IInv, NEW a \in Applier, NEW pc \in {"write", "stale", "build", "complete", "queue"},
           apply[a].pc \in {"fetch", "write", "count", "build"},
           pc \in {"write", "stale"} => apply[a].todo # {},
           pc \in {"build", "complete", "queue"} /\ job.status = "applying" =>
              \A n \in Note : entry[n] = "applied",
           pc = "complete" => apply[a].build # 0,
           ApplyAt(a, pc)
    PROVE  \E r \in ApplyRow : ApplyFits(r) /\ apply' = [apply EXCEPT ![a] = r]
<1>1. PICK r : r = [apply[a] EXCEPT !.pc = pc]
  OBVIOUS
<1>2. /\ r \in ApplyRow /\ r.pc = pc /\ r.todo = apply[a].todo /\ r.build = apply[a].build
      /\ apply' = [apply EXCEPT ![a] = r]
  BY <1>1, ApplyIs DEF ApplyRow, ApplyAt
<1>3. ApplyFits(r)
  BY <1>2, ApplyIs DEF ApplyFits
<1> QED BY <1>2, <1>3

LEMMA BeginApplyInv == ASSUME IInv, NEW a \in Applier, BeginApply(a) PROVE IInv' /\ Onward
<1>1. PICK r : r = [IdleApply EXCEPT !.pc = "select", !.build = job.build]
  OBVIOUS
<1>2. /\ UNCHANGED <<job, entry, target, object, note, builds, lineage, restored, expired>>
      /\ UNCHANGED <<upload, preview, reap>> /\ job.status = "applying"
      /\ apply' = [apply EXCEPT ![a] = r]
  BY <1>1 DEF BeginApply, rows, outside
<1>3. r \in ApplyRow /\ r.pc = "select" /\ r.build = job.build
  BY <1>1, IdleFits, JobIs DEF IInv, ApplyRow
<1>4. ApplyFits(r)
  BY <1>2, <1>3 DEF ApplyFits, IInv, RowsInv, BuildsFit
<1> QED BY <1>2, <1>3, <1>4, ApplyOnly

LEMMA SelectBatchInv == ASSUME IInv, NEW a \in Applier, SelectBatch(a) PROVE IInv' /\ Onward
<1>1. PICK batch \in SUBSET Note : batch = NextBatch
  BY DEF NextBatch, Entries
<1>2. PICK expect \in [Note -> Content] :
         expect = [n \in Note |-> IF n \in NextBatch THEN target[n] ELSE Absent]
  BY Parameters DEF IInv, RowsInv, RowsFit
<1>3. PICK r : r = [apply[a] EXCEPT !.todo = batch, !.pc = Continue(batch), !.expect = expect]
  OBVIOUS
<1>4. /\ UNCHANGED <<job, entry, target, object, note, builds, lineage, restored, expired>>
      /\ UNCHANGED <<upload, preview, reap>> /\ apply[a].pc = "select"
      /\ apply' = [apply EXCEPT ![a] = r]
  <2>1. apply' = [apply EXCEPT ![a].todo = batch, ![a].pc = Continue(batch), ![a].expect = expect]
    BY <1>1, <1>2 DEF SelectBatch
  <2> QED BY <1>3, <2>1 DEF SelectBatch, rows, outside
<1>5. Continue(batch) \in {"count", "fetch"} /\ (Continue(batch) = "fetch" => batch # {})
  BY DEF Continue
<1>6. /\ r \in ApplyRow /\ r.pc \in {"count", "fetch"} /\ r.build = apply[a].build
      /\ r.pc = "fetch" => r.todo # {}
  BY <1>3, <1>5, ApplyIs DEF ApplyRow
<1>7. ApplyFits(r)
  BY <1>4, <1>6, ApplyIs DEF ApplyFits
<1> QED BY <1>4, <1>6, <1>7, ApplyOnly

LEMMA FetchObjectInv == ASSUME IInv, NEW a \in Applier, FetchObject(a) PROVE IInv' /\ Onward
<1>1. /\ UNCHANGED <<job, entry, target, object, note, builds, lineage, restored, expired>>
      /\ UNCHANGED <<upload, preview, reap>> /\ apply[a].pc = "fetch"
      /\ ApplyAt(a, "write") \/ EndApply(a)
  BY DEF FetchObject, rows, outside
<1>2. apply[a].todo # {}
  BY <1>1, ApplyIs DEF ApplyFits
<1>3. CASE ApplyAt(a, "write")
  BY <1>1, <1>2, <1>3, ApplyAtFits, ApplyOnly
<1>4. CASE EndApply(a)
  BY <1>1, <1>4, ApplyOnly
<1> QED BY <1>1, <1>3, <1>4

LEMMA RestoreWriteInv == ASSUME IInv, NEW a \in Applier, RestoreWrite(a) PROVE IInv' /\ Onward
<1>1. PICK n : n = Current(a)
  OBVIOUS
<1>2. /\ UNCHANGED <<job, entry, target, object, builds, lineage, expired>>
      /\ UNCHANGED <<upload, preview, reap>> /\ apply[a].pc = "write"
      /\ \/ note' = [note EXCEPT ![n] = Source] /\ restored' = restored \cup {n} /\ ApplyAt(a, "record")
         \/ ApplyAt(a, "stale") /\ UNCHANGED <<note, restored>>
  BY <1>1 DEF RestoreWrite, rows
<1>3. n \in Note /\ n = First(apply[a].todo) /\ apply[a].todo # {}
  BY <1>1, <1>2, ApplyIs DEF ApplyFits
<1>4. CASE ApplyAt(a, "stale") /\ UNCHANGED <<note, restored>>
  BY <1>2, <1>3, <1>4, ApplyAtFits, ApplyOnly
<1>5. CASE note' = [note EXCEPT ![n] = Source] /\ restored' = restored \cup {n} /\ ApplyAt(a, "record")
  <2>1. RowsInv' /\ Onward
    <3>1. \A m \in Note : EntryMoves(m) /\ ObjectMoves(m)
      BY <1>2 DEF EntryMoves, ObjectMoves
    <3>2. ~expired => \A m \in Note : entry'[m] = "staged" => m \in object'
      BY <1>2 DEF IInv, RowsInv, ObjectsFit
    <3>3. /\ entry' \in [Note -> {"none", "pending", "staged", "applied"}]
          /\ target' \in [Note -> Content] /\ note' \in [Note -> Content] /\ object' \subseteq Note
          /\ lineage' \subseteq Note /\ restored' \subseteq Note /\ restored \subseteq restored'
      BY <1>2, <1>3, <1>5, Parameters DEF IInv, RowsInv, RowsFit
    <3> QED BY <1>2, <3>1, <3>2, <3>3, EntryWritten DEF IInv
  <2>2. PICK r : r = [apply[a] EXCEPT !.pc = "record"]
    OBVIOUS
  <2>3. /\ r \in ApplyRow /\ r.pc = "record" /\ r.todo = apply[a].todo /\ r.build = apply[a].build
        /\ apply' = [apply EXCEPT ![a] = r]
    BY <1>5, <2>2, ApplyIs DEF ApplyRow, ApplyAt
  <2>4. ApplyFits(r)'
    <3>1. First(r.todo) \in restored'
      BY <1>3, <1>5, <2>3
    <3>2. r.build # 0 /\ job'.status = "applying" => Holds(r.build)'
      BY <1>2, <2>3, ApplyIs DEF ApplyFits, Holds
    <3>3. job'.status \in {"applying", "applied", "failed"}
      BY <1>2, ApplyIs DEF ApplyFits
    <3> QED BY <1>3, <2>3, <3>1, <3>2, <3>3 DEF ApplyFits
  <2>5. r \in ApplyRow'
    BY <2>1, <2>3, MoreBuilds
  <2> QED BY <1>2, <2>1, <2>3, <2>4, <2>5, ApplyStep
<1> QED BY <1>2, <1>4, <1>5

LEMMA MarkRestoreFailedInv == ASSUME IInv, NEW a \in Applier, MarkRestoreFailed(a) PROVE IInv' /\ Onward
<1>1. /\ UNCHANGED <<entry, target, object, note, builds, lineage, restored, expired>>
      /\ UNCHANGED <<upload, preview, reap>> /\ EndApply(a)
      /\ \/ job' = job
         \/ job.status = "applying" /\ job' = [job EXCEPT !.status = "failed"]
  BY DEF MarkRestoreFailed, outside
<1>2. CASE job' = job
  BY <1>1, <1>2, ApplyOnly
<1>3. CASE job.status = "applying" /\ job' = [job EXCEPT !.status = "failed"]
  <2>1. PICK r : r = job'
    OBVIOUS
  <2>2. r \in JobRow /\ r.status = "failed"
    BY <1>3, <2>1, JobIs DEF IInv, JobRow, Status
  <2>3. RowsInv' /\ Onward
    BY <1>1, <1>3, <2>1, <2>2, JobWritten DEF IInv, StatusMoves
  <2> QED BY <1>1, <2>3, EndApplyInv
<1> QED BY <1>1, <1>2, <1>3

LEMMA RecordAppliedInv == ASSUME IInv, NEW a \in Applier, RecordApplied(a) PROVE IInv' /\ Onward
<1>1. PICK n : n = Current(a)
  OBVIOUS
<1>2. /\ UNCHANGED <<job, target, object, note, builds, restored, expired>>
      /\ UNCHANGED <<upload, preview, reap>> /\ apply[a].pc = "record"
      /\ entry' = [entry EXCEPT ![n] = IF @ = "staged" THEN "applied" ELSE @]
      /\ lineage' = IF job.status = "applying" /\ entry'[n] = "applied"
                    THEN lineage \cup {n} ELSE lineage
      /\ IF entry[n] = "staged" THEN ApplyAt(a, "delete") ELSE EndApply(a)
  BY <1>1 DEF RecordApplied, outside, Recorded
<1>3. /\ n \in Note /\ n = First(apply[a].todo) /\ apply[a].todo # {} /\ n \in restored
      /\ job.status \in {"applying", "applied", "failed"}
      /\ entry \in [Note -> {"none", "pending", "staged", "applied"}]
  BY <1>1, <1>2, ApplyIs DEF ApplyFits, IInv, RowsInv, RowsFit
<1>4. /\ entry' \in [Note -> {"none", "pending", "staged", "applied"}]
      /\ \A m \in Note : \/ entry'[m] = entry[m]
                         \/ m = n /\ entry[m] = "staged" /\ entry'[m] = "applied"
  BY <1>2, <1>3
<1>5. RowsInv' /\ Onward
  <2>1. \A m \in Note : EntryMoves(m) /\ ObjectMoves(m)
    BY <1>2, <1>4 DEF EntryMoves, ObjectMoves
  <2>2. ~expired => \A m \in Note : entry'[m] = "staged" => m \in object'
    BY <1>2, <1>4 DEF IInv, RowsInv, ObjectsFit
  <2>3. /\ target' \in [Note -> Content] /\ note' \in [Note -> Content] /\ object' \subseteq Note
        /\ lineage' \subseteq Note /\ lineage \subseteq lineage' /\ restored' \subseteq Note
    BY <1>2, <1>3 DEF IInv, RowsInv, RowsFit
  <2>4. \A m \in Note : entry'[m] = "applied" /\ entry[m] # "applied" =>
              /\ job.status \in {"applying", "applied", "failed"}
              /\ m \in restored'
              /\ job.status = "applying" => m \in lineage'
    BY <1>2, <1>3, <1>4
  <2> QED BY <1>2, <1>4, <2>1, <2>2, <2>3, <2>4, EntryWritten DEF IInv
<1>6. CASE entry[n] # "staged"
  BY <1>2, <1>5, <1>6, EndApplyInv
<1>7. CASE entry[n] = "staged"
  <2>1. PICK r : r = [apply[a] EXCEPT !.pc = "delete"]
    OBVIOUS
  <2>2. /\ r \in ApplyRow /\ r.pc = "delete" /\ r.todo = apply[a].todo /\ r.build = apply[a].build
        /\ apply' = [apply EXCEPT ![a] = r]
    BY <1>2, <1>7, <2>1, ApplyIs DEF ApplyRow, ApplyAt
  <2>3. entry'[n] = "applied"
    BY <1>2, <1>3, <1>7
  <2>4. ApplyFits(r)'
    <3>1. r.build # 0 /\ job'.status = "applying" => Holds(r.build)'
      BY <1>2, <2>2, ApplyIs DEF ApplyFits, Holds
    <3> QED BY <1>2, <1>3, <2>2, <2>3, <3>1 DEF ApplyFits
  <2> QED BY <1>2, <1>5, <2>2, <2>4, MoreBuilds, ApplyStep
<1> QED BY <1>6, <1>7

LEMMA DeleteObjectInv == ASSUME IInv, NEW a \in Applier, DeleteObject(a) PROVE IInv' /\ Onward
<1>1. PICK n : n = Current(a)
  OBVIOUS
<1>2. PICK rest : rest = apply[a].todo \ {n}
  OBVIOUS
<1>3. PICK r : r = [apply[a] EXCEPT !.todo = rest, !.pc = Continue(rest)]
  OBVIOUS
<1>4. /\ UNCHANGED <<job, entry, target, note, builds, lineage, restored, expired>>
      /\ UNCHANGED <<upload, preview, reap>> /\ apply[a].pc = "delete"
      /\ object' \in {object, object \ {n}}
      /\ apply' = [apply EXCEPT ![a] = r]
  <2>1. apply' = [apply EXCEPT ![a].todo = rest, ![a].pc = Continue(rest)]
    BY <1>1, <1>2 DEF DeleteObject
  <2> QED BY <1>1, <1>3, <2>1 DEF DeleteObject, rows, outside
<1>5. entry[n] \in {"applied", "none"}
  BY <1>1, <1>4, ApplyIs DEF ApplyFits
<1>6. RowsInv' /\ Onward
  <2>1. \A m \in Note : EntryMoves(m) /\ ObjectMoves(m)
    BY <1>4, <1>5 DEF EntryMoves, ObjectMoves
  <2>2. ~expired => \A m \in Note : entry'[m] = "staged" => m \in object'
    BY <1>4, <1>5 DEF IInv, RowsInv, ObjectsFit
  <2>3. /\ entry' \in [Note -> {"none", "pending", "staged", "applied"}]
        /\ target' \in [Note -> Content] /\ note' \in [Note -> Content] /\ object' \subseteq Note
        /\ lineage' \subseteq Note /\ restored' \subseteq Note
    BY <1>4 DEF IInv, RowsInv, RowsFit
  <2> QED BY <1>4, <2>1, <2>2, <2>3, EntryWritten DEF IInv
<1>7. Continue(rest) \in {"count", "fetch"} /\ (Continue(rest) = "fetch" => rest # {})
  BY DEF Continue
<1>8. /\ r \in ApplyRow /\ r.pc \in {"count", "fetch"} /\ r.build = apply[a].build
      /\ r.pc = "fetch" => r.todo # {}
  <2>1. rest \in SUBSET Note
    BY <1>2, ApplyIs
  <2> QED BY <1>3, <1>7, <2>1, ApplyIs DEF ApplyRow
<1>9. ApplyFits(r)'
  <2>1. r.build # 0 /\ job'.status = "applying" => Holds(r.build)'
    BY <1>4, <1>8, ApplyIs DEF ApplyFits, Holds
  <2>2. job'.status \in {"applying", "applied", "failed"}
    BY <1>4, ApplyIs DEF ApplyFits
  <2> QED BY <1>8, <2>1, <2>2 DEF ApplyFits
<1> QED BY <1>4, <1>6, <1>8, <1>9, MoreBuilds, ApplyStep

LEMMA CountRemainingInv == ASSUME IInv, NEW a \in Applier, CountRemaining(a) PROVE IInv' /\ Onward
<1>1. /\ UNCHANGED <<job, entry, target, object, note, builds, lineage, restored, expired>>
      /\ UNCHANGED <<upload, preview, reap>> /\ apply[a].pc = "count"
      /\ IF NoneRemaining THEN ApplyAt(a, "build") ELSE EndApply(a)
  BY DEF CountRemaining, rows, outside
<1>2. CASE NoneRemaining
  <2>1. job.status = "applying" => \A n \in Note : entry[n] = "applied"
    BY <1>2 DEF NoneRemaining, IInv, RowsInv, EntriesFit
  <2> QED BY <1>1, <1>2, <2>1, ApplyAtFits, ApplyOnly
<1>3. CASE ~NoneRemaining
  BY <1>1, <1>3, ApplyOnly
<1> QED BY <1>2, <1>3

LEMMA CheckBuildInv == ASSUME IInv, NEW a \in Applier, CheckBuild(a) PROVE IInv' /\ Onward
<1>1. /\ UNCHANGED <<entry, target, object, note, builds, lineage, restored, expired>>
      /\ UNCHANGED <<upload, preview, reap>> /\ apply[a].pc = "build"
      /\ \/ UNCHANGED job /\ apply[a].build # 0 /\ ApplyAt(a, "complete")
         \/ UNCHANGED job /\ EndApply(a)
         \/ ApplyAt(a, "queue") /\ DropBuild(apply[a].build)
  BY DEF CheckBuild, outside, UsableBuild
<1>2. job.status = "applying" => \A n \in Note : entry[n] = "applied"
  BY <1>1, ApplyIs DEF ApplyFits
<1>3. CASE UNCHANGED job /\ apply[a].build # 0 /\ ApplyAt(a, "complete")
  BY <1>1, <1>2, <1>3, ApplyAtFits, ApplyOnly
<1>4. CASE UNCHANGED job /\ EndApply(a)
  BY <1>1, <1>4, ApplyOnly
<1>5. CASE ApplyAt(a, "queue") /\ DropBuild(apply[a].build)
  <2>1. PICK r \in ApplyRow : ApplyFits(r) /\ apply' = [apply EXCEPT ![a] = r]
    BY <1>1, <1>2, <1>5, ApplyAtFits
  <2>2. RowsInv' /\ Onward
    BY <1>1, <1>5, DropBuildFits DEF IInv
  <2>3. r \in ApplyRow' /\ ApplyFits(r)'
    BY <2>1, <2>2, MoreBuilds, ApplyStillFits DEF IInv, RowsInv, RowsFit
  <2> QED BY <1>1, <2>1, <2>2, <2>3, ApplyStep
<1> QED BY <1>1, <1>3, <1>4, <1>5

LEMMA ApplyBuildInv == ASSUME IInv, NEW a \in Applier, ApplyBuild(a) PROVE IInv' /\ Onward
<1>1. PICK status \in {"queued", "completed"} :
         /\ QueueBuild(status)
         /\ apply' = [apply EXCEPT
               ![a].pc = IF status = "queued" THEN "register" ELSE "complete",
               ![a].build = Len(builds')]
  BY DEF ApplyBuild
<1>2. /\ UNCHANGED <<job, entry, target, object, note, lineage, restored, expired>>
      /\ UNCHANGED <<upload, preview, reap>> /\ apply[a].pc = "queue"
  BY DEF ApplyBuild, rows
<1>3. /\ RowsInv' /\ Onward
      /\ Len(builds') \in 1..Len(builds') /\ Len(builds') # 0
      /\ builds'[Len(builds')].has = restored
  BY <1>1, <1>2, BuildQueued DEF IInv
<1>4. PICK pc \in {"register", "complete"} : pc = IF status = "queued" THEN "register" ELSE "complete"
  OBVIOUS
<1>5. PICK b : b = Len(builds')
  OBVIOUS
<1>6. PICK r : r = [apply[a] EXCEPT !.pc = pc, !.build = b]
  OBVIOUS
<1>7. apply' = [apply EXCEPT ![a] = r] /\ r \in ApplyRow' /\ r.pc = pc /\ r.build = b
  <2>1. apply' = [apply EXCEPT ![a].pc = pc, ![a].build = b]
    BY <1>1, <1>4, <1>5
  <2>2. apply' = [apply EXCEPT ![a] = r]
    BY <1>6, <2>1
  <2>3. b \in 0..Len(builds')
    BY <1>3, <1>5 DEF Onward
  <2>4. r \in ApplyRow' /\ r.pc = pc /\ r.build = b
    BY <1>6, <2>3, ApplyIs DEF ApplyRow
  <2> QED BY <2>2, <2>4
<1>8. ApplyFits(r)'
  <2>1. job.status = "applying" => \A n \in Note : entry[n] = "applied"
    BY <1>2, ApplyIs DEF ApplyFits
  <2>2. job.status = "applying" => restored = Note
    BY <2>1 DEF IInv, RowsInv, RowsFit, EntriesFit
  <2>3. job'.status = "applying" => Holds(r.build)'
    BY <1>2, <1>3, <1>5, <1>7, <2>2 DEF Holds
  <2>4. job'.status \in {"applying", "applied", "failed"}
    BY <1>2, ApplyIs DEF ApplyFits
  <2> QED BY <1>2, <1>3, <1>5, <1>7, <2>1, <2>3, <2>4 DEF ApplyFits
<1> QED BY <1>2, <1>3, <1>7, <1>8, ApplyStep

LEMMA ApplyPendingInv == ASSUME IInv, NEW a \in Applier, ApplyPending(a) PROVE IInv' /\ Onward
<1>1. PICK b : b = apply[a].build
  OBVIOUS
<1>2. /\ UNCHANGED <<entry, target, object, note, builds, lineage, restored, expired>>
      /\ UNCHANGED <<upload, preview, reap>> /\ apply[a].pc = "register"
      /\ RegisterBuild(b, "applying") /\ EndApply(a)
  BY <1>1 DEF ApplyPending, outside
<1>3. b \in 0..Len(builds) /\ (job.status = "applying" => Holds(b))
  BY <1>1, <1>2, ApplyIs DEF ApplyFits
<1>4. RowsInv' /\ Onward
  BY <1>2, <1>3, RegisterBuildFits DEF IInv
<1> QED BY <1>2, <1>4, EndApplyInv

LEMMA CompleteInv == ASSUME IInv, NEW a \in Applier, Complete(a) PROVE IInv' /\ Onward
<1>1. PICK b : b = apply[a].build
  OBVIOUS
<1>2. /\ UNCHANGED <<entry, target, object, note, builds, lineage, restored, expired>>
      /\ UNCHANGED <<upload, preview, reap>> /\ apply[a].pc = "complete" /\ EndApply(a)
      /\ \/ job' = job
         \/ /\ job.status = "applying"
            /\ job' = [job EXCEPT !.status = "applied", !.verified = b, !.build = 0]
  BY <1>1 DEF Complete, outside
<1>3. CASE job' = job
  BY <1>2, <1>3, ApplyOnly
<1>4. CASE job.status = "applying" /\ job' = [job EXCEPT !.status = "applied", !.verified = b, !.build = 0]
  <2>1. b \in 0..Len(builds) /\ Holds(b) /\ \A n \in Note : entry[n] = "applied"
    BY <1>1, <1>2, <1>4, ApplyIs DEF ApplyFits
  <2>2. restored = Note /\ lineage = Note
    BY <1>4, <2>1 DEF IInv, RowsInv, RowsFit, EntriesFit
  <2>3. PICK r : r = job'
    OBVIOUS
  <2>4. r \in JobRow /\ r.status = "applied" /\ r.verified = b
    <3>1. 0 \in 0..Len(builds) /\ job \in JobRow
      BY JobIs, BuildsAre DEF IInv
    <3> QED BY <1>4, <2>1, <2>3, <3>1 DEF JobRow, Status
  <2>5. StatusMoves
    BY <1>4, <2>3, <2>4 DEF StatusMoves
  <2>6. RowsInv' /\ Onward
    BY <1>2, <2>1, <2>2, <2>3, <2>4, <2>5, JobWritten DEF IInv
  <2> QED BY <1>2, <2>6, EndApplyInv
<1> QED BY <1>2, <1>3, <1>4

-----------------------------------------------------------------------------
(* The reaper *)

LEMMA ReapIs ==
    ASSUME IInv
    PROVE  /\ reap \in [pc : {"idle", "objects", "status", "entries"}, seen : Status]
           /\ reap.seen \in Status
           /\ reap.pc # "idle" => expired
           /\ reap.pc \in {"objects", "status"} =>
                /\ reap.seen # "none" /\ job.status # "none"
                /\ reap.seen \in {"applied", "failed"} => job.status = reap.seen
           /\ reap.pc = "entries" => job.status \in {"applied", "failed"}
  BY DEF IInv, ReapInv

LEMMA ClaimCleanupInv == IInv /\ ClaimCleanup => IInv' /\ Onward
<1> SUFFICES ASSUME IInv, ClaimCleanup PROVE IInv' /\ Onward
  OBVIOUS
<1>1. /\ UNCHANGED <<job, entry, target, object, note, builds, lineage, restored, expired>>
      /\ UNCHANGED <<upload, preview, apply>> /\ expired
      /\ Entries("none") # Note /\ reap' = [pc |-> "objects", seen |-> job.status]
  BY DEF ClaimCleanup, rows, outside
<1>2. job.status # "none" /\ job.status \in Status
  BY <1>1, JobIs DEF IInv, RowsInv, EntriesFit, Entries
<1>3. ReapInv'
  BY <1>1, <1>2 DEF ReapInv
<1> QED BY <1>1, <1>3, RowsSame, StepInv DEF IInv

LEMMA ReapObjectsInv == IInv /\ ReapObjects => IInv' /\ Onward
<1> SUFFICES ASSUME IInv, ReapObjects PROVE IInv' /\ Onward
  OBVIOUS
<1>1. /\ UNCHANGED <<job, entry, target, note, builds, lineage, restored, expired>>
      /\ UNCHANGED <<upload, preview, apply>> /\ reap.pc = "objects"
      /\ object' \subseteq object /\ reap' = [reap EXCEPT !.pc = "status"]
  BY DEF ReapObjects, rows, outside, ReapAt
<1>2. expired
  BY <1>1, ReapIs
<1>3. RowsInv' /\ Onward
  <2>1. \A m \in Note : EntryMoves(m) /\ ObjectMoves(m)
    BY <1>1, <1>2 DEF EntryMoves, ObjectMoves
  <2>2. /\ entry' \in [Note -> {"none", "pending", "staged", "applied"}]
        /\ target' \in [Note -> Content] /\ note' \in [Note -> Content] /\ object' \subseteq Note
        /\ lineage' \subseteq Note /\ restored' \subseteq Note
    BY <1>1 DEF IInv, RowsInv, RowsFit
  <2> QED BY <1>1, <1>2, <2>1, <2>2, EntryWritten DEF IInv
<1>4. ReapInv'
  BY <1>1, ReapIs DEF ReapInv
<1> QED BY <1>1, <1>3, <1>4, StepInv

LEMMA FailExpiredInv == IInv /\ FailExpired => IInv' /\ Onward
<1> SUFFICES ASSUME IInv, FailExpired PROVE IInv' /\ Onward
  OBVIOUS
<1>1. /\ UNCHANGED <<entry, target, object, note, builds, lineage, restored, expired>>
      /\ UNCHANGED <<upload, preview, apply>> /\ reap.pc = "status"
      /\ reap' = [reap EXCEPT !.pc = "entries"]
      /\ job' = CASE reap.seen \in Unfinished /\ job.status \in Unfinished ->
                        [job EXCEPT !.status = "failed", !.build = 0]
                   [] reap.seen = "failed" /\ job.status = "failed" -> [job EXCEPT !.build = 0]
                   [] OTHER -> job
  BY DEF FailExpired, outside, ReapAt
<1>2. /\ reap.seen \in Status /\ job.status \in Status /\ expired
      /\ reap.seen # "none" /\ job.status # "none"
      /\ reap.seen \in {"applied", "failed"} => job.status = reap.seen
  BY <1>1, ReapIs, JobIs DEF IInv
<1>3. \/ job.status \in Unfinished /\ job' = [job EXCEPT !.status = "failed", !.build = 0]
      \/ job.status \in {"applied", "failed"} /\ (job' = job \/ job' = [job EXCEPT !.build = 0])
  <2>1. CASE reap.seen \in Unfinished /\ job.status \in Unfinished
    BY <1>1, <2>1
  <2>2. CASE reap.seen = "failed" /\ job.status = "failed"
    BY <1>1, <2>2 DEF Unfinished
  <2>3. CASE ~(reap.seen \in Unfinished /\ job.status \in Unfinished)
             /\ ~(reap.seen = "failed" /\ job.status = "failed")
    BY <1>1, <1>2, <2>3 DEF Unfinished, Status
  <2> QED BY <2>1, <2>2, <2>3
<1>4. PICK r : r = job'
  OBVIOUS
<1>5. /\ r \in JobRow /\ r.status \in {"applied", "failed"} /\ r.verified = job.verified
      /\ r.status = job.status \/ (job.status \in Unfinished /\ r.status = "failed")
  <2>1. 0 \in 0..Len(builds) /\ job \in JobRow
    BY JobIs, BuildsAre DEF IInv
  <2>2. CASE job.status \in Unfinished /\ job' = [job EXCEPT !.status = "failed", !.build = 0]
    BY <1>4, <2>1, <2>2 DEF JobRow, Status
  <2>3. CASE job.status \in {"applied", "failed"} /\ job' = job
    BY <1>4, <2>1, <2>3
  <2>4. CASE job.status \in {"applied", "failed"} /\ job' = [job EXCEPT !.build = 0]
    BY <1>4, <2>1, <2>4 DEF JobRow
  <2> QED BY <1>3, <2>2, <2>3, <2>4
<1>6. RowsInv' /\ Onward
  <2>1. StatusMoves
    BY <1>4, <1>5 DEF StatusMoves, Unfinished
  <2>2. r.status = "applied" => restored = Note /\ lineage = Note /\ Holds(r.verified)
    BY <1>5 DEF IInv, RowsInv, BuildsFit
  <2> QED BY <1>1, <1>4, <1>5, <2>1, <2>2, JobWritten DEF IInv
<1>7. ReapInv'
  <2>1. reap' \in [pc : {"idle", "objects", "status", "entries"}, seen : Status] /\ reap'.pc = "entries"
    BY <1>1, ReapIs
  <2> QED BY <1>1, <1>2, <1>4, <1>5, <2>1 DEF ReapInv
<1> QED BY <1>1, <1>6, <1>7, StepInv

LEMMA ReapEntriesInv == IInv /\ ReapEntries => IInv' /\ Onward
<1> SUFFICES ASSUME IInv, ReapEntries PROVE IInv' /\ Onward
  OBVIOUS
<1>1. /\ UNCHANGED <<job, object, note, builds, lineage, restored, expired>>
      /\ UNCHANGED <<upload, preview, apply>> /\ reap.pc = "entries"
      /\ entry' = [n \in Note |-> "none"] /\ target' = [n \in Note |-> Absent] /\ reap' = IdleReap
  BY DEF ReapEntries, outside
<1>2. expired /\ job.status \in {"applied", "failed"}
  BY <1>1, ReapIs
<1>3. RowsInv' /\ Onward
  <2>1. \A m \in Note : entry'[m] = "none" /\ EntryMoves(m) /\ ObjectMoves(m)
    BY <1>1, <1>2 DEF EntryMoves, ObjectMoves
  <2>2. /\ entry' \in [Note -> {"none", "pending", "staged", "applied"}]
        /\ target' \in [Note -> Content] /\ note' \in [Note -> Content] /\ object' \subseteq Note
        /\ lineage' \subseteq Note /\ restored' \subseteq Note
    BY <1>1, Parameters DEF IInv, RowsInv, RowsFit
  <2> QED BY <1>1, <1>2, <2>1, <2>2, EntryWritten DEF IInv
<1>4. ReapInv'
  BY <1>1 DEF ReapInv, IdleReap, Status
<1> QED BY <1>1, <1>3, <1>4, StepInv

-----------------------------------------------------------------------------
(* The surroundings *)

LEMMA EditInv == ASSUME IInv, NEW n \in Edited, Edit(n) PROVE IInv' /\ Onward
<1>1. PICK content \in Content : note' = [note EXCEPT ![n] = content]
  BY DEF Edit
<1>2. /\ UNCHANGED <<job, entry, target, object, builds, lineage, restored, expired>>
      /\ UNCHANGED <<upload, preview, apply, reap>>
  BY DEF Edit, rows, requests
<1>3. RowsInv' /\ Onward
  <2>1. \A m \in Note : EntryMoves(m) /\ ObjectMoves(m)
    BY <1>2 DEF EntryMoves, ObjectMoves
  <2>2. ~expired => \A m \in Note : entry'[m] = "staged" => m \in object'
    BY <1>2 DEF IInv, RowsInv, ObjectsFit
  <2>3. /\ entry' \in [Note -> {"none", "pending", "staged", "applied"}]
        /\ target' \in [Note -> Content] /\ note' \in [Note -> Content] /\ object' \subseteq Note
        /\ lineage' \subseteq Note /\ restored' \subseteq Note
    BY <1>1, <1>2 DEF IInv, RowsInv, RowsFit
  <2> QED BY <1>2, <2>1, <2>2, <2>3, EntryWritten DEF IInv
<1> QED BY <1>2, <1>3, StepInv

LEMMA BuildEndsInv == ASSUME IInv, NEW b \in 1..Len(builds), BuildEnds(b) PROVE IInv' /\ Onward
<1>1. PICK status \in {"completed", "failed"} : builds' = [builds EXCEPT ![b].status = status]
  BY DEF BuildEnds
<1>2. /\ UNCHANGED <<job, entry, target, object, note, lineage, restored, expired>>
      /\ UNCHANGED <<upload, preview, apply, reap>>
  BY DEF BuildEnds, rows, requests
<1>3. PICK r : r = [builds[b] EXCEPT !.status = status]
  OBVIOUS
<1>4. r \in BuildRow /\ r.has = builds[b].has /\ builds' = [builds EXCEPT ![b] = r]
  <2>1. builds[b] \in BuildRow
    BY BuildsAre DEF IInv
  <2> QED BY <1>1, <1>3, <2>1 DEF BuildRow
<1>5. /\ builds' \in Seq(BuildRow) /\ Len(builds') = Len(builds)
      /\ \A i \in 1..Len(builds) : builds'[i].has = builds[i].has
  <2>1. builds \in Seq(BuildRow)
    BY DEF IInv, RowsInv, RowsFit
  <2> QED BY <1>4, <2>1, ExceptSeq
<1>6. RowsInv' /\ Onward
  BY <1>2, <1>5, BuildsAre, BuildsWritten DEF IInv
<1> QED BY <1>2, <1>6, StepInv

LEMMA ExpireInv == IInv /\ Expire => IInv' /\ Onward
<1> SUFFICES ASSUME IInv, Expire PROVE IInv' /\ Onward
  OBVIOUS
<1>1. /\ UNCHANGED <<job, entry, target, object, note, builds, lineage, restored>>
      /\ UNCHANGED <<upload, preview, apply, reap>> /\ expired' = TRUE
  BY DEF Expire, rows, requests
<1>2. Onward
  BY <1>1, BuildsAre DEF Onward, StatusMoves, EntryMoves, ObjectMoves, IInv
<1>3. RowsInv'
  <2>1. JobRow' = JobRow /\ BuildRow' = BuildRow
    BY <1>1 DEF JobRow, BuildRow
  <2>2. RowsFit'
    BY <1>1, <2>1 DEF IInv, RowsInv, RowsFit
  <2>3. EntriesFit' /\ BuildsFit' /\ ObjectsFit'
    BY <1>1 DEF IInv, RowsInv, EntriesFit, BuildsFit, ObjectsFit, Holds
  <2> QED BY <2>2, <2>3 DEF RowsInv
<1> QED BY <1>1, <1>2, <1>3, StepInv

LEMMA AbandonInv == IInv /\ Abandon => IInv' /\ Onward
<1> SUFFICES ASSUME IInv, Abandon PROVE IInv' /\ Onward
  OBVIOUS
<1>1. UNCHANGED <<job, entry, target, object, note, builds, lineage, restored, expired>>
  BY DEF Abandon, rows, outside
<1>2. RowsInv' /\ Onward
  BY <1>1, RowsSame DEF IInv
<1>3. CASE upload' = IdleUpload /\ UNCHANGED <<preview, apply, reap>>
  <2>1. UploadInv'
    BY <1>3, Parameters DEF UploadInv, IdleUpload
  <2> QED BY <1>2, <1>3, <2>1, StepInv
<1>4. ASSUME NEW p \in Previewer, EndPreview(p), UNCHANGED <<upload, apply, reap>>
      PROVE  IInv' /\ Onward
  BY <1>1, <1>2, <1>4, IdlePreviewFits, PreviewStep DEF EndPreview, IInv
<1>5. ASSUME NEW a \in Applier, EndApply(a), UNCHANGED <<upload, preview, reap>>
      PROVE  IInv' /\ Onward
  BY <1>1, <1>5, ApplyOnly
<1>6. CASE reap' = IdleReap /\ UNCHANGED <<upload, preview, apply>>
  <2>1. ReapInv'
    BY <1>6 DEF ReapInv, IdleReap, Status
  <2> QED BY <1>2, <1>6, <2>1, StepInv
<1> QED BY <1>3, <1>4, <1>5, <1>6 DEF Abandon

-----------------------------------------------------------------------------
(* The theorems *)

LEMMA ApplyInv == ASSUME IInv, NEW a \in Applier, Apply(a) PROVE IInv' /\ Onward
  BY BeginApplyInv, SelectBatchInv, FetchObjectInv, RestoreWriteInv, MarkRestoreFailedInv,
     RecordAppliedInv, DeleteObjectInv, CountRemainingInv, CheckBuildInv, ApplyBuildInv,
     ApplyPendingInv, CompleteInv DEF Apply

LEMMA PreviewInv == ASSUME IInv, NEW p \in Previewer, Preview(p) PROVE IInv' /\ Onward
  BY BeginPreviewInv, PreviewBuildInv, PreviewPendingInv, CompareInv, WriteTargetsInv,
     SetPreviewInv DEF Preview

LEMMA NextInv == IInv /\ [Next]_vars => IInv' /\ Onward
<1> SUFFICES ASSUME IInv, [Next]_vars PROVE IInv' /\ Onward
  OBVIOUS
<1>1. CASE CreateJob \/ InsertEntries \/ CreateFailed
  BY <1>1, CreateJobInv, InsertEntriesInv, CreateFailedInv
<1>2. CASE Upload
  BY <1>2, BeginUploadInv, PutObjectInv, MarkStagedInv, CountUploadsInv DEF Upload
<1>3. CASE Confirm
  BY <1>3, ConfirmInv
<1>4. CASE Reap
  BY <1>4, ClaimCleanupInv, ReapObjectsInv, FailExpiredInv, ReapEntriesInv DEF Reap
<1>5. CASE \E p \in Previewer : Preview(p)
  BY <1>5, PreviewInv
<1>6. CASE \E a \in Applier : Apply(a)
  BY <1>6, ApplyInv
<1>7. CASE \E n \in Edited : Edit(n)
  BY <1>7, EditInv
<1>8. CASE \E b \in 1..Len(builds) : BuildEnds(b)
  BY <1>8, BuildEndsInv
<1>9. CASE Expire \/ Abandon
  BY <1>9, ExpireInv, AbandonInv
<1>10. CASE UNCHANGED vars
  <2>1. /\ UNCHANGED <<job, entry, target, object, note, builds, lineage, restored, expired>>
        /\ UNCHANGED <<upload, preview, apply, reap>>
    BY <1>10 DEF vars, rows, requests, outside
  <2> QED BY <2>1, RowsSame, StepInv DEF IInv
<1> QED BY <1>1, <1>2, <1>3, <1>4, <1>5, <1>6, <1>7, <1>8, <1>9, <1>10 DEF Next

(***************************************************************************)
(* The inductive invariant holds: the requests of recovery-service.ts that *)
(* create, upload, preview and apply a restore, the hourly reaper and the  *)
(* ends of abandoned requests keep every part of it.                       *)
(***************************************************************************)
THEOREM Invariance == Spec => []IInv
<1>1. Init => IInv
  BY InitInv
<1>2. IInv /\ [Next]_vars => IInv'
  BY NextInv
<1> QED BY <1>1, <1>2, PTL DEF Spec

LEMMA TypeIs == IInv => TypeOK
<1> SUFFICES ASSUME IInv PROVE TypeOK
  OBVIOUS
<1>1. \A a \in Applier :
         apply[a].pc \in {"fetch", "write", "stale", "record", "delete"} => apply[a].todo # {}
  BY ApplyIs DEF ApplyFits
<1> QED BY <1>1 DEF IInv, RowsInv, RowsFit, UploadInv, PreviewsInv, AppliesInv, ReapInv, TypeOK,
                    JobRow, BuildRow, PreviewRow, ApplyRow, Status

(***************************************************************************)
(* RestoreJob.RestoreInv, for any backup and requests: a restore recorded  *)
(* as applied has written and tagged every note, and was verified by a     *)
(* generation captured after the last of them.                             *)
(***************************************************************************)
THEOREM RestoreStands == Spec => []RestoreInv
<1>1. IInv => AppliedIsComplete /\ VerifiedAfterRestore
  BY DEF IInv, RowsInv, BuildsFit, Holds, AppliedIsComplete, VerifiedAfterRestore
<1>2. IInv => RestoreInv
  BY <1>1, TypeIs DEF RestoreInv
<1> QED BY <1>2, Invariance, PTL

(***************************************************************************)
(* RestoreJob.Resumable, for any backup and requests: every entry still to *)
(* be applied has its staging object, whichever request stopped half way.  *)
(***************************************************************************)
THEOREM StaysResumable == Spec => []Resumable
<1>1. IInv => Resumable
  BY DEF IInv, RowsInv, ObjectsFit, Resumable, Entries
<1> QED BY <1>1, Invariance, PTL

(***************************************************************************)
(* RestoreJob.NoneStranded, for any backup and requests: the entries of a  *)
(* job are deleted only once it is recorded as applied or failed, although *)
(* the reaper acts on the status it read at the start.                     *)
(***************************************************************************)
THEOREM NoJobStranded == Spec => NoneStranded
<1>1. ASSUME Onward, Entries("none") # Note, Entries("none")' = Note
      PROVE  job'.status \in {"applied", "failed"}
  <2>1. PICK n \in Note : entry[n] # "none"
    BY <1>1 DEF Entries
  <2>2. entry'[n] = "none"
    BY <1>1 DEF Entries
  <2>3. job.status \in {"applied", "failed"}
    BY <1>1, <2>1, <2>2 DEF Onward, EntryMoves
  <2> QED BY <1>1, <2>3 DEF Onward, StatusMoves
<1>2. IInv /\ [Next]_vars =>
        [Entries("none") # Note /\ Entries("none")' = Note
           => job'.status \in {"applied", "failed"}]_vars
  BY <1>1, NextInv
<1> QED BY <1>2, Invariance, PTL DEF Spec, NoneStranded

-----------------------------------------------------------------------------
(* ProjectCreation: the inductive invariant *)

\* The rows of requests, of claims and of handoffs, and the contracts a name is reserved under.
RequestRow == [status : {"none", "pending", "approved", "rejected", "expired"}, overdue : BOOLEAN]
ClaimRow == [id : 0..MaxClaims, live : BOOLEAN]
Contract == {Definition(r, p) : r \in Request, p \in Policy}
HandoffRow ==
    [id : Nat, status : {"none", "prepared", "claiming", "consumed", "revoked"},
     agent : Agent \cup {None}, request : Request \cup {None}, live : BOOLEAN]
\* A call of the approval service, by where it is.
CallAt ==
    [pc : {"claim", "reserve", "again", "bound", "receipt", "create", "bind", "check", "approve",
           "commit", "consume", "release", "return", "giveback"},
     request : Request, policy : Policy, claim : Nat, handoff : Nat, lapsed : SUBSET Nat]

\* Requests, claims and handoffs, and the calls.
RequestsFit ==
    /\ request \in [Request -> RequestRow] /\ claim \in [Request -> ClaimRow]
    /\ claims \in 0..MaxClaims
    /\ handoff \in HandoffRow /\ (handoff.live => handoff.status = "claiming")
    /\ call \in [Slot -> CallAt \cup {Idle}]

\* At most one project has the name, and what is reserved and received is that project.
NameFits ==
    /\ \A x, y \in project : x = y
    /\ IsFiniteSet(project)
    /\ \A x \in project : x.definition = <<x.payload[1], x.payload[3]>>
    /\ receipt \in [Request -> project \cup {None}]
    /\ \A r \in Request : receipt[r] # None => receipt[r].payload[1] = Draft[r]
    /\ reservation \in [creator : Request \cup {None}, contract : Contract \cup {None},
                        project : project \cup {None}]
    /\ reservation.creator # None =>
          \E p \in Policy : reservation.contract = Definition(reservation.creator, p)
    /\ reservation.project # None =>
          reservation.creator # None /\ reservation.project = receipt[reservation.creator]

\* A call past the check knows the reserved project and its policy.
CallKnows(q) ==
    /\ q.pc \in {"check", "approve", "commit"} =>
          reservation.project # None /\ reservation.contract = Definition(q.request, q.policy)
    /\ q.pc \in {"approve", "commit"} => reservation.project.definition[2] = q.policy
\* So do all calls.
CallsKnow == \A s \in Slot : CallKnows(call[s])

\* An approval is of an approved request, and of its project; there is one for each request.
ApprovalFits ==
    /\ \A a \in approval : a.request \in Request /\ request[a.request].status = "approved"
                           /\ a.project.definition = Definition(a.request, a.policy)
    /\ \A a, b \in approval : a.request = b.request => a = b

\* The inductive invariant behind CreationInv.
CreationFits == RequestsFit /\ NameFits /\ CallsKnow /\ ApprovalFits

\* The slots hold calls.
CallFits(q) == q \in CallAt \cup {Idle}

\* A call not yet past the check relies on nothing.
LEMMA NothingKnown ==
    ASSUME NEW s, call'[s].pc \notin {"check", "approve", "commit"}
    PROVE  CallKnows(call[s])'
  BY DEF CallKnows

\* A call that goes somewhere.
LEMMA GoingOn ==
    ASSUME RequestsFit, NEW s \in Slot, call[s].pc # "idle", NEW pc, Goto(s, pc),
           pc \in {"claim", "reserve", "again", "bound", "receipt", "create", "bind", "check", "approve",
                   "commit", "consume", "release", "return", "giveback"}
    PROVE  /\ call[s] \in CallAt
           /\ call' \in [Slot -> CallAt \cup {Idle}]
           /\ call'[s].pc = pc /\ call'[s].request = call[s].request /\ call'[s].policy = call[s].policy
           /\ \A d \in Slot \ {s} : call'[d] = call[d]
<1>1. call \in [Slot -> CallAt \cup {Idle}]
  BY DEF RequestsFit
<1>2. call[s] \in CallAt
  BY <1>1 DEF Idle
<1> QED BY <1>1, <1>2 DEF Goto, CallAt

\* A call that ends.
LEMMA IsDone ==
    ASSUME RequestsFit, NEW s \in Slot, Done(s)
    PROVE  /\ call' \in [Slot -> CallAt \cup {Idle}]
           /\ call'[s] = Idle /\ \A d \in Slot \ {s} : call'[d] = call[d]
  BY DEF Done, RequestsFit

\* A bound reservation is left alone by whatever leaves its project.
LEMMA KnowledgeStays ==
    ASSUME CallsKnow, reservation.project # None => reservation' = reservation,
           NEW s \in Slot, \A d \in Slot \ {s} : call'[d] = call[d],
           CallKnows(call[s])'
    PROVE  CallsKnow'
<1>1. SUFFICES ASSUME NEW d \in Slot, d # s, call'[d] = call[d] PROVE CallKnows(call[d])'
  BY DEF CallsKnow
<1>2. CallKnows(call[d])
  BY DEF CallsKnow
<1> QED BY <1>1, <1>2 DEF CallKnows

\* The name, when a step has no part in it.
LEMMA NameStays ==
    ASSUME NameFits, UNCHANGED nameVars
    PROVE  NameFits'
  BY DEF NameFits, nameVars

\* The approvals, when a step has no part in them.
LEMMA ApprovalStays ==
    ASSUME ApprovalFits, approval' = approval,
           \A r \in Request : request[r].status = "approved" => request'[r].status = "approved"
    PROVE  ApprovalFits'
  BY DEF ApprovalFits

\* The calls, when none moves.
LEMMA CallsStay ==
    ASSUME CallsKnow, UNCHANGED <<reservation, call>>
    PROVE  CallsKnow'
  BY DEF CallsKnow, CallKnows

-----------------------------------------------------------------------------
(* Around the calls *)

\* Requests are made, lapse and are rejected; handoffs lapse and are revoked.
LEMMA EnvironmentFits ==
    ASSUME CreationFits, Environment
    PROVE  RequestsFit' /\ (UNCHANGED <<reservation, call, approval>>)
           /\ \A r \in Request : request[r].status = "approved" => request'[r].status = "approved"
<1> USE DEF CreationFits, RequestsFit
<1>1. CASE \E r \in Request : Ask(r) \/ Renew(r) \/ Reject(r) \/ Supersede(r) \/ RequestLapses(r)
  <2>1. PICK r \in Request : Ask(r) \/ Renew(r) \/ Reject(r) \/ Supersede(r) \/ RequestLapses(r)
    BY <1>1
  <2>2. PICK row \in RequestRow : /\ request' = [request EXCEPT ![r] = row]
                                  /\ request[r].status # "approved"
    <3>1. request[r] \in RequestRow
      OBVIOUS
    <3>2. CASE Ask(r) \/ Reject(r) \/ Supersede(r)
      <4>1. PICK v \in {"pending", "rejected", "expired"} :
              request' = [request EXCEPT ![r].status = v] /\ request[r].status # "approved"
        BY <3>2 DEF Ask, Reject, Supersede, Decidable
      <4>2. [request[r] EXCEPT !.status = v] \in RequestRow
        BY <3>1, <4>1 DEF RequestRow
      <4> QED BY <4>1, <4>2
    <3>3. CASE Renew(r)
      <4>1. [status |-> "pending", overdue |-> FALSE] \in RequestRow
        BY DEF RequestRow
      <4> QED BY <3>3, <4>1 DEF Renew
    <3>4. CASE RequestLapses(r)
      <4>1. [request[r] EXCEPT !.overdue = TRUE] \in RequestRow
        BY <3>1 DEF RequestRow
      <4> QED BY <3>4, <4>1 DEF RequestLapses
    <3> QED BY <2>1, <3>2, <3>3, <3>4
  <2>3. UNCHANGED <<claim, claims, handoff, call, reservation, approval>>
    BY <2>1 DEF Ask, Renew, Reject, Supersede, RequestLapses, nameVars
  <2> QED BY <2>2, <2>3
<1>2. CASE \E r \in Request : ClaimLapses(r)
  <2>1. PICK r \in Request : ClaimLapses(r)
    BY <1>2
  <2>2. [claim[r] EXCEPT !.live = FALSE] \in ClaimRow
    BY DEF ClaimRow
  <2>3. claim' \in [Request -> ClaimRow]
    BY <2>1, <2>2 DEF ClaimLapses
  <2> QED BY <2>1, <2>3 DEF ClaimLapses, nameVars
<1>3. CASE \E payload : OwnerCreates(payload)
  BY <1>3 DEF OwnerCreates, requestVars
<1>4. CASE ExpireInitializations
  <2>1. 0 \in 0..MaxClaims
    BY CreationAssumption
  <2> QED BY <1>4, <2>1 DEF ExpireInitializations, RequestRow, ClaimRow, NoClaim, nameVars
<1>5. CASE HandoffLapses
  BY <1>5 DEF HandoffLapses, HandoffRow, requestVars, nameVars
<1>6. CASE \E g \in Agent : RevokeGrant(g)
  BY <1>6 DEF RevokeGrant, HandoffRow, requestVars, nameVars
<1>7. CASE \E g \in Agent : Prepare(g)
  BY <1>7 DEF Prepare, HandoffRow, requestVars, nameVars
<1> QED BY <1>1, <1>2, <1>3, <1>4, <1>5, <1>6, <1>7 DEF Environment

\* A project created under the free name is the only one of that name.
LEMMA NewProjectFits ==
    ASSUME NEW payload, project = {}, project' = project \cup {NewProject(payload)}
    PROVE  /\ \A x, y \in project' : x = y
           /\ IsFiniteSet(project')
           /\ \A x \in project' : x.definition = <<x.payload[1], x.payload[3]>> /\ x.payload = payload
           /\ NewProject(payload) \in project'
<1>1. project' = {NewProject(payload)}
  OBVIOUS
<1>2. IsFiniteSet({NewProject(payload)})
  BY FS_Singleton
<1>3. /\ NewProject(payload).payload = payload
      /\ NewProject(payload).definition = <<payload[1], payload[3]>>
  BY DEF NewProject
<1> QED BY <1>1, <1>2, <1>3

\* The owner creates a project in the browser.
LEMMA OwnerNames ==
    ASSUME CreationFits, NEW payload, OwnerCreates(payload)
    PROVE  NameFits'
<1>1. project = {} /\ project' = project \cup {NewProject(payload)} /\ UNCHANGED <<reservation, receipt>>
  BY DEF OwnerCreates, NameFree
<1>2. project' # {} /\ project \subseteq project'
  BY <1>1
<1>3. /\ \A x, y \in project' : x = y
      /\ IsFiniteSet(project')
      /\ \A x \in project' : x.definition = <<x.payload[1], x.payload[3]>>
  BY <1>1, NewProjectFits
<1> QED BY <1>1, <1>2, <1>3 DEF CreationFits, NameFits

\* Every step outside the calls keeps the invariant.
LEMMA AroundKeeps ==
    ASSUME CreationFits, Environment
    PROVE  CreationFits'
<1>1. /\ RequestsFit' /\ (UNCHANGED <<reservation, call, approval>>)
      /\ \A r \in Request : request[r].status = "approved" => request'[r].status = "approved"
  BY EnvironmentFits
<1>2. NameFits'
  <2>1. CASE \E payload : OwnerCreates(payload)
    BY <2>1, OwnerNames
  <2>2. CASE ~\E payload : OwnerCreates(payload)
    BY <2>2, NameStays DEF CreationFits, Environment, Ask, Renew, Reject, Supersede, RequestLapses,
         ClaimLapses, ExpireInitializations, HandoffLapses, RevokeGrant, Prepare
  <2> QED BY <2>1, <2>2
<1>3. CallsKnow' /\ ApprovalFits'
  BY <1>1, CallsStay, ApprovalStays DEF CreationFits
<1> QED BY <1>1, <1>2, <1>3 DEF CreationFits

\* A step of one call that only moves it.
LEMMA CallMoves ==
    ASSUME CreationFits, NEW s \in Slot, call' \in [Slot -> CallAt \cup {Idle}],
           \A d \in Slot \ {s} : call'[d] = call[d], CallKnows(call[s])',
           UNCHANGED <<requestVars, nameVars, approval>>, handoff' \in HandoffRow,
           handoff'.live => handoff'.status = "claiming"
    PROVE  CreationFits'
<1>1. RequestsFit'
  BY DEF CreationFits, RequestsFit, requestVars
<1>2. NameFits' /\ reservation' = reservation
  BY NameStays DEF CreationFits, nameVars
<1>3. ApprovalFits'
  BY ApprovalStays DEF CreationFits, requestVars
<1>4. CallsKnow'
  BY <1>2, KnowledgeStays DEF CreationFits
<1> QED BY <1>1, <1>2, <1>3, <1>4 DEF CreationFits

\* A handoff that moves on keeps its type.
LEMMA HandoffHere ==
    ASSUME CreationFits
    PROVE  handoff \in HandoffRow /\ (handoff.live => handoff.status = "claiming")
  BY DEF CreationFits, RequestsFit

\* The call in a slot.
LEMMA CallHere ==
    ASSUME CreationFits, NEW s \in Slot, call[s].pc # "idle"
    PROVE  call[s] \in CallAt
  BY DEF CreationFits, RequestsFit, Idle

\* A call gives up, is lost or ends.
LEMMA EndsKeep ==
    ASSUME CreationFits, NEW s \in Slot,
           Consume(s) \/ GiveBack(s) \/ Throw(s) \/ Crash(s) \/ ReadReceipt(s) \/ CheckContext(s)
    PROVE  CreationFits'
<1>0. RequestsFit
  BY DEF CreationFits
<1>1. handoff' \in HandoffRow /\ (handoff'.live => handoff'.status = "claiming")
  BY HandoffHere DEF HandoffRow, Consume, GiveBack, Throw, Crash, ReadReceipt, CheckContext
<1>2. UNCHANGED <<requestVars, nameVars, approval>>
  BY DEF Consume, GiveBack, Throw, Crash, ReadReceipt, CheckContext
<1>3. CASE Done(s)
  <2>1. /\ call' \in [Slot -> CallAt \cup {Idle}] /\ call'[s] = Idle
        /\ \A d \in Slot \ {s} : call'[d] = call[d]
    BY <1>0, <1>3, IsDone
  <2>2. CallKnows(call[s])'
    BY <2>1, NothingKnown DEF Idle
  <2> QED BY <1>1, <1>2, <2>1, <2>2, CallMoves
<1>4. ASSUME NEW pc \in {"release", "create", "bind"}, Goto(s, pc), call[s].pc # "idle"
      PROVE  CreationFits'
  <2>1. /\ call' \in [Slot -> CallAt \cup {Idle}] /\ call'[s].pc = pc
        /\ \A d \in Slot \ {s} : call'[d] = call[d]
    BY <1>0, <1>4, GoingOn
  <2>2. CallKnows(call[s])'
    BY <2>1, NothingKnown
  <2> QED BY <1>1, <1>2, <2>1, <2>2, CallMoves
<1>5. CASE CheckContext(s) /\ Goto(s, "approve")
  <2>0. call[s].pc = "check"
    BY <1>5 DEF CheckContext
  <2>1. /\ call' \in [Slot -> CallAt \cup {Idle}] /\ call'[s].pc = "approve"
        /\ call'[s].request = call[s].request /\ call'[s].policy = call[s].policy
        /\ \A d \in Slot \ {s} : call'[d] = call[d]
    BY <1>0, <1>5, <2>0, GoingOn
  <2>2. CallKnows(call[s]) /\ reservation' = reservation
    BY <1>2 DEF CreationFits, CallsKnow, nameVars
  <2>3. reservation.project.definition[2] = call[s].policy
    <3>1. ~(call'[s].pc = "release")
      BY <2>1
    <3>2. ~GiveUp(s)
      BY <1>0, <2>0, <3>1, GoingOn DEF GiveUp
    <3> QED BY <1>5, <3>2 DEF CheckContext, SameContext
  <2>4. CallKnows(call[s])'
    BY <2>0, <2>1, <2>2, <2>3 DEF CallKnows
  <2> QED BY <1>1, <1>2, <2>1, <2>4, CallMoves
<1>6. Throw(s) \/ ReadReceipt(s) \/ (CheckContext(s) /\ ~Goto(s, "approve"))
         => \E pc \in {"release", "create", "bind"} : Goto(s, pc) /\ call[s].pc # "idle"
  BY DEF Throw, ReadReceipt, CheckContext, GiveUp
<1>7. Consume(s) \/ GiveBack(s) \/ Crash(s) => Done(s)
  BY DEF Consume, GiveBack, Crash
<1> QED BY <1>3, <1>4, <1>5, <1>6, <1>7

\* A request is claimed.
LEMMA ClaimsKeep ==
    ASSUME CreationFits, NEW s \in Slot, NEW r \in Request, TakeClaim(r), Claimable(r),
           call' \in [Slot -> CallAt \cup {Idle}],
           \A d \in Slot \ {s} : call'[d] = call[d], CallKnows(call[s])',
           UNCHANGED <<request, nameVars, approval, handoff>>
    PROVE  CreationFits'
<1>1. claims' \in 0..MaxClaims /\ claim' \in [Request -> ClaimRow]
  <2>1. claims + 1 \in 0..MaxClaims
    BY CreationAssumption DEF CreationFits, RequestsFit, Claimable
  <2>2. [id |-> claims + 1, live |-> TRUE] \in ClaimRow
    BY <2>1 DEF ClaimRow
  <2> QED BY <2>1, <2>2 DEF CreationFits, RequestsFit, TakeClaim
<1>2. RequestsFit'
  BY <1>1 DEF CreationFits, RequestsFit
<1>3. NameFits' /\ reservation' = reservation
  BY NameStays DEF CreationFits, nameVars
<1>4. ApprovalFits'
  BY ApprovalStays DEF CreationFits
<1>5. CallsKnow'
  BY <1>3, KnowledgeStays DEF CreationFits
<1> QED BY <1>2, <1>3, <1>4, <1>5 DEF CreationFits

\* An approval begins.
LEMMA BeginKeeps ==
    ASSUME CreationFits, NEW s \in Slot, NEW r \in Request,
           BeginPrepared(s, r) \/ \E p \in Policy : BeginApprove(s, r, p)
    PROVE  CreationFits'
<1>1. LapsedIds \in SUBSET Nat /\ claims + 1 \in Nat
  BY CreationAssumption DEF LapsedIds, CreationFits, RequestsFit, ClaimRow
<1>2. CASE BeginPrepared(s, r)
  <2>1. PICK q : q = [pc |-> "claim", request |-> r, policy |-> Proposed,
                      claim |-> 0, handoff |-> handoff.id, lapsed |-> LapsedIds]
    OBVIOUS
  <2>2. q \in CallAt /\ q.pc = "claim"
    BY <1>1, <2>1, HandoffHere, CreationAssumption DEF CallAt, HandoffRow
  <2>3. call' = [call EXCEPT ![s] = q]
    BY <1>2, <2>1 DEF BeginPrepared
  <2>4. /\ call' \in [Slot -> CallAt \cup {Idle}] /\ call'[s].pc = "claim"
        /\ \A d \in Slot \ {s} : call'[d] = call[d]
    BY <2>2, <2>3 DEF CreationFits, RequestsFit
  <2>5. CallKnows(call[s])'
    BY <2>4, NothingKnown
  <2>6. handoff' \in HandoffRow /\ (handoff'.live => handoff'.status = "claiming")
    BY <1>2, HandoffHere DEF BeginPrepared, HandoffRow
  <2> QED BY <1>2, <2>4, <2>5, <2>6, CallMoves DEF BeginPrepared
<1>3. CASE \E p \in Policy : BeginApprove(s, r, p)
  <2>0. PICK p \in Policy : BeginApprove(s, r, p)
    BY <1>3
  <2>1. PICK q : q = [pc |-> "reserve", request |-> r, policy |-> p,
                      claim |-> claims + 1, handoff |-> 0, lapsed |-> LapsedIds]
    OBVIOUS
  <2>2. q \in CallAt /\ q.pc = "reserve"
    BY <1>1, <2>1 DEF CallAt
  <2>3. call' = [call EXCEPT ![s] = q]
    BY <2>0, <2>1 DEF BeginApprove
  <2>4. /\ call' \in [Slot -> CallAt \cup {Idle}] /\ call'[s].pc = "reserve"
        /\ \A d \in Slot \ {s} : call'[d] = call[d]
    BY <2>2, <2>3 DEF CreationFits, RequestsFit
  <2>5. CallKnows(call[s])'
    BY <2>4, NothingKnown
  <2> QED BY <2>0, <2>4, <2>5, ClaimsKeep DEF BeginApprove
<1> QED BY <1>2, <1>3

\* A prepared handoff is claimed.
LEMMA ClaimPreparedKeeps ==
    ASSUME CreationFits, NEW s \in Slot, ClaimPrepared(s)
    PROVE  CreationFits'
<1>1. call[s] \in CallAt /\ call[s].pc = "claim" /\ RequestsFit
  BY CallHere DEF ClaimPrepared, CreationFits
<1>2. CASE Claimable(call[s].request)
  <2>1. PICK r \in Request : r = call[s].request
    BY <1>1 DEF CallAt
  <2>2. call' = [call EXCEPT ![s].pc = "reserve", ![s].claim = claims + 1] /\ TakeClaim(r)
    BY <1>2, <2>1 DEF ClaimPrepared
  <2>3. claims + 1 \in Nat
    BY <1>1 DEF RequestsFit
  <2>4. PICK q : q = [call[s] EXCEPT !.pc = "reserve", !.claim = claims + 1]
    OBVIOUS
  <2>5. q \in CallAt /\ q.pc = "reserve"
    BY <1>1, <2>3, <2>4 DEF CallAt
  <2>6. call' = [call EXCEPT ![s] = q]
    BY <1>1, <2>2, <2>4 DEF RequestsFit, CallAt
  <2>7. /\ call' \in [Slot -> CallAt \cup {Idle}] /\ call'[s].pc = "reserve"
        /\ \A d \in Slot \ {s} : call'[d] = call[d]
    BY <1>1, <2>5, <2>6 DEF RequestsFit
  <2>8. CallKnows(call[s])'
    BY <2>7, NothingKnown
  <2> QED BY <1>2, <2>1, <2>2, <2>7, <2>8, ClaimsKeep DEF ClaimPrepared
<1>3. CASE ~Claimable(call[s].request)
  <2>1. Goto(s, "giveback") /\ UNCHANGED <<claim, claims>>
    BY <1>3 DEF ClaimPrepared
  <2>2. /\ call' \in [Slot -> CallAt \cup {Idle}] /\ call'[s].pc = "giveback"
        /\ \A d \in Slot \ {s} : call'[d] = call[d]
    BY <1>1, <2>1, GoingOn
  <2>3. CallKnows(call[s])'
    BY <2>2, NothingKnown
  <2>4. UNCHANGED <<requestVars, nameVars, approval, handoff>>
    BY <2>1 DEF ClaimPrepared, requestVars
  <2> QED BY <2>2, <2>3, <2>4, HandoffHere, CallMoves
<1> QED BY <1>2, <1>3

\* A handoff is consumed, or given back.
LEMMA ReturnKeeps ==
    ASSUME CreationFits, NEW s \in Slot, Return(s)
    PROVE  CreationFits'
<1>1. call[s] \in CallAt /\ call[s].pc = "return" /\ RequestsFit
  BY CallHere DEF Return, CreationFits
<1>2. /\ call' \in [Slot -> CallAt \cup {Idle}] /\ call'[s].pc \in {"idle", "giveback"}
      /\ \A d \in Slot \ {s} : call'[d] = call[d]
  BY <1>1, GoingOn, IsDone DEF Return, Idle
<1>3. CallKnows(call[s])'
  BY <1>2, NothingKnown
<1>4. claim' \in [Request -> ClaimRow]
  <2>1. NoClaim \in ClaimRow
    BY CreationAssumption DEF NoClaim, ClaimRow
  <2> QED BY <1>1, <2>1 DEF Return, RequestsFit
<1>5. RequestsFit'
  BY <1>1, <1>2, <1>4 DEF RequestsFit, Return
<1>6. NameFits' /\ reservation' = reservation
  BY NameStays DEF CreationFits, Return, nameVars
<1>7. ApprovalFits'
  BY ApprovalStays DEF CreationFits, Return
<1>8. CallsKnow'
  BY <1>2, <1>3, <1>6, KnowledgeStays DEF CreationFits
<1> QED BY <1>5, <1>6, <1>7, <1>8 DEF CreationFits

\* A step of one call that also moves the name.
LEMMA NameMoves ==
    ASSUME CreationFits, NEW s \in Slot, call' \in [Slot -> CallAt \cup {Idle}],
           \A d \in Slot \ {s} : call'[d] = call[d], CallKnows(call[s])',
           UNCHANGED <<requestVars, approval, handoff>>, NameFits',
           reservation.project # None => reservation' = reservation
    PROVE  CreationFits'
<1>1. RequestsFit'
  BY DEF CreationFits, RequestsFit, requestVars
<1>2. ApprovalFits'
  BY ApprovalStays DEF CreationFits, requestVars
<1>3. CallsKnow'
  BY KnowledgeStays DEF CreationFits
<1> QED BY <1>1, <1>2, <1>3 DEF CreationFits

\* The name is reserved.
LEMMA ReserveKeeps ==
    ASSUME CreationFits, NEW s \in Slot, Reserve(s)
    PROVE  CreationFits'
<1>1. call[s] \in CallAt /\ RequestsFit /\ call[s].pc # "idle"
  BY CallHere DEF Reserve, CreationFits
<1>2. /\ call' \in [Slot -> CallAt \cup {Idle}] /\ call'[s].pc \in {"bound", "release"}
      /\ \A d \in Slot \ {s} : call'[d] = call[d]
  BY <1>1, GoingOn DEF Reserve, GiveUp
<1>3. CallKnows(call[s])'
  BY <1>2, NothingKnown
<1>4. UNCHANGED <<requestVars, approval, handoff, project, receipt>>
  BY DEF Reserve
<1>5. CASE reservation' = reservation
  <2>1. NameFits'
    BY <1>4, <1>5, NameStays DEF nameVars, CreationFits
  <2> QED BY <1>2, <1>3, <1>4, <1>5, <2>1, NameMoves
<1>6. CASE reservation' # reservation
  <2>1. PICK r \in Request, p \in Policy : r = call[s].request /\ p = call[s].policy
    BY <1>1 DEF CallAt
  <2>2. reservation' = [creator |-> r, contract |-> Definition(r, p), project |-> None]
        /\ reservation.project = None
    BY <1>6, <2>1 DEF Reserve, Reservable
  <2>3. NameFits'
    BY <1>4, <2>2 DEF CreationFits, NameFits, Contract
  <2> QED BY <1>2, <1>3, <1>4, <2>2, <2>3, NameMoves
<1> QED BY <1>5, <1>6

\* A reservation bound to its creator's project.
LEMMA BoundFits ==
    ASSUME CreationFits, reservation' = Bound, UNCHANGED <<project, receipt>>
    PROVE  NameFits' /\ (reservation.project # None => reservation' = reservation)
           /\ Bound.creator = reservation.creator /\ Bound.contract = reservation.contract
<1>1. CASE Bound = reservation
  BY <1>1, NameStays DEF nameVars, CreationFits
<1>2. CASE Bound # reservation
  <2>1. PICK r \in Request : /\ r = reservation.creator /\ receipt[r] # None
                             /\ Bound = [reservation EXCEPT !.project = receipt[r]]
                             /\ reservation.project = None /\ r # None
    BY <1>2 DEF Bound, CreationFits, NameFits
  <2>2. Bound = [creator |-> r, contract |-> reservation.contract, project |-> receipt[r]]
    BY <2>1 DEF CreationFits, NameFits
  <2>3. NameFits'
    BY <2>1, <2>2 DEF CreationFits, NameFits
  <2> QED BY <2>1, <2>2, <2>3
<1> QED BY <1>1, <1>2

\* The project is bound to the reservation.
LEMMA BindKeeps ==
    ASSUME CreationFits, NEW s \in Slot, Bind(s) \/ BindOrWait(s)
    PROVE  CreationFits'
<1>1. call[s] \in CallAt /\ RequestsFit /\ call[s].pc # "idle"
  BY CallHere DEF Bind, BindOrWait, CreationFits
<1>2. reservation' = Bound /\ UNCHANGED <<requestVars, project, receipt, handoff, approval>>
  BY DEF Bind, BindOrWait
<1>3. NameFits' /\ (reservation.project # None => reservation' = reservation)
  BY <1>2, BoundFits
<1>4. PICK pc \in {"check", "receipt", "again", "release"} :
         Goto(s, pc) /\ (pc = "check" => Bound.project # None /\ SameContract(s))
  BY DEF Bind, BindOrWait, GiveUp
<1>5. /\ call' \in [Slot -> CallAt \cup {Idle}] /\ call'[s].pc = pc
      /\ call'[s].request = call[s].request /\ call'[s].policy = call[s].policy
      /\ \A d \in Slot \ {s} : call'[d] = call[d]
  BY <1>1, <1>4, GoingOn
<1>6. CallKnows(call[s])'
  BY <1>2, <1>4, <1>5 DEF CallKnows, SameContract
<1> QED BY <1>2, <1>3, <1>5, <1>6, NameMoves

\* The project is created, or recovered.
LEMMA CreateKeeps ==
    ASSUME CreationFits, NEW s \in Slot, Create(s)
    PROVE  CreationFits'
<1>1. call[s] \in CallAt /\ RequestsFit /\ call[s].pc # "idle"
  BY CallHere DEF Create, CreationFits
<1>2. PICK r \in Request, p \in Policy : r = call[s].request /\ p = call[s].policy
  BY <1>1 DEF CallAt
<1>3. /\ call' \in [Slot -> CallAt \cup {Idle}] /\ call'[s].pc \in {"bind", "release"}
      /\ \A d \in Slot \ {s} : call'[d] = call[d]
  BY <1>1, GoingOn DEF Create, GiveUp
<1>4. CallKnows(call[s])'
  BY <1>3, NothingKnown
<1>5. UNCHANGED <<requestVars, reservation, handoff, approval>>
  BY DEF Create
<1>6. Payload(r, p)[1] = Draft[r]
  BY DEF Payload
<1>7. CASE NameFree /\ receipt[r] = None
  <2>1. PICK x : x = NewProject(Payload(r, p))
    OBVIOUS
  <2>2. project = {} /\ project' = project \cup {x} /\ receipt' = [receipt EXCEPT ![r] = x]
    BY <1>2, <1>7, <2>1 DEF Create, NameFree
  <2>3. /\ \A y, z \in project' : y = z
        /\ IsFiniteSet(project')
        /\ \A y \in project' : y.definition = <<y.payload[1], y.payload[3]>> /\ y.payload = Payload(r, p)
        /\ x \in project'
    BY <2>1, <2>2, NewProjectFits
  <2>4. receipt' \in [Request -> project' \cup {None}]
    BY <2>2, <2>3 DEF CreationFits, NameFits
  <2>5. \A q \in Request : receipt'[q] # None => receipt'[q].payload[1] = Draft[q]
    BY <1>6, <2>2, <2>3 DEF CreationFits, NameFits
  <2>6. reservation.project = None
    BY <2>2 DEF CreationFits, NameFits
  <2>7. NameFits'
    BY <1>5, <2>3, <2>4, <2>5, <2>6 DEF CreationFits, NameFits
  <2> QED BY <1>3, <1>4, <1>5, <2>7, NameMoves
<1>8. CASE ~(NameFree /\ receipt[r] = None)
  <2>1. project' = project
    BY <1>2, <1>8 DEF Create
  <2>2. CASE receipt' = receipt
    <3>1. NameFits'
      BY <1>5, <2>1, <2>2, NameStays DEF nameVars, CreationFits
    <3> QED BY <1>3, <1>4, <1>5, <3>1, NameMoves
  <2>3. CASE receipt' # receipt
    <3>1. PICK x \in Recovered(r, p) : receipt' = [receipt EXCEPT ![r] = x]
      BY <1>2, <1>8, <2>3 DEF Create
    <3>2. x \in project /\ x.payload = Payload(r, p) /\ receipt[r] \in {None, x}
      BY <3>1 DEF Recovered
    <3>3. receipt' \in [Request -> project \cup {None}]
      BY <3>1, <3>2 DEF CreationFits, NameFits
    <3>4. \A q \in Request : receipt'[q] # None => receipt'[q].payload[1] = Draft[q]
      BY <1>6, <3>1, <3>2 DEF CreationFits, NameFits
    <3>5. reservation.project # None => reservation.project = receipt'[reservation.creator]
      <4>1. SUFFICES ASSUME reservation.project # None
                     PROVE  reservation.project = receipt'[reservation.creator]
        OBVIOUS
      <4>2. PICK c \in Request : c = reservation.creator /\ reservation.project = receipt[c]
        BY <4>1 DEF CreationFits, NameFits
      <4> QED BY <3>1, <3>2, <4>1, <4>2 DEF CreationFits, NameFits
    <3>6. NameFits'
      BY <1>5, <2>1, <3>3, <3>4, <3>5 DEF CreationFits, NameFits
    <3> QED BY <1>3, <1>4, <1>5, <3>6, NameMoves
  <2> QED BY <2>2, <2>3
<1> QED BY <1>7, <1>8

\* A reservation is released.
LEMMA ReleaseKeeps ==
    ASSUME CreationFits, NEW s \in Slot, Release(s)
    PROVE  CreationFits'
<1>1. call[s] \in CallAt /\ RequestsFit /\ call[s].pc # "idle"
  BY CallHere DEF Release, CreationFits
<1>2. /\ call' \in [Slot -> CallAt \cup {Idle}] /\ call'[s].pc = "return"
      /\ \A d \in Slot \ {s} : call'[d] = call[d]
  BY <1>1, GoingOn DEF Release
<1>3. CallKnows(call[s])'
  BY <1>2, NothingKnown
<1>4. UNCHANGED <<requestVars, approval, handoff, project, receipt>>
  BY DEF Release
<1>5. CASE reservation' = reservation
  <2>1. NameFits'
    BY <1>4, <1>5, NameStays DEF nameVars, CreationFits
  <2> QED BY <1>2, <1>3, <1>4, <1>5, <2>1, NameMoves
<1>6. CASE reservation' # reservation
  <2>1. reservation' = [creator |-> None, contract |-> None, project |-> None]
        /\ reservation.project = None
    BY <1>6 DEF Release, Releasable
  <2>2. NameFits'
    BY <1>4, <2>1 DEF CreationFits, NameFits
  <2> QED BY <1>2, <1>3, <1>4, <2>1, <2>2, NameMoves
<1> QED BY <1>5, <1>6

\* The status is read; what the call knows of the reservation it still knows.
LEMMA ReadStatusKeeps ==
    ASSUME CreationFits, NEW s \in Slot, ReadStatus(s)
    PROVE  CreationFits'
<1>1. RequestsFit /\ call[s].pc = "approve" /\ call[s].pc # "idle"
  BY DEF ReadStatus, CreationFits
<1>2. UNCHANGED <<requestVars, nameVars, approval, handoff>>
  BY DEF ReadStatus
<1>3. CASE Proceed(s) \/ GiveUp(s)
  <2>1. /\ call' \in [Slot -> CallAt \cup {Idle}] /\ call'[s].pc \in {"idle", "consume", "release"}
        /\ \A d \in Slot \ {s} : call'[d] = call[d]
    BY <1>1, <1>3, GoingOn, IsDone DEF Proceed, GiveUp, Idle
  <2>2. CallKnows(call[s])'
    BY <2>1, NothingKnown
  <2> QED BY <1>2, <2>1, <2>2, HandoffHere, CallMoves
<1>4. CASE Goto(s, "commit")
  <2>1. /\ call' \in [Slot -> CallAt \cup {Idle}] /\ call'[s].pc = "commit"
        /\ call'[s].request = call[s].request /\ call'[s].policy = call[s].policy
        /\ \A d \in Slot \ {s} : call'[d] = call[d]
    BY <1>1, <1>4, GoingOn
  <2>2. CallKnows(call[s]) /\ reservation' = reservation
    BY <1>2 DEF CreationFits, CallsKnow, nameVars
  <2>3. CallKnows(call[s])'
    BY <1>1, <2>1, <2>2 DEF CallKnows
  <2> QED BY <1>2, <2>1, <2>3, HandoffHere, CallMoves
<1> QED BY <1>3, <1>4 DEF ReadStatus

\* The request is approved.
LEMMA ApproveKeeps ==
    ASSUME CreationFits, NEW s \in Slot, Approve(s)
    PROVE  CreationFits'
<1>1. call[s] \in CallAt /\ RequestsFit /\ call[s].pc = "commit"
  BY CallHere DEF Approve, CreationFits
<1>2. PICK r \in Request, p \in Policy : r = call[s].request /\ p = call[s].policy
  BY <1>1 DEF CallAt
<1>3. /\ call' \in [Slot -> CallAt \cup {Idle}] /\ call'[s].pc \in {"idle", "consume", "release"}
      /\ \A d \in Slot \ {s} : call'[d] = call[d]
  BY <1>1, GoingOn, IsDone DEF Approve, Proceed, GiveUp, Idle
<1>4. CallKnows(call[s])'
  BY <1>3, NothingKnown
<1>5. UNCHANGED <<claims, nameVars, handoff>>
  BY DEF Approve
<1>6. CASE UNCHANGED <<request, claim, approval>>
  BY <1>3, <1>4, <1>5, <1>6, HandoffHere, CallMoves DEF requestVars
<1>7. CASE ~UNCHANGED <<request, claim, approval>>
  <2>1. /\ request[r].status = "pending"
        /\ request' = [request EXCEPT ![r].status = "approved"]
        /\ claim' = [claim EXCEPT ![r] = NoClaim]
        /\ approval' = approval \cup {[request |-> r, policy |-> p, project |-> reservation.project]}
    BY <1>2, <1>7 DEF Approve, Fenced
  <2>2. request' \in [Request -> RequestRow] /\ request'[r].status = "approved"
        /\ \A q \in Request : request[q].status = "approved" => request'[q].status = "approved"
    <3>1. [request[r] EXCEPT !.status = "approved"] \in RequestRow
      BY <1>1 DEF RequestsFit, RequestRow
    <3> QED BY <1>1, <2>1, <3>1 DEF RequestsFit, RequestRow
  <2>3. claim' \in [Request -> ClaimRow]
    <3>1. NoClaim \in ClaimRow
      BY CreationAssumption DEF NoClaim, ClaimRow
    <3> QED BY <1>1, <2>1, <3>1 DEF RequestsFit
  <2>4. RequestsFit'
    BY <1>1, <1>3, <1>5, <2>2, <2>3 DEF RequestsFit
  <2>5. NameFits' /\ reservation' = reservation
    BY <1>5, NameStays DEF CreationFits, nameVars
  <2>6. CallsKnow'
    BY <1>3, <1>4, <2>5, KnowledgeStays DEF CreationFits
  <2>7. reservation.project.definition = Definition(r, p)
    <3>1. /\ reservation.project # None /\ reservation.contract = Definition(r, p)
          /\ reservation.project.definition[2] = p
      BY <1>1, <1>2 DEF CreationFits, CallsKnow, CallKnows
    <3>2. PICK c \in Request, q \in Policy :
             /\ reservation.project = receipt[c] /\ receipt[c] \in project
             /\ receipt[c].payload[1] = Draft[c] /\ reservation.contract = Definition(c, q)
      BY <3>1 DEF CreationFits, NameFits
    <3>3. Draft[c] = Draft[r]
      BY <3>1, <3>2 DEF Definition
    <3>4. PICK x \in project : x = reservation.project /\ x.definition = <<x.payload[1], x.payload[3]>>
      BY <3>2 DEF CreationFits, NameFits
    <3>5. x.payload[3] = p /\ x.payload[1] = Draft[r]
      BY <3>1, <3>2, <3>3, <3>4
    <3> QED BY <3>4, <3>5 DEF Definition
  <2>8. PICK new : new = [request |-> r, policy |-> p, project |-> reservation.project]
    OBVIOUS
  <2>9. new.request = r /\ new.policy = p /\ new.project = reservation.project
    BY <2>8
  <2>10. \A a \in approval : a.request # r
    BY <2>1 DEF CreationFits, ApprovalFits
  <2>11. approval' = approval \cup {new}
    BY <2>1, <2>8
  <2>12. ApprovalFits'
    <3>1. \A a \in approval : a.request \in Request /\ request'[a.request].status = "approved"
                              /\ a.project.definition = Definition(a.request, a.policy)
      BY <2>2 DEF CreationFits, ApprovalFits
    <3>2. new.project.definition = Definition(new.request, new.policy)
      BY <2>7, <2>9
    <3>3. \A a, b \in approval' : a.request = b.request => a = b
      BY <2>9, <2>10, <2>11 DEF CreationFits, ApprovalFits
    <3> QED BY <2>2, <2>9, <2>11, <3>1, <3>2, <3>3 DEF ApprovalFits
  <2> QED BY <2>4, <2>5, <2>6, <2>12 DEF CreationFits
<1> QED BY <1>6, <1>7

\* Every step keeps the invariant.
LEMMA CreationKeeps ==
    ASSUME CreationFits, [CreationNext]_creationVars
    PROVE  CreationFits'
<1>1. CASE \E s \in Slot : Step(s)
  BY <1>1, BeginKeeps, ClaimPreparedKeeps, ReserveKeeps, BindKeeps, CreateKeeps, EndsKeep,
     ReadStatusKeeps, ApproveKeeps, ReleaseKeeps, ReturnKeeps DEF Step
<1>2. CASE Environment
  BY <1>2, AroundKeeps
<1>3. CASE UNCHANGED creationVars
  BY <1>3 DEF creationVars, CreationFits, RequestsFit, NameFits, CallsKnow, CallKnows, ApprovalFits
<1> QED BY <1>1, <1>2, <1>3 DEF CreationNext

\* The invariant holds at first.
LEMMA CreationStarts ==
    ASSUME CreationInit
    PROVE  CreationFits
<1>1. RequestsFit
  BY CreationAssumption
     DEF CreationInit, RequestsFit, RequestRow, ClaimRow, NoClaim, NoHandoff, HandoffRow
<1>2. NameFits
  BY FS_EmptySet DEF CreationInit, NameFits
<1>3. CallsKnow /\ ApprovalFits
  BY DEF CreationInit, CallsKnow, CallKnows, ApprovalFits, Idle
<1> QED BY <1>1, <1>2, <1>3 DEF CreationFits

(***************************************************************************)
(* At most one project takes the name, and every approval is of the        *)
(* project its definition describes, whatever calls of project-            *)
(* initialization-service.ts overlap, are lost or repeated.                *)
(***************************************************************************)
THEOREM CreationInvariance == CreationSpec => []CreationInv
<1>1. CreationFits => CreationInv
  <2>1. SUFFICES ASSUME CreationFits PROVE CreationInv
    OBVIOUS
  <2>2. CreationTypeOK
    BY <2>1 DEF CreationFits, CreationTypeOK, RequestsFit, NameFits, RequestRow, ClaimRow, HandoffRow
  <2>3. OneProject
    <3>1. IsFiniteSet(project) /\ \A x, y \in project : x = y
      BY <2>1 DEF CreationFits, NameFits
    <3>2. CASE project = {}
      BY <3>2, FS_EmptySet DEF OneProject
    <3>3. CASE project # {}
      <4>1. PICK x : project = {x}
        BY <3>1, <3>3
      <4>2. Cardinality({x}) = 1
        BY FS_Singleton
      <4> QED BY <4>1, <4>2 DEF OneProject
    <3> QED BY <3>2, <3>3
  <2>4. ApprovedAsDefined
    BY <2>1 DEF CreationFits, ApprovalFits, ApprovedAsDefined
  <2> QED BY <2>2, <2>3, <2>4 DEF CreationInv
<1> QED BY <1>1, CreationStarts, CreationKeeps, PTL DEF CreationSpec

\* A step leaves a request's outcome and its approval as they are.
LEMMA OutcomesStep ==
    ASSUME CreationFits, [CreationNext]_creationVars
    PROVE  /\ \A r \in Request :
                 /\ request[r].status \in {"approved", "rejected"} =>
                       request'[r].status = request[r].status
                 /\ request'[r].status = "approved" =>
                       request[r].status \in {"pending", "approved"}
           /\ reservation.project # None => reservation'.project = reservation.project
<1>0. request \in [Request -> RequestRow]
  BY DEF CreationFits, RequestsFit
<1> DEFINE Outcomes == \A r \in Request :
                 /\ request[r].status \in {"approved", "rejected"} =>
                       request'[r].status = request[r].status
                 /\ request'[r].status = "approved" =>
                       request[r].status \in {"pending", "approved"}
<1>1. CASE \E s \in Slot : Step(s)
  <2>1. PICK s \in Slot : Step(s)
    BY <1>1
  <2>2. Outcomes
    <3>1. CASE Approve(s)
      <4>1. PICK r \in Request : r = call[s].request
        BY <3>1, CallHere DEF Approve, CallAt
      <4> QED BY <1>0, <3>1, <4>1 DEF Approve, Fenced, RequestRow
    <3>2. CASE request' = request
      BY <3>2
    <3> QED BY <2>1, <3>1, <3>2
         DEF Step, BeginPrepared, BeginApprove, ClaimPrepared, Reserve, BindOrWait, ReadReceipt, Create,
             Bind, CheckContext, ReadStatus, Consume, Release, Return, GiveBack, Throw, Crash, requestVars
  <2>3. reservation.project # None => reservation'.project = reservation.project
    <3>1. CASE reservation' = reservation
      BY <3>1
    <3>2. CASE Bind(s) \/ BindOrWait(s)
      BY <3>2, BoundFits DEF Bind, BindOrWait
    <3>3. CASE Reserve(s)
      BY <3>3 DEF Reserve, Reservable
    <3>4. CASE Release(s)
      BY <3>4 DEF Release, Releasable
    <3> QED BY <2>1, <3>1, <3>2, <3>3, <3>4
         DEF Step, BeginPrepared, BeginApprove, ClaimPrepared, ReadReceipt, Create, Approve,
             CheckContext, ReadStatus, Consume, Return, GiveBack, Throw, Crash, nameVars
  <2> QED BY <2>2, <2>3
<1>2. CASE Environment
  <2>1. reservation' = reservation
    BY <1>2, EnvironmentFits
  <2>2. Outcomes
    <3>1. CASE \E r \in Request : Ask(r) \/ Renew(r) \/ Reject(r) \/ Supersede(r) \/ RequestLapses(r)
      <4>1. PICK r \in Request : Ask(r) \/ Renew(r) \/ Reject(r) \/ Supersede(r) \/ RequestLapses(r)
        BY <3>1
      <4>2. CASE Ask(r)
        BY <1>0, <4>2 DEF Ask, RequestRow
      <4>3. CASE Renew(r)
        BY <1>0, <4>3 DEF Renew, RequestRow
      <4>4. CASE Reject(r)
        BY <1>0, <4>4 DEF Reject, Decidable, RequestRow
      <4>5. CASE Supersede(r)
        BY <1>0, <4>5 DEF Supersede, RequestRow
      <4>6. CASE RequestLapses(r)
        BY <1>0, <4>6 DEF RequestLapses, RequestRow
      <4> QED BY <4>1, <4>2, <4>3, <4>4, <4>5, <4>6
    <3>2. CASE ExpireInitializations
      BY <1>0, <3>2 DEF ExpireInitializations, RequestRow
    <3>3. CASE request' = request
      BY <3>3
    <3> QED BY <1>2, <3>1, <3>2, <3>3
         DEF Environment, ClaimLapses, OwnerCreates, HandoffLapses, RevokeGrant, Prepare, requestVars
  <2> QED BY <2>1, <2>2
<1>3. CASE UNCHANGED creationVars
  BY <1>3 DEF creationVars
<1> QED BY <1>1, <1>2, <1>3 DEF CreationNext

(***************************************************************************)
(* A request approved or rejected stays so, and only a pending one is      *)
(* approved; the reservation keeps its project.                            *)
(***************************************************************************)
THEOREM OutcomesAreFinal == CreationSpec => OutcomesFinal
<1>1. CreationFits /\ [CreationNext]_creationVars =>
        [/\ \A r \in Request :
              /\ request[r].status \in {"approved", "rejected"} =>
                    request'[r].status = request[r].status
              /\ request'[r].status = "approved" =>
                    request[r].status \in {"pending", "approved"}
         /\ reservation.project # None => reservation'.project = reservation.project]_creationVars
  BY OutcomesStep
<1> QED BY <1>1, CreationStarts, CreationKeeps, PTL DEF CreationSpec, OutcomesFinal

\* A step leaves a spent or revoked handoff so.
LEMMA HandoffStep ==
    ASSUME CreationFits, [CreationNext]_creationVars, handoff.status \in {"consumed", "revoked"}
    PROVE  handoff' = handoff \/ handoff'.id > handoff.id
<1>1. handoff.id \in Nat /\ ~handoff.live
  BY DEF CreationFits, RequestsFit, HandoffRow
<1>2. CASE \E s \in Slot : Step(s)
  <2>1. PICK s \in Slot : Step(s)
    BY <1>2
  <2>2. CASE \E r \in Request : BeginPrepared(s, r)
    BY <2>2 DEF BeginPrepared, HandoffClaimable
  <2>3. CASE Consume(s) \/ GiveBack(s)
    BY <2>3 DEF Consume, GiveBack, StillClaimed
  <2> QED BY <2>1, <2>2, <2>3
       DEF Step, BeginApprove, ClaimPrepared, Reserve, BindOrWait, ReadReceipt, Create,
           Bind, CheckContext, ReadStatus, Approve, Release, Return, Throw, Crash
<1>3. CASE \E g \in Agent : Prepare(g)
  BY <1>1, <1>3 DEF Prepare
<1>4. CASE HandoffLapses
  BY <1>1, <1>4 DEF HandoffLapses
<1>5. CASE Environment /\ ~(\E g \in Agent : Prepare(g)) /\ ~HandoffLapses
  BY <1>5 DEF Environment, Ask, Renew, Reject, Supersede, RequestLapses, ClaimLapses, OwnerCreates,
              ExpireInitializations, RevokeGrant
<1> QED BY <1>2, <1>3, <1>4, <1>5 DEF CreationNext, creationVars

(***************************************************************************)
(* A handoff consumed or revoked is never claimed again: only a new one is *)
(* prepared (project-initialization-store.ts).                             *)
(***************************************************************************)
THEOREM HandoffsStaySpent == CreationSpec => HandoffSpent
<1>1. CreationFits /\ [CreationNext]_creationVars =>
        [handoff.status \in {"consumed", "revoked"} =>
           handoff' = handoff \/ handoff'.id > handoff.id]_creationVars
  BY HandoffStep
<1> QED BY <1>1, CreationStarts, CreationKeeps, PTL DEF CreationSpec, HandoffSpent

=============================================================================
