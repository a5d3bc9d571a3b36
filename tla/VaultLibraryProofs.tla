------------------------- MODULE VaultLibraryProofs -------------------------
(***************************************************************************)
(* Proofs about VaultLibrary, for any handlers, profiles, states, retries, *)
(* faults, evictions and revocations, and about SnapshotStore, for any     *)
(* snapshots, requests, recipients, notes, objects and losses.             *)
(***************************************************************************)
EXTENDS VaultLibrary, SnapshotStore, FiniteSetTheorems, SequenceTheorems,
        NaturalsInduction, WellFoundedInduction, TLAPS

-----------------------------------------------------------------------------
(* The inductive invariant: one part for each group of variables *)

Job == 1..Len(jobs)

JobRow ==
    [src : 1..MaxState, status : {"queued", "running", "completed", "failed"},
     generation : {"staging", "published", "failed"},
     left : 0..Batches, attempts : 0..MaxJobAttempts, staged : BOOLEAN]

SyncRow ==
    [hash : 0..MaxState, stale : BOOLEAN, error : {"none", "unavailable", "unsafe"},
     confirmed : BOOLEAN, profile : Nat]

CallRow ==
    [pc : {"idle", "read", "write", "wake", "confirm", "done", "building"},
     op : {"none", "change", "confirm", "denied", "build"},
     hash : 0..MaxState, profile : Nat, changed : BOOLEAN]

\* Jobs are in the order of the states they project, none of a state to come,
\* and the vault has at most one job running and one waiting after it.
JobsOrdered ==
    /\ \A i, j \in Job : i <= j => jobs[i].src <= jobs[j].src
    /\ \A j \in Job : jobs[j].src <= durable
    /\ \A i, j \in Job :
          jobs[i].status = "running" /\ jobs[j].status \in {"running", "queued"} => i <= j
    /\ \A i, j \in Job : jobs[i].status = "queued" /\ jobs[j].status = "queued" => i = j

\* A job with work left can still be published, after the current one.
ActiveFits ==
    \A j \in Job : Active(j) =>
       jobs[j].generation = "staging" /\ jobs[j].attempts < MaxJobAttempts /\ current < j

JobsInv ==
    /\ durable \in 1..MaxState /\ jobs \in Seq(JobRow) /\ current \in 0..Len(jobs)
    /\ CurrentIsPublished /\ JobsOrdered /\ ActiveFits

VaultInv ==
    /\ vault \in {"active", "revoked"} /\ sync \in SyncRow
    /\ NotStaleMeansCurrent

\* Every request knows what it is about; the queue's own save asks for nothing.
CallFits(c) ==
    /\ call[c].pc \in {"read", "write", "wake"} => call[c].op # "none"
    /\ call[c].pc = "confirm" => call[c].op \in {"confirm", "denied"}
    /\ c = Builder => call[c].op \in {"none", "build"} /\ call[c].pc # "building"

CallsInv == call \in [Call -> CallRow] /\ \A c \in Call : CallFits(c)

\* Builds are serialized: nothing newer than what is being built has a job.
BuildInv ==
    /\ build \in [pc : {"idle", "capture", "current", "active", "create", "wake"},
                  by : Handler \cup {Alarm}, src : 0..MaxState, job : 0..Len(jobs)]
    /\ build.pc \in {"current", "active", "create", "wake"} =>
         /\ build.src \in 1..durable
         /\ \A j \in Job : jobs[j].src <= build.src
    /\ build.pc = "wake" => build.job \in Job

\* The job the alarm works on is running, until it is finished or failed.
RunInv ==
    /\ run \in [pc : {"idle", "claim", "work", "fail", "more", "state", "waiting",
                      "ready", "completed", "queued", "retry", "unavailable", "unsafe"},
                job : 0..Len(jobs), hash : 0..MaxState]
    /\ run.pc \in {"work", "fail"} => run.job \in Job
    /\ run.pc = "work" => jobs[run.job].status = "running"

RestInv ==
    /\ tail \in Seq(Handler \cup {Alarm})
    /\ alarm \in BOOLEAN /\ retry \in 0..RetryLimit - 1
    /\ faults \in 0..MaxFaults /\ crashes \in 0..MaxCrashes /\ revokes \in 0..MaxRevokes

IInv == JobsInv /\ VaultInv /\ CallsInv /\ BuildInv /\ RunInv /\ RestInv

-----------------------------------------------------------------------------
(* What the parts say together *)

\* At most one job of a status is at most one.
LEMMA AtMostOne ==
    ASSUME NEW S, \A x, y \in S : x = y
    PROVE  IsFiniteSet(S) /\ Cardinality(S) <= 1
<1>1. CASE S = {}
  BY <1>1, FS_EmptySet
<1>2. CASE S # {}
  <2>1. PICK x : S = {x}
    BY <1>2
  <2>2. IsFiniteSet({x}) /\ Cardinality({x}) = 1
    BY FS_Singleton
  <2> QED BY <2>1, <2>2
<1> QED BY <1>1, <1>2

LEMMA JobsAre ==
    ASSUME JobsInv
    PROVE  /\ Len(jobs) \in Nat /\ DOMAIN jobs = Job /\ Job \subseteq Nat
           /\ \A j \in Job :
                 /\ jobs[j] \in JobRow
                 /\ jobs[j].src \in 1..MaxState /\ jobs[j].left \in 0..Batches
                 /\ jobs[j].attempts \in 0..MaxJobAttempts
<1>1. jobs \in Seq(JobRow)
  BY DEF JobsInv
<1>2. Len(jobs) \in Nat /\ DOMAIN jobs = Job /\ \A j \in Job : jobs[j] \in JobRow
  BY <1>1 DEF Job
<1>3. \A row \in JobRow : /\ row.src \in 1..MaxState /\ row.left \in 0..Batches
                          /\ row.attempts \in 0..MaxJobAttempts
  BY DEF JobRow
<1> QED BY <1>2, <1>3 DEF Job

LEMMA NoBacklogIs == ASSUME JobsInv PROVE NoBacklog
<1>1. ASSUME NEW i \in Job, NEW j \in Job,
             jobs[i].status = "running", jobs[j].status = "running" PROVE i = j
  <2>1. i <= j /\ j <= i /\ i \in Nat /\ j \in Nat
    BY <1>1, JobsAre DEF JobsInv, JobsOrdered
  <2> QED BY <2>1
<1>2. Cardinality({j \in ActiveJobs : jobs[j].status = "running"}) <= 1
  <2>1. \A i, j \in {k \in ActiveJobs : jobs[k].status = "running"} : i = j
    BY <1>1 DEF ActiveJobs, Job
  <2> QED BY <2>1, AtMostOne
<1>3. Cardinality({j \in ActiveJobs : jobs[j].status = "queued"}) <= 1
  <2>1. \A i, j \in {k \in ActiveJobs : jobs[k].status = "queued"} : i = j
    BY DEF ActiveJobs, Job, JobsInv, JobsOrdered
  <2> QED BY <2>1, AtMostOne
<1> QED BY <1>2, <1>3 DEF NoBacklog

LEMMA TypeIs == IInv => TypeOK
  BY DEF IInv, JobsInv, VaultInv, CallsInv, BuildInv, RunInv, RestInv, TypeOK,
         JobRow, SyncRow, CallRow

LEMMA Numbers ==
    /\ MaxState \in Nat /\ MaxState > 0 /\ MaxJobAttempts \in Nat /\ MaxJobAttempts > 0
    /\ RetryLimit \in Nat /\ RetryLimit > 0 /\ Batches \in Nat
    /\ MaxFaults \in Nat /\ MaxCrashes \in Nat /\ MaxRevokes \in Nat /\ Profiles \subseteq Nat
    /\ Builder \notin Handler
  BY LibraryAssumption DEF LibraryAssumption

LEMMA NoneFits ==
    /\ NoCall \in CallRow /\ NoCall.pc = "idle" /\ NoCall.op = "none"
    /\ NoBuild.pc = "idle" /\ NoRun.pc = "idle"
  BY Numbers DEF NoCall, CallRow, NoBuild, NoRun

LEMMA InitInv == Init => IInv
<1> SUFFICES ASSUME Init PROVE IInv
  OBVIOUS
<1> USE DEF Init
<1>1. jobs = <<>> /\ Len(jobs) = 0 /\ Job = {} /\ jobs \in Seq(JobRow)
  BY DEF Job
<1>2. JobsInv
  BY <1>1, Numbers DEF JobsInv, CurrentIsPublished, JobsOrdered, ActiveFits
<1>3. VaultInv
  BY Numbers DEF VaultInv, Unsynced, SyncRow, NotStaleMeansCurrent
<1>4. CallsInv
  BY NoneFits DEF CallsInv, CallFits
<1>5. BuildInv
  BY <1>1, Numbers DEF BuildInv, NoBuild
<1>6. RunInv
  BY <1>1, Numbers DEF RunInv, NoRun
<1>7. RestInv
  <2>1. 0 \in 0..RetryLimit - 1 /\ 0 \in 0..MaxFaults /\ 0 \in 0..MaxCrashes /\ 0 \in 0..MaxRevokes
    BY Numbers
  <2>2. tail \in Seq(Handler \cup {Alarm})
    OBVIOUS
  <2> QED BY <2>1, <2>2 DEF RestInv
<1> QED BY <1>2, <1>3, <1>4, <1>5, <1>6, <1>7 DEF IInv

-----------------------------------------------------------------------------
(* Parts that a step leaves alone *)

LEMMA JobsSame == ASSUME JobsInv, UNCHANGED <<durable, jobs, current>> PROVE JobsInv'
  BY DEF JobsInv, CurrentIsPublished, JobsOrdered, ActiveFits, Job, JobRow, Active

LEMMA VaultSame == ASSUME VaultInv, UNCHANGED <<jobs, current, vault, sync>> PROVE VaultInv'
  BY DEF VaultInv, NotStaleMeansCurrent, PublishedSource, SyncRow

\* The stale flag is up, or the row is as it was or of no active vault.
LEMMA SyncMoves ==
    ASSUME VaultInv, UNCHANGED <<jobs, current>>,
           vault' \in {"active", "revoked"}, sync' \in SyncRow,
           \/ vault' = "revoked" \/ sync'.stale
           \/ PublishedSource = sync'.hash
           \/ vault' = vault /\ sync'.stale = sync.stale /\ sync'.hash = sync.hash
    PROVE  VaultInv'
<1>1. PublishedSource' = PublishedSource
  BY DEF PublishedSource
<1> QED BY <1>1 DEF VaultInv, NotStaleMeansCurrent, SyncRow

LEMMA SyncIs ==
    ASSUME VaultInv
    PROVE  /\ vault \in {"active", "revoked"} /\ sync \in SyncRow
           /\ sync.hash \in 0..MaxState /\ sync.stale \in BOOLEAN /\ sync.profile \in Nat
           /\ sync.error \in {"none", "unavailable", "unsafe"} /\ sync.confirmed \in BOOLEAN
<1>1. vault \in {"active", "revoked"} /\ sync \in SyncRow
  BY DEF VaultInv
<1> QED BY <1>1 DEF SyncRow

LEMMA CallsSame == ASSUME CallsInv, UNCHANGED call PROVE CallsInv'
  BY DEF CallsInv, CallFits, CallRow

\* One request goes on.
LEMMA CallMoves ==
    ASSUME CallsInv, NEW c \in Call, NEW row \in CallRow, call' = [call EXCEPT ![c] = row],
           row.pc \in {"read", "write", "wake"} => row.op # "none",
           row.pc = "confirm" => row.op \in {"confirm", "denied"},
           c = Builder => row.op \in {"none", "build"} /\ row.pc # "building"
    PROVE  CallsInv'
<1>1. call \in [Call -> CallRow]
  BY DEF CallsInv
<1>2. call' \in [Call -> CallRow] /\ \A d \in Call : call'[d] = IF d = c THEN row ELSE call[d]
  BY <1>1
<1>3. CallRow' = CallRow
  BY DEF CallRow
<1>4. \A d \in Call : CallFits(d)'
  BY <1>2 DEF CallsInv, CallFits
<1> QED BY <1>2, <1>3, <1>4 DEF CallsInv

LEMMA CallIs ==
    ASSUME CallsInv, NEW c \in Call
    PROVE  /\ call[c] \in CallRow /\ CallFits(c)
           /\ call[c].pc \in {"idle", "read", "write", "wake", "confirm", "done", "building"}
           /\ call[c].op \in {"none", "change", "confirm", "denied", "build"}
           /\ call[c].hash \in 0..MaxState /\ call[c].profile \in Nat /\ call[c].changed \in BOOLEAN
<1>1. call[c] \in CallRow /\ CallFits(c)
  BY DEF CallsInv
<1> QED BY <1>1 DEF CallRow

LEMMA IdleMoves ==
    ASSUME CallsInv, NEW c \in Call, call' = [call EXCEPT ![c] = NoCall] PROVE CallsInv'
  BY NoneFits, CallMoves

\* What a step may do to the jobs without the build and the alarm noticing.
JobsGrow ==
    /\ JobsInv /\ JobsInv' /\ durable <= durable'
    /\ Len(jobs) <= Len(jobs')
    /\ \A j \in Job : jobs'[j].src = jobs[j].src

LEMMA BuildSame ==
    ASSUME BuildInv, JobsGrow, UNCHANGED build, Len(jobs') = Len(jobs) PROVE BuildInv'
<1>1. Job' = Job /\ durable \in Nat /\ durable' \in Nat /\ durable <= durable'
  BY Numbers DEF Job, JobsGrow, JobsInv
<1>2. \A j \in Job' : jobs'[j].src = jobs[j].src
  BY <1>1 DEF JobsGrow
<1>3. build.src \in 1..durable => build.src \in 1..durable'
  BY <1>1
<1> QED BY <1>1, <1>2, <1>3 DEF BuildInv

LEMMA BuildMoves ==
    ASSUME BuildInv, UNCHANGED <<durable, jobs>>, NEW b,
           b \in [pc : {"idle", "capture", "current", "active", "create", "wake"},
                  by : Handler \cup {Alarm}, src : 0..MaxState, job : 0..Len(jobs)],
           build' = b,
           b.pc \in {"current", "active", "create", "wake"} =>
              b.src \in 1..durable /\ \A j \in Job : jobs[j].src <= b.src,
           b.pc = "wake" => b.job \in Job
    PROVE  BuildInv'
<1>1. Job' = Job
  BY DEF Job
<1> QED BY <1>1 DEF BuildInv

LEMMA RunSame ==
    ASSUME RunInv, JobsGrow, UNCHANGED run,
           run.pc = "work" => jobs'[run.job].status = jobs[run.job].status
    PROVE  RunInv'
<1>1. Len(jobs) \in Nat /\ Len(jobs') \in Nat /\ Len(jobs) <= Len(jobs')
  <2>1. jobs \in Seq(JobRow) /\ jobs' \in Seq(JobRow)
    BY DEF JobsGrow, JobsInv, JobRow
  <2> QED BY <2>1 DEF JobsGrow
<1>2. 0..Len(jobs) \subseteq 0..Len(jobs') /\ Job \subseteq Job'
  BY <1>1 DEF Job
<1>3. run.job \in 0..Len(jobs)
  BY DEF RunInv
<1>4. run.job \in 0..Len(jobs')
  BY <1>2, <1>3
<1>5. run \in [pc : {"idle", "claim", "work", "fail", "more", "state", "waiting",
                     "ready", "completed", "queued", "retry", "unavailable", "unsafe"},
               job : 0..Len(jobs'), hash : 0..MaxState]
  BY <1>4 DEF RunInv
<1> QED BY <1>2, <1>5 DEF RunInv

LEMMA RunMoves ==
    ASSUME RunInv, UNCHANGED jobs, NEW r,
           r \in [pc : {"idle", "claim", "work", "fail", "more", "state", "waiting",
                        "ready", "completed", "queued", "retry", "unavailable", "unsafe"},
                  job : 0..Len(jobs), hash : 0..MaxState],
           run' = r, r.pc \notin {"work", "fail"}
    PROVE  RunInv'
  BY DEF RunInv, Job

LEMMA SameGrow == ASSUME JobsInv, UNCHANGED <<durable, jobs, current>> PROVE JobsGrow
<1>1. JobsInv'
  BY JobsSame
<1>2. Len(jobs) \in Nat /\ durable \in Nat
  BY Numbers, JobsAre DEF JobsInv
<1> QED BY <1>1, <1>2 DEF JobsGrow

\* A step on none of the jobs, the build and the alarm's run.
LEMMA QuietInv ==
    ASSUME IInv, UNCHANGED <<durable, jobs, current, build, run>>, VaultInv', CallsInv', RestInv'
    PROVE  IInv'
<1>1. JobsInv' /\ JobsGrow
  BY JobsSame, SameGrow DEF IInv
<1>2. BuildInv' /\ RunInv'
  BY <1>1, BuildSame, RunSame DEF IInv
<1> QED BY <1>1, <1>2 DEF IInv

\* A fault is counted.
LEMMA FaultCounts ==
    ASSUME RestInv, NEW where, Fault(where)
    PROVE  faults' \in 0..MaxFaults /\ crashes' \in 0..MaxCrashes /\ revokes' \in 0..MaxRevokes
  BY Numbers DEF RestInv, Fault

-----------------------------------------------------------------------------
(* Requests *)

LEMMA ChangeInv == ASSUME IInv, NEW c \in Handler, Change(c) PROVE IInv'
<1>1. /\ durable \in 1..MaxState /\ durable' \in 1..MaxState /\ durable <= durable'
      /\ UNCHANGED <<tail, build, run, alarm, retry, vault, sync, current, jobs, faults, crashes, revokes>>
      /\ call' = [call EXCEPT ![c] = Recording("change", durable', 0)]
  BY Numbers DEF Change, IInv, JobsInv, wakeup, tables, budget
<1>2. Recording("change", durable', 0) \in CallRow
  BY <1>1 DEF Recording, CallRow
<1>3. CallsInv'
  BY <1>1, <1>2, Numbers, CallMoves DEF IInv, Recording, Call
<1>4. JobsInv'
  <2>1. \A j \in Job : jobs[j].src <= durable'
    <3>1. \A j \in Job : jobs[j].src \in Nat /\ jobs[j].src <= durable
      BY JobsAre DEF IInv, JobsInv, JobsOrdered
    <3> QED BY <1>1, <3>1
  <2> QED BY <1>1, <2>1
          DEF IInv, JobsInv, CurrentIsPublished, JobsOrdered, ActiveFits, Job, JobRow, Active
<1>5. JobsGrow
  <2>1. Len(jobs) \in Nat
    BY JobsAre DEF IInv
  <2> QED BY <1>1, <1>4, <2>1 DEF JobsGrow, IInv
<1>6. VaultInv'
  BY <1>1, VaultSame DEF IInv
<1>7. BuildInv' /\ RunInv'
  BY <1>1, <1>5, BuildSame, RunSame DEF IInv
<1>8. RestInv'
  BY <1>1 DEF IInv, RestInv
<1> QED BY <1>3, <1>4, <1>6, <1>7, <1>8 DEF IInv

\* Only a request changes.
LEMMA CallInv ==
    ASSUME IInv, UNCHANGED <<durable, tail, build, run, alarm, retry, vault, sync, current, jobs>>,
           UNCHANGED budget, CallsInv'
    PROVE  IInv'
<1>1. VaultInv'
  BY VaultSame DEF IInv
<1>2. RestInv'
  BY DEF IInv, RestInv, budget
<1> QED BY <1>1, <1>2, QuietInv

LEMMA ConfirmRequestedInv ==
    ASSUME IInv, NEW c \in Handler, NEW profile \in {0} \cup Profiles, ConfirmRequested(c, profile)
    PROVE  IInv'
<1>1. /\ UNCHANGED <<durable, tail, build, run, alarm, retry, vault, sync, current, jobs>>
      /\ UNCHANGED budget
      /\ call' = [call EXCEPT ![c] = Recording("confirm", durable, profile)]
  BY DEF ConfirmRequested, wakeup, tables
<1>2. Recording("confirm", durable, profile) \in CallRow
  BY Numbers DEF Recording, CallRow, IInv, JobsInv
<1>3. CallsInv'
  BY <1>1, <1>2, Numbers, CallMoves DEF IInv, Recording, Call
<1> QED BY <1>1, <1>3, CallInv

LEMMA RecordReadInv == ASSUME IInv, NEW c \in Call, RecordRead(c) PROVE IInv'
<1>1. /\ UNCHANGED <<durable, tail, build, run, alarm, retry, vault, sync, current, jobs>>
      /\ UNCHANGED budget /\ call[c].pc = "read"
      /\ call' = [call EXCEPT ![c].pc = "write", ![c].changed = sync.hash # call[c].hash]
  BY DEF RecordRead, wakeup, tables
<1>2. call[c] \in CallRow /\ CallFits(c) /\ call \in [Call -> CallRow]
  BY CallIs DEF IInv, CallsInv
<1>3. PICK row : row = [call[c] EXCEPT !.pc = "write", !.changed = sync.hash # call[c].hash]
  OBVIOUS
<1>4. row \in CallRow /\ row.pc = "write" /\ row.op = call[c].op
  BY <1>2, <1>3 DEF CallRow
<1>5. call' = [call EXCEPT ![c] = row]
  BY <1>1, <1>2, <1>3
<1>6. CallsInv'
  BY <1>1, <1>2, <1>4, <1>5, CallMoves DEF IInv, CallFits
<1> QED BY <1>1, <1>6, CallInv

LEMMA RecordWriteInv == ASSUME IInv, NEW c \in Call, RecordWrite(c) PROVE IInv'
<1>1. /\ UNCHANGED <<durable, tail, build, run, alarm, retry, vault, current, jobs, faults, crashes, revokes>>
      /\ call[c].pc = "write" /\ call' = [call EXCEPT ![c].pc = "wake"]
      /\ sync' = sync \/ sync' = [sync EXCEPT !.hash = call[c].hash, !.stale = TRUE, !.error = "none"]
  BY DEF RecordWrite, wakeup, budget, At
<1>2. call[c] \in CallRow /\ CallFits(c) /\ call \in [Call -> CallRow] /\ call[c].hash \in 0..MaxState
  BY CallIs DEF IInv, CallsInv
<1>3. PICK row : row = [call[c] EXCEPT !.pc = "wake"]
  OBVIOUS
<1>4. row \in CallRow /\ row.pc = "wake" /\ row.op = call[c].op
  BY <1>2, <1>3 DEF CallRow
<1>5. call' = [call EXCEPT ![c] = row]
  BY <1>1, <1>2, <1>3
<1>6. CallsInv'
  BY <1>1, <1>2, <1>4, <1>5, CallMoves DEF IInv, CallFits
<1>7. VaultInv'
  <2>1. CASE sync' = sync
    BY <1>1, <2>1, VaultSame DEF IInv
  <2>2. CASE sync' = [sync EXCEPT !.hash = call[c].hash, !.stale = TRUE, !.error = "none"]
    <3>1. sync' \in SyncRow /\ sync'.stale
      BY <1>2, <2>2, SyncIs DEF SyncRow, IInv
    <3> QED BY <1>1, <3>1, SyncMoves, SyncIs DEF IInv
  <2> QED BY <1>1, <2>1, <2>2
<1>8. RestInv'
  BY <1>1 DEF IInv, RestInv
<1> QED BY <1>1, <1>6, <1>7, <1>8, QuietInv

LEMMA RecordDoneInv == ASSUME IInv, NEW c \in Call, RecordDone(c) PROVE IInv'
<1>1. /\ UNCHANGED <<durable, tail, build, run, vault, sync, current, jobs, faults, crashes, revokes>>
      /\ call[c].pc = "wake"
      /\ retry' = (IF call[c].changed THEN 0 ELSE retry)
      /\ alarm' = (alarm \/ NeedsBuild)
      /\ CASE call[c].op = "change" -> call' = [call EXCEPT ![c] = NoCall]
           [] call[c].op \in {"confirm", "denied"} ->
                call' = [call EXCEPT ![c].pc = "confirm", ![c].hash = durable]
           [] call[c].op = "build"   -> At(c, "done")
  BY DEF RecordDone, tables, budget
<1>2. /\ call[c] \in CallRow /\ CallFits(c) /\ call \in [Call -> CallRow]
      /\ call[c].op \in {"change", "confirm", "denied", "build"}
  <2>1. call[c].op \in {"none", "change", "confirm", "denied", "build"}
    BY CallIs DEF IInv
  <2> QED BY <1>1, <2>1, CallIs DEF IInv, CallsInv, CallFits
<1>3. durable \in 0..MaxState
  BY Numbers DEF IInv, JobsInv
<1>4. CallsInv'
  <2>1. CASE call[c].op = "change"
    BY <1>1, <2>1, IdleMoves DEF IInv
  <2>2. CASE call[c].op \in {"confirm", "denied"}
    <3>1. PICK row : row = [call[c] EXCEPT !.pc = "confirm", !.hash = durable]
      OBVIOUS
    <3>2. row \in CallRow /\ row.pc = "confirm" /\ row.op = call[c].op
      BY <1>2, <1>3, <3>1 DEF CallRow
    <3>3. call' = [call EXCEPT ![c] = row]
      BY <1>1, <1>2, <2>2, <3>1
    <3> QED BY <1>2, <2>2, <3>2, <3>3, CallMoves DEF IInv, CallFits
  <2>3. CASE call[c].op = "build"
    <3>1. PICK row : row = [call[c] EXCEPT !.pc = "done"]
      OBVIOUS
    <3>2. row \in CallRow /\ row.pc = "done" /\ row.op = call[c].op
      BY <1>2, <3>1 DEF CallRow
    <3>3. call' = [call EXCEPT ![c] = row]
      BY <1>1, <1>2, <2>3, <3>1 DEF At
    <3> QED BY <1>2, <2>3, <3>2, <3>3, CallMoves DEF IInv, CallFits
  <2> QED BY <1>2, <2>1, <2>2, <2>3
<1>5. VaultInv'
  BY <1>1, VaultSame DEF IInv
<1>6. RestInv'
  <2>1. retry \in 0..RetryLimit - 1 /\ 0 \in 0..RetryLimit - 1
    BY Numbers DEF IInv, RestInv
  <2>2. alarm' \in BOOLEAN
    BY <1>1
  <2>3. retry' \in 0..RetryLimit - 1
    BY <1>1, <2>1
  <2> QED BY <1>1, <2>2, <2>3 DEF IInv, RestInv
<1> QED BY <1>1, <1>4, <1>5, <1>6, QuietInv

\* A request that waits for its build.
LEMMA AskBuildFits ==
    ASSUME CallsInv, RestInv, NEW c \in Handler, AskBuild(c)
    PROVE  CallsInv' /\ tail' \in Seq(Handler \cup {Alarm})
<1>1. PICK row : row = [NoCall EXCEPT !.pc = "building"]
  OBVIOUS
<1>2. row \in CallRow /\ row.pc = "building" /\ row.op = "none"
  BY <1>1, NoneFits DEF CallRow
<1>3. call' = [call EXCEPT ![c] = row] /\ tail' = Append(tail, c)
  BY <1>1 DEF AskBuild
<1>4. CallsInv'
  BY <1>2, <1>3, Numbers, CallMoves DEF Call
<1> QED BY <1>3, <1>4 DEF RestInv

LEMMA BuildRequestedInv == ASSUME IInv, NEW c \in Handler, BuildRequested(c) PROVE IInv'
<1>1. /\ UNCHANGED <<durable, build, run, alarm, retry, vault, sync, current, jobs, faults, crashes, revokes>>
      /\ AskBuild(c)
  BY DEF BuildRequested, wakeup, tables, budget
<1>2. CallsInv' /\ tail' \in Seq(Handler \cup {Alarm})
  BY <1>1, AskBuildFits DEF IInv
<1>3. VaultInv'
  BY <1>1, VaultSame DEF IInv
<1>4. RestInv'
  BY <1>1, <1>2 DEF IInv, RestInv
<1> QED BY <1>1, <1>2, <1>3, <1>4, QuietInv

LEMMA ConfirmInv == ASSUME IInv, NEW c \in Call, Confirm(c) PROVE IInv'
<1> DEFINE reported == call[c].profile # 0 /\ call[c].profile # sync.profile
           unchanged == sync.hash = call[c].hash /\ ~sync.stale
<1>1. /\ UNCHANGED <<durable, build, run, alarm, retry, vault, current, jobs, faults, crashes, revokes>>
      /\ call[c].pc = "confirm"
      /\ sync' = [sync EXCEPT !.confirmed = TRUE, !.hash = call[c].hash,
                              !.error = "none",
                              !.profile = IF reported THEN call[c].profile ELSE @,
                              !.stale = reported \/ ~unchanged]
      /\ IF call[c].op = "confirm"
         THEN AskBuild(c)
         ELSE call' = [call EXCEPT ![c] = NoCall] /\ UNCHANGED tail
  BY DEF Confirm, wakeup, budget
<1>2. c \in Handler /\ call[c].hash \in 0..MaxState /\ call[c].profile \in Nat
  BY <1>1, CallIs DEF IInv, CallFits, Call
<1>3. CallsInv' /\ tail' \in Seq(Handler \cup {Alarm})
  BY <1>1, <1>2, AskBuildFits, IdleMoves DEF IInv, RestInv
<1>4. VaultInv'
  <2>1. PICK profile \in Nat : profile = IF reported THEN call[c].profile ELSE sync.profile
    BY <1>2, SyncIs DEF IInv
  <2>2. PICK stale \in BOOLEAN : stale = (reported \/ ~unchanged)
    OBVIOUS
  <2>3. sync' = [sync EXCEPT !.confirmed = TRUE, !.hash = call[c].hash, !.error = "none",
                             !.profile = profile, !.stale = stale]
    BY <1>1, <2>1, <2>2
  <2>4. sync' \in SyncRow /\ sync'.stale = stale /\ sync'.hash = call[c].hash
    BY <1>2, <2>3, SyncIs DEF SyncRow, IInv
  <2>5. sync'.stale \/ (sync'.stale = sync.stale /\ sync'.hash = sync.hash)
    BY <2>2, <2>4, SyncIs DEF IInv
  <2> QED BY <1>1, <2>4, <2>5, SyncIs, SyncMoves DEF IInv
<1>5. RestInv'
  BY <1>1, <1>3 DEF IInv, RestInv
<1> QED BY <1>1, <1>3, <1>4, <1>5, QuietInv

LEMMA RecordFailedInv == ASSUME IInv, NEW c \in Handler, RecordFailed(c) PROVE IInv'
<1>1. /\ UNCHANGED <<durable, tail, build, run, alarm, retry, vault, sync, current, jobs>>
      /\ call' = [call EXCEPT ![c] = NoCall] /\ Fault("record")
  BY DEF RecordFailed, wakeup, tables
<1>2. CallsInv'
  BY <1>1, IdleMoves DEF IInv, Call
<1>3. VaultInv'
  BY <1>1, VaultSame DEF IInv
<1>4. RestInv'
  BY <1>1, FaultCounts DEF IInv, RestInv
<1> QED BY <1>1, <1>2, <1>3, <1>4, QuietInv

-----------------------------------------------------------------------------
(* The queue of builds *)

\* A build ends: whoever waits for it is answered.
LEMMA AnswersFit ==
    ASSUME CallsInv, BuildInv, RunInv, JobsInv, JobsGrow,
           NEW answer \in {"unavailable", "unsafe", "completed", "queued"},
           NEW hash \in 0..MaxState, BuildAnswers(answer, hash),
           run.pc = "work" => jobs'[run.job].status = jobs[run.job].status
    PROVE  CallsInv' /\ BuildInv' /\ RunInv'
<1>1. /\ build' = NoBuild
      /\ call' = [c \in Call |-> IF c \in {Builder, build.by} THEN NoCall ELSE call[c]]
      /\ run' = (IF build.by = Alarm THEN [run EXCEPT !.pc = answer, !.hash = hash] ELSE run)
  BY DEF BuildAnswers, BuildEnds
<1>2. CallsInv'
  <2>1. \A c \in Call : call'[c] = NoCall \/ call'[c] = call[c]
    BY <1>1
  <2>2. CallRow' = CallRow
    BY DEF CallRow
  <2>3. call' \in [Call -> CallRow]
    BY <1>1, NoneFits DEF CallsInv
  <2>4. \A c \in Call : CallFits(c)'
    BY <2>1, NoneFits DEF CallsInv, CallFits
  <2> QED BY <2>2, <2>3, <2>4 DEF CallsInv
<1>3. Len(jobs) \in Nat /\ Len(jobs') \in Nat /\ Len(jobs) <= Len(jobs')
  <2>1. jobs \in Seq(JobRow) /\ jobs' \in Seq(JobRow)
    BY DEF JobsGrow, JobsInv, JobRow
  <2> QED BY <2>1 DEF JobsGrow
<1>4. BuildInv'
  BY <1>1, <1>3, Numbers DEF BuildInv, NoBuild
<1>5. RunInv'
  <2>1. CASE build.by # Alarm
    BY <1>1, <2>1, RunSame
  <2>2. CASE build.by = Alarm
    <3>1. run.job \in 0..Len(jobs) /\ run' = [run EXCEPT !.pc = answer, !.hash = hash]
      BY <1>1, <2>2 DEF RunInv
    <3>2. run.job \in 0..Len(jobs')
      BY <1>3, <3>1
    <3>3. run' \in [pc : {"idle", "claim", "work", "fail", "more", "state", "waiting",
                          "ready", "completed", "queued", "retry", "unavailable", "unsafe"},
                    job : 0..Len(jobs'), hash : 0..MaxState]
          /\ run'.pc = answer
      BY <3>1, <3>2 DEF RunInv
    <3> QED BY <3>3 DEF RunInv
  <2> QED BY <2>1, <2>2
<1> QED BY <1>2, <1>4, <1>5

\* A build ends and the jobs are as they were.
LEMMA AnswersInv ==
    ASSUME IInv, UNCHANGED <<durable, vault, sync, current, jobs>>, RestInv',
           NEW answer \in {"unavailable", "unsafe", "completed", "queued"},
           NEW hash \in 0..MaxState, BuildAnswers(answer, hash)
    PROVE  IInv'
<1>1. JobsInv' /\ JobsGrow /\ VaultInv'
  BY JobsSame, SameGrow, VaultSame DEF IInv
<1>2. CallsInv' /\ BuildInv' /\ RunInv'
  BY <1>1, AnswersFit DEF IInv
<1> QED BY <1>1, <1>2 DEF IInv

\* Only the build changes.
LEMMA BuildInvStep ==
    ASSUME IInv, UNCHANGED <<durable, vault, sync, current, jobs, run>>, RestInv', CallsInv', BuildInv'
    PROVE  IInv'
<1>1. JobsInv' /\ JobsGrow /\ VaultInv'
  BY JobsSame, SameGrow, VaultSame DEF IInv
<1>2. RunInv'
  BY <1>1, RunSame DEF IInv
<1> QED BY <1>1, <1>2 DEF IInv

LEMMA RestSame ==
    ASSUME RestInv, UNCHANGED <<tail, alarm, retry, faults, crashes, revokes>> PROVE RestInv'
  BY DEF RestInv

LEMMA BuildIs ==
    ASSUME BuildInv
    PROVE  /\ build.pc \in {"idle", "capture", "current", "active", "create", "wake"}
           /\ build.by \in Handler \cup {Alarm} /\ build.src \in 0..MaxState
           /\ build.job \in 0..Len(jobs)
  BY DEF BuildInv

LEMMA BuildStartsInv == IInv /\ BuildStarts => IInv'
<1> SUFFICES ASSUME IInv, BuildStarts PROVE IInv'
  OBVIOUS
<1>1. PICK by : by = Head(tail)
  OBVIOUS
<1>2. PICK b : b = [NoBuild EXCEPT !.pc = "capture", !.by = by]
  OBVIOUS
<1>3. /\ UNCHANGED <<durable, run, alarm, retry, vault, sync, current, jobs, faults, crashes, revokes>>
      /\ tail # <<>> /\ build' = b /\ tail' = Tail(tail)
      /\ call' = [call EXCEPT ![Builder] = Recording("build", durable, 0)]
  BY <1>1, <1>2 DEF BuildStarts, wakeup, tables, budget
<1>4. tail \in Seq(Handler \cup {Alarm})
  BY DEF IInv, RestInv
<1>5. by \in Handler \cup {Alarm} /\ tail' \in Seq(Handler \cup {Alarm})
  BY <1>1, <1>3, <1>4
<1>6. /\ b \in [pc : {"idle", "capture", "current", "active", "create", "wake"},
                by : Handler \cup {Alarm}, src : 0..MaxState, job : 0..Len(jobs)]
      /\ b.pc = "capture"
  <2>1. Len(jobs) \in Nat /\ 0 \in 0..MaxState
    BY JobsAre, Numbers DEF IInv
  <2>2. b = [pc |-> "capture", by |-> by, src |-> 0, job |-> 0]
    BY <1>2 DEF NoBuild
  <2> QED BY <1>5, <2>1, <2>2
<1>7. BuildInv'
  BY <1>3, <1>6, BuildMoves DEF IInv
<1>8. Recording("build", durable, 0) \in CallRow
  <2>1. durable \in 0..MaxState
    BY Numbers DEF IInv, JobsInv
  <2> QED BY <2>1 DEF Recording, CallRow
<1>9. CallsInv'
  BY <1>3, <1>8, CallMoves DEF IInv, Recording, Call
<1>10. RestInv'
  BY <1>3, <1>5 DEF IInv, RestInv
<1> QED BY <1>3, <1>7, <1>9, <1>10, BuildInvStep

LEMMA CaptureGivesUpInv == IInv /\ CaptureGivesUp => IInv'
<1> SUFFICES ASSUME IInv, CaptureGivesUp PROVE IInv'
  OBVIOUS
<1>1. /\ UNCHANGED <<durable, tail, alarm, retry, vault, sync, current, jobs>>
      /\ Fault("save") /\ BuildAnswers("unavailable", 0) /\ 0 \in 0..MaxState
  BY Numbers DEF CaptureGivesUp, wakeup, tables
<1>2. RestInv'
  BY <1>1, FaultCounts DEF IInv, RestInv
<1> QED BY <1>1, <1>2, AnswersInv

LEMMA CaptureRejectsInv == IInv /\ CaptureRejects => IInv'
<1> SUFFICES ASSUME IInv, CaptureRejects PROVE IInv'
  OBVIOUS
<1>1. /\ UNCHANGED <<durable, tail, retry, vault, sync, current, jobs>>
      /\ Fault("record") /\ build' = NoBuild
      /\ call' = [c \in Call |-> IF c \in {Builder, build.by} THEN NoCall ELSE call[c]]
      /\ (run' = NoRun /\ alarm' = TRUE) \/ UNCHANGED <<run, alarm>>
  BY DEF CaptureRejects, BuildEnds, tables
<1>2. RestInv'
  BY <1>1, FaultCounts DEF IInv, RestInv
<1>3. JobsInv' /\ JobsGrow /\ VaultInv'
  BY <1>1, JobsSame, SameGrow, VaultSame DEF IInv
<1>4. CallsInv'
  <2>1. \A c \in Call : call'[c] = NoCall \/ call'[c] = call[c]
    BY <1>1
  <2>2. CallRow' = CallRow
    BY DEF CallRow
  <2>3. call' \in [Call -> CallRow]
    BY <1>1, NoneFits DEF IInv, CallsInv
  <2>4. \A c \in Call : CallFits(c)'
    BY <1>1, <2>1, NoneFits DEF IInv, CallsInv, CallFits
  <2> QED BY <2>2, <2>3, <2>4 DEF CallsInv
<1>5. Len(jobs) \in Nat
  BY JobsAre DEF IInv
<1>6. BuildInv'
  BY <1>1, <1>5, Numbers DEF BuildInv, NoBuild
<1>7. RunInv'
  <2>1. CASE UNCHANGED run
    BY <1>1, <1>3, <2>1, RunSame DEF IInv
  <2>2. CASE run' = NoRun
    BY <1>1, <1>5, <2>2, Numbers DEF RunInv, NoRun
  <2> QED BY <1>1, <2>1, <2>2
<1> QED BY <1>2, <1>3, <1>4, <1>6, <1>7 DEF IInv

LEMMA CapturedInv == IInv /\ Captured => IInv'
<1> SUFFICES ASSUME IInv, Captured PROVE IInv'
  OBVIOUS
<1>1. /\ UNCHANGED <<durable, tail, alarm, retry, vault, sync, current, jobs, faults, crashes, revokes>>
      /\ 0 \in 0..MaxState
      /\ IF durable \in Unsafe
         THEN BuildAnswers("unsafe", 0)
         ELSE /\ build' = [build EXCEPT !.pc = "current", !.src = durable]
              /\ call' = [call EXCEPT ![Builder] = NoCall]
              /\ UNCHANGED run
  BY Numbers DEF Captured, wakeup, tables, budget
<1>2. RestInv'
  BY <1>1, RestSame DEF IInv
<1>3. CASE durable \in Unsafe
  BY <1>1, <1>2, <1>3, AnswersInv
<1>4. CASE durable \notin Unsafe
  <2>1. PICK b : b = [build EXCEPT !.pc = "current", !.src = durable]
    OBVIOUS
  <2>2. durable \in 1..durable /\ durable \in 0..MaxState /\ \A j \in Job : jobs[j].src <= durable
    BY Numbers DEF IInv, JobsInv, JobsOrdered
  <2>3. /\ b \in [pc : {"idle", "capture", "current", "active", "create", "wake"},
                  by : Handler \cup {Alarm}, src : 0..MaxState, job : 0..Len(jobs)]
        /\ b.pc = "current" /\ b.src = durable
    BY <2>1, <2>2 DEF IInv, BuildInv
  <2>4. BuildInv'
    BY <1>1, <1>4, <2>1, <2>2, <2>3, BuildMoves DEF IInv
  <2>5. CallsInv'
    BY <1>1, <1>4, IdleMoves DEF IInv, Call
  <2> QED BY <1>1, <1>2, <1>4, <2>4, <2>5, BuildInvStep
<1> QED BY <1>3, <1>4

\* The build goes on to its next statement.
LEMMA BuildAtInv ==
    ASSUME IInv, build.pc \in {"current", "active", "create"}, NEW pc \in {"active", "create"},
           BuildAt(pc), UNCHANGED <<durable, vault, sync, current, jobs, run, call>>, RestInv'
    PROVE  IInv'
<1>1. PICK b : b = [build EXCEPT !.pc = pc]
  OBVIOUS
<1>2. /\ b \in [pc : {"idle", "capture", "current", "active", "create", "wake"},
                by : Handler \cup {Alarm}, src : 0..MaxState, job : 0..Len(jobs)]
      /\ b.pc = pc /\ b.src = build.src /\ build' = b
  BY <1>1 DEF IInv, BuildInv, BuildAt
<1>3. build.src \in 1..durable /\ \A j \in Job : jobs[j].src <= build.src
  BY DEF IInv, BuildInv
<1>4. BuildInv'
  BY <1>2, <1>3, BuildMoves DEF IInv
<1> QED BY <1>4, BuildInvStep, CallsSame DEF IInv

LEMMA LookForCurrentInv == IInv /\ LookForCurrent => IInv'
<1> SUFFICES ASSUME IInv, LookForCurrent PROVE IInv'
  OBVIOUS
<1>1. /\ UNCHANGED <<durable, tail, alarm, retry, vault, sync, current, jobs, faults, crashes, revokes>>
      /\ build.pc = "current"
      /\ IF PublishedSource = build.src
         THEN BuildAnswers("completed", build.src)
         ELSE BuildAt("active") /\ UNCHANGED <<call, run>>
  BY DEF LookForCurrent, wakeup, tables, budget
<1>2. RestInv'
  BY <1>1, RestSame DEF IInv
<1>3. build.src \in 0..MaxState
  BY BuildIs DEF IInv
<1>4. CASE PublishedSource = build.src
  BY <1>1, <1>2, <1>3, <1>4, AnswersInv
<1>5. CASE PublishedSource # build.src
  BY <1>1, <1>2, <1>5, BuildAtInv
<1> QED BY <1>4, <1>5

LEMMA LookForActiveInv == IInv /\ LookForActive => IInv'
<1> SUFFICES ASSUME IInv, LookForActive PROVE IInv'
  OBVIOUS
<1> DEFINE same == {j \in ActiveJobs : jobs[j].src = build.src}
<1>1. /\ UNCHANGED <<durable, call, tail, run, alarm, retry, vault, sync, current, jobs>>
      /\ UNCHANGED <<faults, crashes, revokes>> /\ build.pc = "active"
      /\ IF same = {}
         THEN BuildAt("create")
         ELSE build' = [build EXCEPT !.pc = "wake", !.job = CHOOSE j \in same : TRUE]
  BY DEF LookForActive, wakeup, tables, budget
<1>2. RestInv'
  BY <1>1, RestSame DEF IInv
<1>3. CASE same = {}
  BY <1>1, <1>2, <1>3, BuildAtInv
<1>4. CASE same # {}
  <2>1. PICK j \in same : j = CHOOSE i \in same : TRUE
    BY <1>4
  <2>2. j \in Job /\ j \in 0..Len(jobs)
    <3>1. Len(jobs) \in Nat /\ j \in Job
      BY JobsAre DEF ActiveJobs, Job, IInv
    <3> QED BY <3>1 DEF Job
  <2>3. PICK b : b = [build EXCEPT !.pc = "wake", !.job = j]
    OBVIOUS
  <2>4. /\ b \in [pc : {"idle", "capture", "current", "active", "create", "wake"},
                  by : Handler \cup {Alarm}, src : 0..MaxState, job : 0..Len(jobs)]
        /\ b.src = build.src /\ b.job = j /\ build' = b
    BY <1>1, <1>4, <2>1, <2>2, <2>3 DEF IInv, BuildInv
  <2>5. build.src \in 1..durable /\ \A i \in Job : jobs[i].src <= build.src
    BY <1>1 DEF IInv, BuildInv
  <2>6. BuildInv'
    BY <1>1, <2>2, <2>4, <2>5, BuildMoves DEF IInv
  <2> QED BY <1>1, <1>2, <2>6, BuildInvStep, CallsSame DEF IInv
<1> QED BY <1>3, <1>4

LEMMA WakeForJobInv == IInv /\ WakeForJob => IInv'
<1> SUFFICES ASSUME IInv, WakeForJob PROVE IInv'
  OBVIOUS
<1>1. PICK answer \in {"completed", "queued"} :
         /\ UNCHANGED <<durable, tail, retry, vault, sync, current, jobs, faults, crashes, revokes>>
         /\ alarm' = (alarm \/ HasWorkLeft(build.job))
         /\ BuildAnswers(answer, build.src)
  BY DEF WakeForJob, tables, budget
<1>2. RestInv'
  <2>1. alarm' \in BOOLEAN
    BY <1>1
  <2> QED BY <1>1, <2>1 DEF IInv, RestInv
<1> QED BY <1>1, <1>2, AnswersInv, BuildIs DEF IInv

-----------------------------------------------------------------------------
(* The jobs *)

\* One job's row is written; the current job is left, or becomes this one.
LEMMA JobWritten ==
    ASSUME JobsInv, NEW j \in Job, NEW row \in JobRow, UNCHANGED durable,
           jobs' = [jobs EXCEPT ![j] = row], row.src = jobs[j].src,
           row.status \in {"running", "queued"} =>
              /\ Active(j) /\ row.generation = "staging" /\ row.attempts < MaxJobAttempts
              /\ row.status = "queued" => jobs[j].status = "queued"
              /\ (row.status = "running" /\ jobs[j].status = "queued") =>
                    \A i \in Job : jobs[i].status # "running",
           \/ current' = current
           \/ current' = j /\ jobs[j].status = "running",
           current' = j => row.generation = "published" /\ row.status = "completed" /\ row.left = 0
    PROVE  JobsInv' /\ JobsGrow /\ Len(jobs') = Len(jobs)
<1>1. /\ Len(jobs) \in Nat /\ DOMAIN jobs = Job /\ Job \subseteq Nat /\ jobs \in Seq(JobRow)
      /\ durable \in Nat
      /\ \A i \in Job : jobs[i].src \in Nat
  BY JobsAre DEF JobsInv
<1>2. /\ jobs' \in Seq(JobRow) /\ Len(jobs') = Len(jobs)
      /\ \A i \in Job : jobs'[i] = IF i = j THEN row ELSE jobs[i]
  BY <1>1, ExceptSeq DEF Job
<1>3. Job' = Job /\ JobRow' = JobRow
  BY <1>2 DEF Job, JobRow
<1>4. \A i \in Job : jobs'[i].src = jobs[i].src
  BY <1>2
<1>5. current' \in 0..Len(jobs')
  BY <1>1, <1>2 DEF JobsInv, Job
<1>6. CurrentIsPublished'
  <2> SUFFICES ASSUME current' # 0
               PROVE  /\ jobs'[current'].generation = "published"
                      /\ jobs'[current'].status = "completed"
                      /\ jobs'[current'].left = 0
    BY DEF CurrentIsPublished
  <2>1. CASE current' = j
    BY <1>2, <2>1
  <2>2. CASE current' # j
    <3>1. current' = current /\ current \in Job
      BY <1>1, <1>2, <1>5, <2>2 DEF Job
    <3> QED BY <1>2, <2>2, <3>1 DEF JobsInv, CurrentIsPublished
  <2> QED BY <2>1, <2>2
<1>7. JobsOrdered'
  <2>1. \A i, k \in Job : i <= k => jobs'[i].src <= jobs'[k].src
    BY <1>4 DEF JobsInv, JobsOrdered
  <2>2. \A i \in Job : jobs'[i].src <= durable'
    BY <1>4 DEF JobsInv, JobsOrdered
  <2>3. ASSUME NEW i \in Job, NEW k \in Job,
               jobs'[i].status = "running", jobs'[k].status \in {"running", "queued"}
        PROVE  i <= k
    <3>1. CASE i = j /\ k = j
      BY <1>1, <3>1
    <3>2. CASE i # j
      <4>1. jobs[i].status = "running" /\ jobs[k].status \in {"running", "queued"}
        BY <1>2, <2>3, <3>2 DEF Active
      <4> QED BY <4>1 DEF JobsInv, JobsOrdered
    <3>3. CASE i = j /\ k # j
      <4>1. jobs[k].status \in {"running", "queued"} /\ row.status = "running"
        BY <1>2, <2>3, <3>3
      <4>2. CASE jobs[j].status = "running"
        BY <3>3, <4>1, <4>2 DEF JobsInv, JobsOrdered
      <4>3. CASE jobs[j].status = "queued"
        BY <3>3, <4>1, <4>3 DEF JobsInv, JobsOrdered
      <4> QED BY <4>1, <4>2, <4>3 DEF Active
    <3> QED BY <3>1, <3>2, <3>3
  <2>4. \A i, k \in Job : jobs'[i].status = "queued" /\ jobs'[k].status = "queued" => i = k
    BY <1>2 DEF JobsInv, JobsOrdered
  <2> QED BY <1>3, <2>1, <2>2, <2>3, <2>4 DEF JobsOrdered
<1>8. ActiveFits'
  <2> SUFFICES ASSUME NEW i \in Job, Active(i)'
               PROVE  /\ jobs'[i].generation = "staging" /\ jobs'[i].attempts < MaxJobAttempts
                      /\ current' < i
    BY <1>3 DEF ActiveFits
  <2>1. jobs'[i].status \in {"running", "queued"}
    BY DEF Active
  <2>2. Active(i) /\ jobs'[i].generation = "staging" /\ jobs'[i].attempts < MaxJobAttempts
    <3>1. CASE i = j
      BY <1>2, <2>1, <3>1
    <3>2. CASE i # j
      BY <1>2, <2>1, <3>2 DEF Active, JobsInv, ActiveFits
    <3> QED BY <3>1, <3>2
  <2>3. CASE current' = current
    BY <2>2, <2>3 DEF JobsInv, ActiveFits
  <2>4. CASE current' = j /\ jobs[j].status = "running"
    <3>1. i # j
      BY <1>2, <2>1, <2>4
    <3>2. j <= i
      BY <2>2, <2>4 DEF JobsInv, JobsOrdered, Active
    <3>3. i \in Nat /\ j \in Nat
      BY <1>1
    <3>4. j < i
      BY <3>1, <3>2, <3>3
    <3> QED BY <2>2, <2>4, <3>4
  <2> QED BY <2>2, <2>3, <2>4
<1>9. JobsInv'
  BY <1>2, <1>3, <1>5, <1>6, <1>7, <1>8 DEF JobsInv
<1> QED BY <1>1, <1>2, <1>4, <1>9 DEF JobsGrow

\* The waiting jobs are superseded.
LEMMA SupersededIs ==
    ASSUME JobsInv
    PROVE  /\ Superseded \in Seq(JobRow) /\ Len(Superseded) = Len(jobs)
           /\ \A j \in Job : /\ Superseded[j] \in JobRow
                             /\ Superseded[j].src = jobs[j].src
                             /\ IF jobs[j].status = "queued" THEN Superseded[j].status = "failed"
                                ELSE Superseded[j] = jobs[j]
<1>1. Len(jobs) \in Nat /\ \A j \in Job : jobs[j] \in JobRow
  BY JobsAre
<1>2. \A row \in JobRow : /\ [row EXCEPT !.status = "failed", !.generation = "failed"] \in JobRow
                          /\ [row EXCEPT !.status = "failed", !.generation = "failed"].src = row.src
                          /\ [row EXCEPT !.status = "failed", !.generation = "failed"].status = "failed"
  BY DEF JobRow
<1>3. \A j \in Job : /\ Superseded[j] \in JobRow
                     /\ Superseded[j].src = jobs[j].src
                     /\ IF jobs[j].status = "queued" THEN Superseded[j].status = "failed"
                        ELSE Superseded[j] = jobs[j]
  BY <1>1, <1>2 DEF Superseded, Job
<1>4. Superseded \in [1..Len(jobs) -> JobRow]
  BY <1>3 DEF Superseded, Job
<1>5. Superseded \in Seq(JobRow) /\ Len(Superseded) = Len(jobs)
  <2>1. PICK s : s = Superseded
    OBVIOUS
  <2>2. s \in Seq(JobRow)
    BY <1>1, <1>4, <2>1, SeqDef
  <2>3. DOMAIN s = 1..Len(jobs) /\ DOMAIN s = 1..Len(s) /\ Len(s) \in Nat
    BY <1>4, <2>1, <2>2, LenProperties
  <2>4. Len(s) = Len(jobs)
    BY <1>1, <2>3
  <2> QED BY <2>1, <2>2, <2>4
<1> QED BY <1>3, <1>5

LEMMA SupersededJobs ==
    ASSUME JobsInv, UNCHANGED <<durable, current>>, jobs' = Superseded
    PROVE  JobsInv' /\ JobsGrow /\ Len(jobs') = Len(jobs)
<1>1. /\ Len(jobs) \in Nat /\ durable \in Nat /\ Job \subseteq Nat /\ \A i \in Job : jobs[i].src \in Nat
  BY JobsAre DEF JobsInv
<1>2. /\ jobs' \in Seq(JobRow) /\ Len(jobs') = Len(jobs)
      /\ \A j \in Job : /\ jobs'[j] \in JobRow /\ jobs'[j].src = jobs[j].src
                        /\ IF jobs[j].status = "queued" THEN jobs'[j].status = "failed"
                           ELSE jobs'[j] = jobs[j]
  BY SupersededIs
<1>3. Job' = Job /\ JobRow' = JobRow
  BY <1>2 DEF Job, JobRow
<1>4. CurrentIsPublished'
  <2>1. current # 0 => current \in Job
    BY <1>1 DEF JobsInv, Job
  <2> QED BY <1>2, <2>1 DEF JobsInv, CurrentIsPublished
<1>5. JobsOrdered'
  BY <1>2, <1>3 DEF JobsInv, JobsOrdered
<1>6. ActiveFits'
  BY <1>2, <1>3 DEF JobsInv, ActiveFits, Active
<1>7. JobsInv'
  BY <1>2, <1>3, <1>4, <1>5, <1>6 DEF JobsInv
<1> QED BY <1>1, <1>2, <1>7 DEF JobsGrow

\* A new job waits after them.
LEMMA AddedJob ==
    ASSUME JobsInv, BuildInv, build.pc = "create", NEW staged \in BOOLEAN,
           UNCHANGED <<durable, current>>, jobs' = Append(Superseded, NewJob(staged))
    PROVE  JobsInv' /\ JobsGrow /\ Len(jobs') = Len(jobs) + 1
           /\ \A j \in Job : jobs[j].status # "queued" => jobs'[j] = jobs[j]
<1>1. /\ Len(jobs) \in Nat /\ durable \in Nat /\ Job \subseteq Nat /\ \A i \in Job : jobs[i].src \in Nat
  BY JobsAre DEF JobsInv
<1>2. /\ Superseded \in Seq(JobRow) /\ Len(Superseded) = Len(jobs)
      /\ \A j \in Job : /\ Superseded[j] \in JobRow /\ Superseded[j].src = jobs[j].src
                        /\ IF jobs[j].status = "queued" THEN Superseded[j].status = "failed"
                           ELSE Superseded[j] = jobs[j]
  BY SupersededIs
<1>3. PICK new : new = NewJob(staged)
  OBVIOUS
<1>4. /\ build.src \in 1..durable /\ \A j \in Job : jobs[j].src <= build.src
      /\ build.src \in 1..MaxState
  BY Numbers DEF BuildInv, JobsInv
<1>5. /\ new \in JobRow /\ new.src = build.src /\ new.status = "queued"
      /\ new.generation = "staging" /\ new.attempts = 0
  <2>1. 0 \in 0..MaxJobAttempts /\ Batches \in 0..Batches
    BY Numbers
  <2> QED BY <1>3, <1>4, <2>1 DEF NewJob, JobRow
<1>6. PICK n \in Nat : n = Len(jobs) + 1 /\ \A j \in Job : j < n
  BY <1>1 DEF Job
<1>7. /\ jobs' \in Seq(JobRow) /\ Len(jobs') = n /\ jobs'[n] = new
      /\ \A j \in Job : jobs'[j] = Superseded[j]
  BY <1>1, <1>2, <1>3, <1>5, <1>6, AppendProperties DEF Job
<1>8. /\ \A j \in Job' : j \in Job \/ j = n
      /\ Job \subseteq Job' /\ n \in Job'
  BY <1>1, <1>6, <1>7 DEF Job
<1>9. JobRow' = JobRow
  BY DEF JobRow
<1>10. /\ current \in 0..Len(jobs') /\ current < n
       /\ current # 0 => current \in Job
  BY <1>1, <1>6, <1>7 DEF JobsInv, Job
<1>11. CurrentIsPublished'
  BY <1>2, <1>7, <1>10 DEF JobsInv, CurrentIsPublished
<1>12. JobsOrdered'
  <2>1. ASSUME NEW i \in Job', NEW j \in Job', i <= j PROVE jobs'[i].src <= jobs'[j].src
    <3>1. CASE i \in Job /\ j \in Job
      BY <1>2, <1>7, <2>1, <3>1 DEF JobsInv, JobsOrdered
    <3>2. CASE i = n /\ j = n
      BY <1>4, <1>5, <1>7, <3>2
    <3>3. CASE i \in Job /\ j = n
      BY <1>2, <1>4, <1>5, <1>7, <3>3
    <3>4. CASE i = n /\ j \in Job
      BY <1>1, <1>6, <2>1, <3>4
    <3> QED BY <1>8, <3>1, <3>2, <3>3, <3>4
  <2>2. ASSUME NEW j \in Job' PROVE jobs'[j].src <= durable'
    <3>1. CASE j \in Job
      BY <1>2, <1>7, <3>1 DEF JobsInv, JobsOrdered
    <3>2. CASE j = n
      BY <1>1, <1>4, <1>5, <1>7, <3>2
    <3> QED BY <1>8, <3>1, <3>2
  <2>3. ASSUME NEW i \in Job', NEW j \in Job',
               jobs'[i].status = "running", jobs'[j].status \in {"running", "queued"}
        PROVE  i <= j
    <3>1. i \in Job /\ jobs[i].status = "running" /\ i \in Nat
      BY <1>1, <1>2, <1>5, <1>7, <1>8, <2>3
    <3>2. CASE j \in Job
      <4>1. jobs[j].status = "running"
        BY <1>2, <1>7, <2>3, <3>2
      <4> QED BY <3>1, <3>2, <4>1 DEF JobsInv, JobsOrdered
    <3>3. CASE j = n
      BY <1>6, <3>1, <3>3
    <3> QED BY <1>8, <3>2, <3>3
  <2>4. \A i, j \in Job' : jobs'[i].status = "queued" /\ jobs'[j].status = "queued" => i = j
    <3>1. \A i \in Job : jobs'[i].status # "queued"
      BY <1>2, <1>7
    <3> QED BY <1>8, <3>1
  <2> QED BY <2>1, <2>2, <2>3, <2>4 DEF JobsOrdered
<1>13. ActiveFits'
  <2> SUFFICES ASSUME NEW j \in Job', Active(j)'
               PROVE  /\ jobs'[j].generation = "staging" /\ jobs'[j].attempts < MaxJobAttempts
                      /\ current' < j
    BY DEF ActiveFits
  <2>1. CASE j \in Job
    <3>1. jobs'[j] = jobs[j] /\ Active(j)
      BY <1>2, <1>7, <2>1 DEF Active
    <3> QED BY <2>1, <3>1 DEF JobsInv, ActiveFits
  <2>2. CASE j = n
    BY <1>5, <1>7, <1>10, <2>2, Numbers
  <2> QED BY <1>8, <2>1, <2>2
<1>14. JobsInv'
  BY <1>7, <1>9, <1>10, <1>11, <1>12, <1>13 DEF JobsInv
<1>15. JobsGrow
  <2>1. Len(jobs) <= Len(jobs') /\ durable <= durable'
    BY <1>1, <1>6, <1>7
  <2>2. \A j \in Job : jobs'[j].src = jobs[j].src
    BY <1>2, <1>7
  <2> QED BY <1>14, <2>1, <2>2 DEF JobsGrow
<1> QED BY <1>2, <1>6, <1>7, <1>14, <1>15

\* The published source does not change with other jobs.
LEMMA PublishedKept ==
    ASSUME JobsInv, VaultInv, UNCHANGED <<vault, sync, current>>,
           current # 0 => jobs'[current] = jobs[current]
    PROVE  VaultInv'
<1>1. PublishedSource' = PublishedSource
  BY DEF PublishedSource
<1> QED BY <1>1 DEF VaultInv, NotStaleMeansCurrent, SyncRow

LEMMA CurrentJob ==
    ASSUME JobsInv, current # 0
    PROVE  current \in Job /\ jobs[current].status = "completed" /\ jobs[current].generation = "published"
<1>1. Len(jobs) \in Nat
  BY JobsAre
<1> QED BY <1>1 DEF JobsInv, CurrentIsPublished, Job

LEMMA CreateJobInv == IInv /\ CreateJob => IInv'
<1> SUFFICES ASSUME IInv, CreateJob PROVE IInv'
  OBVIOUS
<1>1. /\ UNCHANGED <<durable, tail, alarm, retry, vault, sync, current, faults, crashes, revokes>>
      /\ build.pc = "create"
  BY DEF CreateJob, wakeup, budget
<1>2. RestInv'
  BY <1>1, RestSame DEF IInv
<1>3. run.pc = "work" => run.job \in Job /\ jobs[run.job].status = "running"
  BY DEF IInv, RunInv
<1>4. current # 0 => current \in Job /\ jobs[current].status = "completed"
  BY CurrentJob DEF IInv
<1>5. CASE vault = "active"
  <2>1. /\ jobs' = Append(Superseded, NewJob(TRUE))
        /\ build' = [build EXCEPT !.pc = "wake", !.job = Len(jobs')]
        /\ UNCHANGED <<call, run>>
    BY <1>5 DEF CreateJob
  <2>2. /\ JobsInv' /\ JobsGrow /\ Len(jobs') = Len(jobs) + 1
        /\ \A j \in Job : jobs[j].status # "queued" => jobs'[j] = jobs[j]
    BY <1>1, <2>1, AddedJob DEF IInv
  <2>3. RunInv'
    BY <1>3, <2>1, <2>2, RunSame DEF IInv
  <2>4. VaultInv'
    BY <1>1, <1>4, <2>2, PublishedKept DEF IInv
  <2>5. BuildInv'
    <3>1. Len(jobs) \in Nat
      BY JobsAre DEF IInv
    <3>2. Len(jobs') \in 0..Len(jobs') /\ Len(jobs') \in Job'
      BY <2>2, <3>1 DEF Job
    <3>3. build.src \in 1..durable /\ \A j \in Job : jobs[j].src <= build.src
      BY <1>1 DEF IInv, BuildInv
    <3>4. build' \in [pc : {"idle", "capture", "current", "active", "create", "wake"},
                      by : Handler \cup {Alarm}, src : 0..MaxState, job : 0..Len(jobs')]
          /\ build'.src = build.src /\ build'.job = Len(jobs')
      BY <2>1, <3>2, BuildIs DEF IInv, BuildInv
    <3>5. \A j \in Job' : jobs'[j].src <= build.src
      <4>1. \A j \in Job' : j \in Job \/ j = Len(jobs')
        BY <2>2, <3>1 DEF Job
      <4>2. jobs'[Len(jobs')].src = build.src
        BY <2>1, <2>2, SupersededIs, AppendProperties DEF NewJob, IInv
      <4>3. build.src \in Nat
        BY <3>3
      <4> QED BY <2>2, <3>3, <4>1, <4>2, <4>3 DEF JobsGrow
    <3> QED BY <1>1, <3>2, <3>3, <3>4, <3>5 DEF BuildInv
  <2>6. CallsInv'
    BY <2>1, CallsSame DEF IInv
  <2> QED BY <1>2, <2>2, <2>3, <2>4, <2>5, <2>6 DEF IInv
<1>6. CASE vault # "active"
  <2>1. jobs' = Superseded /\ BuildAnswers("unavailable", 0) /\ 0 \in 0..MaxState
    BY <1>6, Numbers DEF CreateJob
  <2>2. JobsInv' /\ JobsGrow
    BY <1>1, <2>1, SupersededJobs DEF IInv
  <2>3. \A j \in Job : jobs[j].status # "queued" => jobs'[j] = jobs[j]
    BY <2>1, SupersededIs DEF IInv
  <2>4. VaultInv'
    BY <1>1, <1>4, <2>3, PublishedKept DEF IInv
  <2>5. CallsInv' /\ BuildInv' /\ RunInv'
    BY <1>3, <2>1, <2>2, <2>3, AnswersFit DEF IInv
  <2> QED BY <1>2, <2>2, <2>4, <2>5 DEF IInv
<1> QED BY <1>5, <1>6

LEMMA CreateJobFailedInv ==
    ASSUME IInv, NEW committed \in BOOLEAN, CreateJobFailed(committed) PROVE IInv'
<1>1. /\ UNCHANGED <<durable, tail, alarm, retry, vault, sync, current>>
      /\ build.pc = "create" /\ Fault("create")
      /\ BuildAnswers("unavailable", 0)
      /\ IF committed THEN jobs' = Append(Superseded, NewJob(FALSE)) ELSE UNCHANGED jobs
  BY DEF CreateJobFailed, wakeup
<1> 0 \in 0..MaxState
  BY Numbers
<1>2. RestInv'
  BY <1>1, FaultCounts DEF IInv, RestInv
<1>3. CASE ~committed
  BY <1>1, <1>2, <1>3, AnswersInv
<1>4. CASE committed
  <2>1. /\ JobsInv' /\ JobsGrow
        /\ \A j \in Job : jobs[j].status # "queued" => jobs'[j] = jobs[j]
    BY <1>1, <1>4, AddedJob DEF IInv
  <2>2. VaultInv'
    BY <1>1, <2>1, CurrentJob, PublishedKept DEF IInv
  <2>3. run.pc = "work" => jobs'[run.job].status = jobs[run.job].status
    BY <2>1 DEF IInv, RunInv
  <2>4. CallsInv' /\ BuildInv' /\ RunInv'
    BY <1>1, <2>1, <2>3, AnswersFit DEF IInv
  <2> QED BY <1>2, <2>1, <2>2, <2>4 DEF IInv
<1> QED BY <1>3, <1>4

-----------------------------------------------------------------------------
(* The alarm *)

\* A step of the alarm on neither the jobs nor the requests.
LEMMA RunInvStep ==
    ASSUME IInv, UNCHANGED <<durable, current, jobs, call, build>>, VaultInv', RunInv', RestInv'
    PROVE  IInv'
<1>1. JobsInv' /\ JobsGrow
  BY JobsSame, SameGrow DEF IInv
<1>2. CallsInv' /\ BuildInv'
  BY <1>1, CallsSame, BuildSame DEF IInv
<1> QED BY <1>1, <1>2 DEF IInv

LEMMA RunIs ==
    ASSUME IInv
    PROVE  /\ run.job \in 0..Len(jobs) /\ run.hash \in 0..MaxState
           /\ run.pc \in {"work", "fail"} => run.job \in Job
           /\ run.pc = "work" => /\ jobs[run.job].status = "running" /\ Active(run.job)
                                 /\ jobs[run.job].generation = "staging"
                                 /\ jobs[run.job].attempts < MaxJobAttempts
                                 /\ current < run.job
<1>1. /\ run.job \in 0..Len(jobs) /\ run.hash \in 0..MaxState
      /\ run.pc \in {"work", "fail"} => run.job \in Job
      /\ run.pc = "work" => jobs[run.job].status = "running"
  BY DEF IInv, RunInv
<1>2. run.pc = "work" => Active(run.job)
  BY <1>1 DEF Active
<1> QED BY <1>1, <1>2 DEF IInv, JobsInv, ActiveFits

\* Where the alarm may be next, the jobs left alone.
LEMMA RunAtFits ==
    ASSUME IInv, UNCHANGED jobs,
           NEW pc \in {"idle", "claim", "more", "state", "waiting", "ready", "completed", "queued",
                       "retry", "unavailable", "unsafe"},
           NEW hash \in 0..MaxState,
           \/ run' = [run EXCEPT !.pc = pc]
           \/ run' = [run EXCEPT !.pc = pc, !.hash = hash]
           \/ run' = NoRun
           \/ run' = [NoRun EXCEPT !.pc = pc]
    PROVE  RunInv'
<1>1. run.job \in 0..Len(jobs) /\ run.hash \in 0..MaxState /\ 0 \in 0..Len(jobs) /\ 0 \in 0..MaxState
  <2>1. Len(jobs) \in Nat
    BY JobsAre DEF IInv
  <2> QED BY <2>1, RunIs, Numbers
<1> DEFINE Runs == [pc : {"idle", "claim", "work", "fail", "more", "state", "waiting",
                          "ready", "completed", "queued", "retry", "unavailable", "unsafe"},
                    job : 0..Len(jobs), hash : 0..MaxState]
<1>2. run \in Runs /\ NoRun = [pc |-> "idle", job |-> 0, hash |-> 0]
  BY DEF IInv, RunInv, NoRun
<1>3. run' \in Runs /\ run'.pc \notin {"work", "fail"}
  <2>1. CASE run' = [run EXCEPT !.pc = pc]
    BY <1>1, <1>2, <2>1
  <2>2. CASE run' = [run EXCEPT !.pc = pc, !.hash = hash]
    BY <1>1, <1>2, <2>2
  <2>3. CASE run' = NoRun
    BY <1>1, <1>2, <2>3
  <2>4. CASE run' = [NoRun EXCEPT !.pc = pc]
    <3>1. run' = [pc |-> pc, job |-> 0, hash |-> 0]
      BY <1>2, <2>4
    <3> QED BY <1>1, <3>1
  <2> QED BY <2>1, <2>2, <2>3, <2>4
<1> QED BY <1>3, RunMoves DEF IInv

\* The alarm works on; another alarm is set, or none.
LEMMA AlarmInv ==
    ASSUME IInv, UNCHANGED <<durable, call, build, vault, sync, current, jobs>>,
           NEW pc \in {"idle", "claim", "more", "state", "waiting", "ready", "completed", "queued",
                       "retry", "unavailable", "unsafe"},
           NEW hash \in 0..MaxState,
           \/ run' = [run EXCEPT !.pc = pc]
           \/ run' = [run EXCEPT !.pc = pc, !.hash = hash]
           \/ run' = NoRun
           \/ run' = [NoRun EXCEPT !.pc = pc],
           RestInv'
    PROVE  IInv'
<1>1. RunInv'
  BY RunAtFits
<1> QED BY <1>1, RunInvStep, VaultSame DEF IInv

LEMMA AlarmFiresInv == IInv /\ AlarmFires => IInv'
<1> SUFFICES ASSUME IInv, AlarmFires PROVE IInv'
  OBVIOUS
<1>1. /\ UNCHANGED <<durable, call, tail, build, retry, vault, sync, current, jobs, faults, crashes, revokes>>
      /\ alarm' = FALSE /\ run' = [run EXCEPT !.pc = "claim"]
  BY DEF AlarmFires, RunAt, tables, budget
<1>2. RestInv'
  BY <1>1 DEF IInv, RestInv
<1> QED BY <1>1, <1>2, RunIs, AlarmInv

LEMMA MoreJobsInv == IInv /\ MoreJobs => IInv'
<1> SUFFICES ASSUME IInv, MoreJobs PROVE IInv'
  OBVIOUS
<1>1. /\ UNCHANGED <<durable, call, tail, build, retry, vault, sync, current, jobs, faults, crashes, revokes>>
      /\ run' = NoRun \/ run' = [NoRun EXCEPT !.pc = "state"]
      /\ alarm' = TRUE \/ alarm' = alarm
  BY DEF MoreJobs, tables, budget
<1>2. RestInv'
  BY <1>1 DEF IInv, RestInv
<1> QED BY <1>1, <1>2, RunIs, AlarmInv

LEMMA ReadStateInv == IInv /\ ReadState => IInv'
<1> SUFFICES ASSUME IInv, ReadState PROVE IInv'
  OBVIOUS
<1>1. UNCHANGED <<durable, call, build, alarm, vault, sync, current, jobs, faults, crashes, revokes>>
  BY DEF ReadState, tables, budget
<1>2. sync.hash \in 0..MaxState /\ sync.error \in {"none", "unavailable", "unsafe"}
  BY SyncIs DEF IInv
<1>3. \/ run' = NoRun
      \/ run' = [run EXCEPT !.pc = "ready", !.hash = sync.hash]
      \/ run' = [run EXCEPT !.pc = "retry"]
      \/ run' = [run EXCEPT !.pc = "waiting"]
  BY <1>2 DEF ReadState, RunAt
<1>4. (retry' = 0 \/ retry' = retry) /\ (tail' = tail \/ tail' = Append(tail, Alarm))
  BY <1>2 DEF ReadState
<1>5. RestInv'
  <2>1. retry' \in 0..RetryLimit - 1
    BY <1>4, Numbers DEF IInv, RestInv
  <2>2. tail' \in Seq(Handler \cup {Alarm})
    BY <1>4 DEF IInv, RestInv
  <2> QED BY <1>1, <2>1, <2>2 DEF IInv, RestInv
<1> QED BY <1>1, <1>2, <1>3, <1>5, AlarmInv

LEMMA BuildQueuedInv == IInv /\ BuildQueued => IInv'
<1> SUFFICES ASSUME IInv, BuildQueued PROVE IInv'
  OBVIOUS
<1>1. /\ UNCHANGED <<durable, call, tail, build, alarm, retry, vault, sync, current, jobs>>
      /\ UNCHANGED <<faults, crashes, revokes>> /\ run' = NoRun
  BY DEF BuildQueued, wakeup, tables, budget
<1>2. RestInv'
  BY <1>1, RestSame DEF IInv
<1> QED BY <1>1, <1>2, RunIs, AlarmInv

LEMMA AlarmFailedInv == IInv /\ AlarmFailed => IInv'
<1> SUFFICES ASSUME IInv, AlarmFailed PROVE IInv'
  OBVIOUS
<1>1. /\ UNCHANGED <<durable, call, tail, build, retry, vault, sync, current, jobs>>
      /\ Fault("alarm") /\ run' = NoRun /\ alarm' = TRUE
  BY DEF AlarmFailed, tables
<1>2. RestInv'
  BY <1>1, FaultCounts DEF IInv, RestInv
<1> QED BY <1>1, <1>2, RunIs, AlarmInv

\* The alarm ends and writes the vault's row.
LEMMA RowWritten ==
    ASSUME IInv, UNCHANGED <<durable, call, build, current, jobs, vault>>, run' = NoRun,
           sync' \in SyncRow, RestInv',
           sync'.stale \/ PublishedSource = sync'.hash
           \/ (sync'.stale = sync.stale /\ sync'.hash = sync.hash)
    PROVE  IInv'
<1>1. RunInv'
  BY RunIs, RunAtFits
<1>2. VaultInv'
  BY SyncIs, SyncMoves DEF IInv
<1> QED BY <1>1, <1>2, RunInvStep

LEMMA MarkReadyInv == IInv /\ MarkReady => IInv'
<1> SUFFICES ASSUME IInv, MarkReady PROVE IInv'
  OBVIOUS
<1>1. /\ UNCHANGED <<durable, call, tail, build, alarm, vault, current, jobs, faults, crashes, revokes>>
      /\ retry' = 0 /\ run' = NoRun
      /\ sync' = IF ReadyFor(run.hash)
                 THEN [sync EXCEPT !.stale = FALSE, !.error = "none"]
                 ELSE sync
  BY DEF MarkReady, budget
<1>2. RestInv'
  <2>1. 0 \in 0..RetryLimit - 1
    BY Numbers
  <2> QED BY <1>1, <2>1 DEF IInv, RestInv
<1>3. /\ sync' \in SyncRow
      /\ PublishedSource = sync'.hash \/ (sync'.stale = sync.stale /\ sync'.hash = sync.hash)
  <2>1. sync \in SyncRow
    BY SyncIs DEF IInv
  <2>2. CASE ReadyFor(run.hash)
    BY <1>1, <2>1, <2>2 DEF ReadyFor, SyncRow
  <2>3. CASE ~ReadyFor(run.hash)
    BY <1>1, <2>1, <2>3
  <2> QED BY <2>2, <2>3
<1> QED BY <1>1, <1>2, <1>3, RowWritten

\* Another attempt is left.
LEMMA RetryFits ==
    ASSUME RestInv, ~LastAttempt PROVE retry + 1 \in 0..RetryLimit - 1
<1>1. retry \in 0..RetryLimit - 1 /\ ~(retry + 1 >= RetryLimit)
  BY DEF RestInv, LastAttempt
<1>2. RetryLimit \in Nat
  BY Numbers
<1> QED BY <1>1, <1>2

LEMMA RetryAfterErrorInv == IInv /\ RetryAfterError => IInv'
<1> SUFFICES ASSUME IInv, RetryAfterError PROVE IInv'
  OBVIOUS
<1>1. /\ UNCHANGED <<durable, call, tail, build, vault, current, jobs, faults, crashes, revokes>>
      /\ run' = NoRun
      /\ IF LastAttempt
         THEN retry' = 0 /\ UNCHANGED <<alarm, sync>>
         ELSE /\ retry' = retry + 1
              /\ sync' = [sync EXCEPT !.error = IF @ = "unavailable" THEN "none" ELSE @]
              /\ alarm' = TRUE
  BY DEF RetryAfterError, budget
<1>2. RestInv'
  <2>1. retry' \in 0..RetryLimit - 1
    <3>1. 0 \in 0..RetryLimit - 1
      BY Numbers
    <3> QED BY <1>1, <3>1, RetryFits DEF IInv
  <2>2. alarm' \in BOOLEAN
    BY <1>1 DEF IInv, RestInv
  <2> QED BY <1>1, <2>1, <2>2 DEF IInv, RestInv
<1>3. sync' \in SyncRow /\ sync'.stale = sync.stale /\ sync'.hash = sync.hash
  <2>1. sync \in SyncRow
    BY SyncIs DEF IInv
  <2>2. CASE LastAttempt
    BY <1>1, <2>1, <2>2
  <2>3. CASE ~LastAttempt
    <3>1. PICK error \in {"none", "unavailable", "unsafe"} :
             error = IF sync.error = "unavailable" THEN "none" ELSE sync.error
      BY SyncIs DEF IInv
    <3>2. sync' = [sync EXCEPT !.error = error]
      BY <1>1, <2>3, <3>1
    <3> QED BY <2>1, <3>2 DEF SyncRow
  <2> QED BY <2>2, <2>3
<1> QED BY <1>1, <1>2, <1>3, RowWritten

LEMMA RetryBuildInv == IInv /\ RetryBuild => IInv'
<1> SUFFICES ASSUME IInv, RetryBuild PROVE IInv'
  OBVIOUS
<1>1. /\ UNCHANGED <<durable, call, tail, build, vault, current, jobs, faults, crashes, revokes>>
      /\ run' = NoRun
      /\ IF LastAttempt
         THEN /\ retry' = 0
              /\ sync' = [sync EXCEPT !.stale = TRUE, !.error = "unavailable"]
              /\ UNCHANGED alarm
         ELSE retry' = retry + 1 /\ alarm' = TRUE /\ UNCHANGED sync
  BY DEF RetryBuild, budget
<1>2. RestInv'
  <2>1. retry' \in 0..RetryLimit - 1
    <3>1. 0 \in 0..RetryLimit - 1
      BY Numbers
    <3> QED BY <1>1, <3>1, RetryFits DEF IInv
  <2>2. alarm' \in BOOLEAN
    BY <1>1 DEF IInv, RestInv
  <2> QED BY <1>1, <2>1, <2>2 DEF IInv, RestInv
<1>3. sync' \in SyncRow /\ (sync'.stale \/ (sync'.stale = sync.stale /\ sync'.hash = sync.hash))
  <2>1. sync \in SyncRow
    BY SyncIs DEF IInv
  <2>2. CASE LastAttempt
    BY <1>1, <2>1, <2>2 DEF SyncRow
  <2>3. CASE ~LastAttempt
    BY <1>1, <2>1, <2>3
  <2> QED BY <2>2, <2>3
<1> QED BY <1>1, <1>2, <1>3, RowWritten

LEMMA RecordUnsafeInv == IInv /\ RecordUnsafe => IInv'
<1> SUFFICES ASSUME IInv, RecordUnsafe PROVE IInv'
  OBVIOUS
<1>1. /\ UNCHANGED <<durable, call, tail, build, alarm, retry, vault, current, jobs, faults, crashes, revokes>>
      /\ run' = NoRun /\ sync' = [sync EXCEPT !.stale = TRUE, !.error = "unsafe"]
  BY DEF RecordUnsafe, wakeup, budget
<1>2. RestInv'
  BY <1>1, RestSame DEF IInv
<1>3. sync' \in SyncRow /\ sync'.stale
  BY <1>1, SyncIs DEF IInv, SyncRow
<1> QED BY <1>1, <1>2, <1>3, RowWritten

-----------------------------------------------------------------------------
(* The jobs the alarm works on *)

\* No step takes readers back to an older state.
Forward == current # 0 => current' # 0 /\ jobs'[current'].src >= jobs[current].src

LEMMA StillForward == ASSUME JobsGrow, UNCHANGED current PROVE Forward
<1> SUFFICES ASSUME current # 0 PROVE current' # 0 /\ jobs'[current'].src >= jobs[current].src
  BY DEF Forward
<1>1. current \in Job /\ jobs[current].src \in Nat
  BY CurrentJob, JobsAre DEF JobsGrow
<1> QED BY <1>1 DEF JobsGrow

\* The job that was running is younger than the one it replaces.
LEMMA MovedForward ==
    ASSUME JobsGrow, NEW j \in Job, Active(j), current' = j PROVE Forward
<1> SUFFICES ASSUME current # 0 PROVE current' # 0 /\ jobs'[current'].src >= jobs[current].src
  BY DEF Forward
<1>1. current \in Job /\ jobs[current].src \in Nat /\ jobs[j].src \in Nat /\ j \in Nat /\ j # 0
  BY CurrentJob, JobsAre DEF JobsGrow, Job
<1>2. current \in Nat /\ current < j
  BY <1>1, JobsAre DEF JobsGrow, JobsInv, ActiveFits
<1>3. jobs[current].src <= jobs[j].src
  BY <1>1, <1>2 DEF JobsGrow, JobsInv, JobsOrdered
<1> QED BY <1>1, <1>3 DEF JobsGrow

LEMMA JobInvStep ==
    ASSUME IInv, UNCHANGED <<durable, call, build>>, JobsInv', JobsGrow, Len(jobs') = Len(jobs),
           VaultInv', RunInv', RestInv'
    PROVE  IInv'
<1>1. CallsInv' /\ BuildInv'
  BY CallsSame, BuildSame DEF IInv
<1> QED BY <1>1 DEF IInv

\* Where the alarm may be next, the jobs as many as they were.
LEMMA RunAfter ==
    ASSUME IInv, Len(jobs') = Len(jobs), NEW pc \in {"work", "fail", "more"}, NEW j \in Job,
           run' = NoRun \/ run' = [run EXCEPT !.pc = pc, !.job = j],
           pc = "work" => jobs'[j].status = "running"
    PROVE  RunInv'
<1>1. Len(jobs) \in Nat /\ 0 \in 0..MaxState /\ run.hash \in 0..MaxState
  BY JobsAre, Numbers, RunIs DEF IInv
<1>2. j \in 0..Len(jobs) /\ 0 \in 0..Len(jobs) /\ Job' = Job
  BY <1>1 DEF Job
<1> DEFINE Runs == [pc : {"idle", "claim", "work", "fail", "more", "state", "waiting",
                          "ready", "completed", "queued", "retry", "unavailable", "unsafe"},
                    job : 0..Len(jobs), hash : 0..MaxState]
<1>3. run \in Runs
  BY DEF IInv, RunInv
<1>4. CASE run' = NoRun
  <2>1. run' \in Runs /\ run'.pc = "idle"
    BY <1>1, <1>2, <1>4 DEF NoRun
  <2> QED BY <1>2, <2>1 DEF RunInv
<1>5. CASE run' = [run EXCEPT !.pc = pc, !.job = j]
  <2>1. run' \in Runs /\ run'.pc = pc /\ run'.job = j
    BY <1>2, <1>3, <1>5
  <2> QED BY <1>2, <2>1 DEF RunInv
<1> QED BY <1>4, <1>5

\* A failed job leaves the library stale, so whatever was published may be old.
LEMMA StaleFits == ASSUME vault' \in {"active", "revoked"}, sync' \in SyncRow, sync'.stale PROVE VaultInv'
  BY DEF VaultInv, NotStaleMeansCurrent, SyncRow

\* The job claimed is the running one, or the one waiting when none runs.
LEMMA NextJobIs ==
    ASSUME JobsInv, ActiveJobs # {}
    PROVE  /\ NextJob(ActiveJobs) \in ActiveJobs
           /\ jobs[NextJob(ActiveJobs)].status = "queued" =>
                 \A i \in Job : jobs[i].status # "running"
<1>1. ActiveJobs = {j \in Job : jobs[j].status \in {"queued", "running"}} /\ Job \subseteq Nat
  BY JobsAre DEF ActiveJobs, Active, Job
<1> DEFINE First(j) == \A i \in ActiveJobs :
                          \/ jobs[j].status = "running" /\ jobs[i].status = "queued"
                          \/ jobs[j].status = jobs[i].status /\ j <= i
<1>2. \E j \in ActiveJobs : First(j)
  <2>1. CASE \E j \in Job : jobs[j].status = "running"
    <3>1. PICK j \in Job : jobs[j].status = "running"
      BY <2>1
    <3>2. \A i \in Job : jobs[i].status \in {"running", "queued"} => j <= i
      BY <3>1 DEF JobsInv, JobsOrdered
    <3>3. j \in ActiveJobs /\ First(j)
      BY <1>1, <3>1, <3>2
    <3> QED BY <3>3
  <2>2. CASE \A j \in Job : jobs[j].status # "running"
    <3>1. PICK j \in ActiveJobs : jobs[j].status = "queued"
      BY <1>1, <2>2
    <3>2. \A i \in ActiveJobs : jobs[i].status = "queued" /\ i = j /\ i \in Nat
      BY <1>1, <2>2, <3>1 DEF JobsInv, JobsOrdered
    <3>3. First(j)
      BY <3>1, <3>2
    <3> QED BY <3>3
  <2> QED BY <2>1, <2>2
<1>3. NextJob(ActiveJobs) = CHOOSE j \in ActiveJobs : First(j)
  BY DEF NextJob
<1>4. NextJob(ActiveJobs) \in ActiveJobs /\ First(NextJob(ActiveJobs))
  BY <1>2, <1>3
<1>5. jobs[NextJob(ActiveJobs)].status = "queued" => \A i \in Job : jobs[i].status # "running"
  BY <1>1, <1>4
<1> QED BY <1>4, <1>5

LEMMA ClaimJobInv == IInv /\ ClaimJob => IInv' /\ Forward
<1> SUFFICES ASSUME IInv, ClaimJob PROVE IInv' /\ Forward
  OBVIOUS
<1>1. UNCHANGED <<durable, call, tail, build, alarm, retry, vault, sync, current, faults, crashes, revokes>>
  BY DEF ClaimJob, wakeup, budget
<1>2. RestInv'
  BY <1>1, RestSame DEF IInv
<1>3. CASE ActiveJobs = {}
  <2>1. UNCHANGED jobs /\ run' = [run EXCEPT !.pc = "state"]
    BY <1>3 DEF ClaimJob, RunAt
  <2>2. JobsGrow
    BY <1>1, <2>1, SameGrow DEF IInv
  <2> QED BY <1>1, <1>2, <2>1, <2>2, RunIs, AlarmInv, StillForward
<1>4. CASE ActiveJobs # {}
  <2>1. PICK j : j = NextJob(ActiveJobs)
    OBVIOUS
  <2>2. /\ jobs' = [jobs EXCEPT ![j].status = "running"]
        /\ run' = [run EXCEPT !.pc = "work", !.job = j]
    BY <1>4, <2>1 DEF ClaimJob
  <2>3. /\ j \in Job /\ Active(j) /\ jobs[j] \in JobRow
        /\ jobs[j].status = "queued" => \A i \in Job : jobs[i].status # "running"
        /\ jobs[j].generation = "staging" /\ jobs[j].attempts < MaxJobAttempts
        /\ current < j /\ j \in Nat
    <3>1. j \in ActiveJobs /\ (jobs[j].status = "queued" => \A i \in Job : jobs[i].status # "running")
      BY <1>4, <2>1, NextJobIs DEF IInv
    <3>2. j \in Job /\ Active(j)
      BY <3>1 DEF ActiveJobs, Job
    <3> QED BY <3>1, <3>2, JobsAre DEF IInv, JobsInv, ActiveFits
  <2>4. PICK row : row = [jobs[j] EXCEPT !.status = "running"]
    OBVIOUS
  <2>5. /\ row \in JobRow /\ row.src = jobs[j].src /\ row.status = "running"
        /\ row.generation = "staging" /\ row.attempts < MaxJobAttempts
    BY <2>3, <2>4 DEF JobRow
  <2>6. jobs' = [jobs EXCEPT ![j] = row] /\ current' # j
    BY <1>1, <2>2, <2>3, <2>4, JobsAre DEF IInv, JobsInv
  <2>7. JobsInv' /\ JobsGrow /\ Len(jobs') = Len(jobs)
    BY <1>1, <2>3, <2>5, <2>6, JobWritten DEF IInv
  <2>8. jobs'[j].status = "running"
    BY <2>3, <2>5, <2>6, JobsAre DEF IInv
  <2>9. RunInv'
    BY <2>2, <2>3, <2>7, <2>8, RunAfter
  <2>10. VaultInv'
    <3>1. current # 0 => jobs'[current] = jobs[current]
      BY <1>1, <2>6, CurrentJob, JobsAre DEF IInv
    <3> QED BY <1>1, <3>1, PublishedKept DEF IInv
  <2> QED BY <1>1, <1>2, <2>7, <2>9, <2>10, JobInvStep, StillForward
<1> QED BY <1>3, <1>4

\* A job is failed: it counts an attempt before, or none.
LEMMA JobFails ==
    ASSUME IInv, NEW j \in Job, NEW r \in JobRow, NEW table, NEW code \in {"unavailable", "unsafe"},
           table = [jobs EXCEPT ![j] = r],
           r.src = jobs[j].src, r.generation = jobs[j].generation, r.status = jobs[j].status,
           r.left = jobs[j].left,
           FailJob(table, j, code), UNCHANGED <<durable, current, vault>>
    PROVE  JobsInv' /\ JobsGrow /\ Len(jobs') = Len(jobs) /\ VaultInv' /\ Forward
<1>1. /\ Len(jobs) \in Nat /\ DOMAIN jobs = Job /\ jobs \in Seq(JobRow) /\ jobs[j] \in JobRow
      /\ Job \subseteq Nat \ {0}
  BY JobsAre DEF IInv, JobsInv, Job
<1>2. /\ jobs' = [table EXCEPT ![j].generation = IF @ = "staging" THEN "failed" ELSE @,
                               ![j].status = IF @ \in {"queued", "running"} THEN "failed" ELSE @]
      /\ sync' = [sync EXCEPT !.stale = TRUE, !.error = code]
  BY DEF FailJob
<1>3. PICK generation : generation = IF r.generation = "staging" THEN "failed" ELSE r.generation
  OBVIOUS
<1>4. PICK status : status = IF r.status \in {"queued", "running"} THEN "failed" ELSE r.status
  OBVIOUS
<1>5. generation \in {"published", "failed"} /\ status \in {"completed", "failed"}
  BY <1>3, <1>4 DEF JobRow
<1>6. PICK row : row = [r EXCEPT !.generation = generation, !.status = status]
  OBVIOUS
<1>7. /\ row \in JobRow /\ row.src = jobs[j].src /\ row.left = jobs[j].left
      /\ row.generation = generation /\ row.status = status
  BY <1>5, <1>6 DEF JobRow
<1>8. jobs' = [jobs EXCEPT ![j] = row]
  <2>1. table[j] = r /\ DOMAIN table = Job /\ j \in DOMAIN table
    BY <1>1
  <2>2. jobs' = [table EXCEPT ![j] = row]
    BY <1>2, <1>3, <1>4, <1>6, <2>1
  <2> QED BY <2>2
<1>9. current' = j => row.generation = "published" /\ row.status = "completed" /\ row.left = 0
  <2>1. current' = j => current = j /\ current # 0
    BY <1>1
  <2>2. current = j /\ current # 0 =>
           jobs[j].generation = "published" /\ jobs[j].status = "completed" /\ jobs[j].left = 0
    BY DEF IInv, JobsInv, CurrentIsPublished
  <2> QED BY <1>3, <1>4, <1>7, <2>1, <2>2
<1>10. JobsInv' /\ JobsGrow /\ Len(jobs') = Len(jobs)
  BY <1>5, <1>7, <1>8, <1>9, JobWritten DEF IInv
<1>11. VaultInv'
  <2>1. sync' \in SyncRow /\ sync'.stale
    BY <1>2, SyncIs DEF IInv, SyncRow
  <2> QED BY <2>1, StaleFits, SyncIs DEF IInv
<1> QED BY <1>10, <1>11, StillForward

LEMMA FailFinalizedInv == IInv /\ FailFinalized => IInv' /\ Forward
<1> SUFFICES ASSUME IInv, FailFinalized PROVE IInv' /\ Forward
  OBVIOUS
<1>1. PICK j : j = run.job
  OBVIOUS
<1>2. /\ UNCHANGED <<durable, call, tail, build, alarm, retry, vault, current, faults, crashes, revokes>>
      /\ run.pc = "fail" /\ FailJob(jobs, j, "unavailable")
      /\ run' = [run EXCEPT !.pc = "more"]
  BY <1>1 DEF FailFinalized, wakeup, budget, RunAt
<1>3. j \in Job /\ jobs[j] \in JobRow /\ jobs = [jobs EXCEPT ![j] = jobs[j]]
  <2>1. j \in Job /\ jobs \in Seq(JobRow)
    BY <1>1, <1>2, RunIs DEF IInv, JobsInv
  <2> QED BY <2>1, JobsAre DEF IInv
<1>4. JobsInv' /\ JobsGrow /\ Len(jobs') = Len(jobs) /\ VaultInv' /\ Forward
  BY <1>2, <1>3, JobFails
<1>5. RunInv'
  <2>1. run' = [run EXCEPT !.pc = "more", !.job = j]
    BY <1>1, <1>2 DEF IInv, RunInv
  <2> QED BY <1>3, <1>4, <2>1, RunAfter
<1>6. RestInv'
  BY <1>2, RestSame DEF IInv
<1> QED BY <1>2, <1>4, <1>5, <1>6, JobInvStep

LEMMA StagingMissingInv == IInv /\ StagingMissing => IInv' /\ Forward
<1> SUFFICES ASSUME IInv, StagingMissing PROVE IInv' /\ Forward
  OBVIOUS
<1>1. PICK j : j = run.job
  OBVIOUS
<1>2. /\ UNCHANGED <<durable, call, tail, build, alarm, retry, vault, current, faults, crashes, revokes>>
      /\ run.pc = "work" /\ FailJob(jobs, j, "unsafe")
      /\ run' = [run EXCEPT !.pc = "more"]
  BY <1>1 DEF StagingMissing, wakeup, budget, RunAt
<1>3. j \in Job /\ jobs[j] \in JobRow /\ jobs = [jobs EXCEPT ![j] = jobs[j]]
  <2>1. j \in Job /\ jobs \in Seq(JobRow)
    BY <1>1, <1>2, RunIs DEF IInv, JobsInv
  <2> QED BY <2>1, JobsAre DEF IInv
<1>4. JobsInv' /\ JobsGrow /\ Len(jobs') = Len(jobs) /\ VaultInv' /\ Forward
  BY <1>2, <1>3, JobFails
<1>5. RunInv'
  <2>1. run' = [run EXCEPT !.pc = "more", !.job = j]
    BY <1>1, <1>2 DEF IInv, RunInv
  <2> QED BY <1>3, <1>4, <2>1, RunAfter
<1>6. RestInv'
  BY <1>2, RestSame DEF IInv
<1> QED BY <1>2, <1>4, <1>5, <1>6, JobInvStep

\* A running job is written and stays running.
LEMMA StillRunning ==
    ASSUME IInv, run.pc = "work", NEW row \in JobRow, jobs' = [jobs EXCEPT ![run.job] = row],
           row.src = jobs[run.job].src, row.status = "running", row.generation = "staging",
           row.attempts < MaxJobAttempts,
           UNCHANGED <<durable, call, build, vault, sync, current>>,
           run' = run \/ run' = NoRun, RestInv'
    PROVE  IInv' /\ Forward
<1>1. PICK j : j = run.job
  OBVIOUS
<1>2. j \in Job /\ jobs[j].status = "running" /\ Active(j) /\ current # j
  <2>1. j \in Job /\ jobs[j].status = "running" /\ Active(j) /\ current < j /\ j \in Nat
    BY <1>1, RunIs, JobsAre DEF IInv
  <2> QED BY <2>1
<1>3. JobsInv' /\ JobsGrow /\ Len(jobs') = Len(jobs)
  BY <1>1, <1>2, JobWritten DEF IInv
<1>4. VaultInv'
  <2>1. current # 0 => jobs'[current] = jobs[current]
    BY <1>1, <1>2, CurrentJob, JobsAre DEF IInv
  <2> QED BY <2>1, PublishedKept DEF IInv
<1>5. RunInv'
  <2>1. jobs'[j].status = "running"
    BY <1>1, <1>2, JobsAre DEF IInv
  <2>2. CASE run' = NoRun
    BY <1>2, <1>3, <2>2, RunAfter
  <2>3. CASE run' = run
    <3>1. run' = [run EXCEPT !.pc = "work", !.job = j]
      BY <1>1, <2>3 DEF IInv, RunInv
    <3> QED BY <1>2, <1>3, <2>1, <3>1, RunAfter
  <2> QED BY <2>2, <2>3
<1> QED BY <1>3, <1>4, <1>5, JobInvStep, StillForward

LEMMA ProjectBatchInv == IInv /\ ProjectBatch => IInv' /\ Forward
<1> SUFFICES ASSUME IInv, ProjectBatch PROVE IInv' /\ Forward
  OBVIOUS
<1>1. PICK j : j = run.job
  OBVIOUS
<1>2. /\ UNCHANGED <<durable, call, tail, build, retry, vault, sync, current, faults, crashes, revokes>>
      /\ run.pc = "work" /\ jobs[j].left > 0
      /\ jobs' = [jobs EXCEPT ![j].left = @ - 1, ![j].attempts = 0]
      /\ \/ run' = NoRun /\ alarm' = TRUE
         \/ run' = run /\ alarm' = alarm
  BY <1>1 DEF ProjectBatch, NotesLeft, budget
<1>3. /\ j \in Job /\ jobs[j] \in JobRow /\ jobs[j].status = "running" /\ jobs[j].generation = "staging"
      /\ jobs[j].left \in 0..Batches /\ jobs \in Seq(JobRow)
  BY <1>1, <1>2, RunIs, JobsAre DEF IInv, JobsInv
<1>4. PICK left : left = jobs[j].left - 1
  OBVIOUS
<1>5. left \in 0..Batches /\ 0 \in 0..MaxJobAttempts /\ 0 < MaxJobAttempts
  BY <1>2, <1>3, <1>4, Numbers
<1>6. PICK row : row = [jobs[j] EXCEPT !.left = left, !.attempts = 0]
  OBVIOUS
<1>7. /\ row \in JobRow /\ row.src = jobs[j].src /\ row.status = "running"
      /\ row.generation = "staging" /\ row.attempts = 0
  BY <1>3, <1>5, <1>6 DEF JobRow
<1>8. jobs' = [jobs EXCEPT ![j] = row]
  BY <1>2, <1>3, <1>4, <1>6, JobsAre DEF IInv
<1>9. RestInv'
  <2>1. alarm' \in BOOLEAN
    BY <1>2 DEF IInv, RestInv
  <2> QED BY <1>2, <2>1 DEF IInv, RestInv
<1> QED BY <1>1, <1>2, <1>5, <1>7, <1>8, <1>9, StillRunning

LEMMA JobFailedInv == IInv /\ JobFailed => IInv' /\ Forward
<1> SUFFICES ASSUME IInv, JobFailed PROVE IInv' /\ Forward
  OBVIOUS
<1>1. PICK j : j = run.job
  OBVIOUS
<1>2. PICK counted : counted = [jobs EXCEPT ![j].attempts = @ + 1]
  OBVIOUS
<1>3. /\ UNCHANGED <<durable, call, tail, build, retry, vault, current>>
      /\ run.pc = "work" /\ Fault("job")
      /\ IF counted[j].attempts >= MaxJobAttempts
         THEN /\ FailJob(counted, j, "unavailable")
              /\ run' = [run EXCEPT !.pc = "more"]
              /\ UNCHANGED alarm
         ELSE /\ jobs' = counted
              /\ run' = NoRun /\ alarm' = TRUE
              /\ UNCHANGED sync
  BY <1>1, <1>2 DEF JobFailed, RunAt
<1>4. /\ j \in Job /\ jobs[j] \in JobRow /\ jobs[j].status = "running" /\ jobs[j].generation = "staging"
      /\ jobs[j].attempts \in 0..MaxJobAttempts /\ jobs[j].attempts < MaxJobAttempts
      /\ jobs \in Seq(JobRow)
  BY <1>1, <1>3, RunIs, JobsAre DEF IInv, JobsInv
<1>5. PICK attempts : attempts = jobs[j].attempts + 1
  OBVIOUS
<1>6. attempts \in 0..MaxJobAttempts
  BY <1>4, <1>5, Numbers
<1>7. PICK r : r = [jobs[j] EXCEPT !.attempts = attempts]
  OBVIOUS
<1>8. /\ r \in JobRow /\ r.src = jobs[j].src /\ r.status = jobs[j].status
      /\ r.generation = jobs[j].generation /\ r.left = jobs[j].left /\ r.attempts = attempts
  BY <1>4, <1>6, <1>7 DEF JobRow
<1>9. counted = [jobs EXCEPT ![j] = r] /\ counted[j] = r
  BY <1>2, <1>4, <1>5, <1>7, JobsAre DEF IInv
<1>10. RestInv'
  <2>1. alarm' \in BOOLEAN
    BY <1>3 DEF IInv, RestInv
  <2> QED BY <1>3, <2>1, FaultCounts DEF IInv, RestInv
<1>11. CASE attempts >= MaxJobAttempts
  <2>1. FailJob(counted, j, "unavailable") /\ run' = [run EXCEPT !.pc = "more"]
    BY <1>3, <1>8, <1>9, <1>11
  <2>2. JobsInv' /\ JobsGrow /\ Len(jobs') = Len(jobs) /\ VaultInv' /\ Forward
    BY <1>3, <1>4, <1>8, <1>9, <2>1, JobFails
  <2>3. RunInv'
    <3>1. run' = [run EXCEPT !.pc = "more", !.job = j]
      BY <1>1, <2>1 DEF IInv, RunInv
    <3> QED BY <1>4, <2>2, <3>1, RunAfter
  <2> QED BY <1>3, <1>10, <2>2, <2>3, JobInvStep
<1>12. CASE ~(attempts >= MaxJobAttempts)
  <2>1. jobs' = [jobs EXCEPT ![j] = r] /\ run' = NoRun /\ UNCHANGED sync
    BY <1>3, <1>8, <1>9, <1>12
  <2>2. r.attempts < MaxJobAttempts
    BY <1>6, <1>8, <1>12, Numbers
  <2> QED BY <1>1, <1>3, <1>4, <1>8, <1>10, <2>1, <2>2, StillRunning
<1> QED BY <1>11, <1>12

\* The finalizing batch: the running job is completed, and published when the
\* vault is active.
LEMMA PublishFits ==
    ASSUME IInv, run.pc = "work", ~NotesLeft(run.job), Publish(run.job), UNCHANGED <<durable, vault>>
    PROVE  JobsInv' /\ JobsGrow /\ Len(jobs') = Len(jobs) /\ VaultInv' /\ Forward
<1>1. PICK j : j = run.job
  OBVIOUS
<1>2. /\ j \in Job /\ jobs[j] \in JobRow /\ jobs[j].status = "running" /\ jobs[j].generation = "staging"
      /\ jobs[j].left = 0 /\ Active(j) /\ jobs \in Seq(JobRow) /\ current # j /\ j # 0
      /\ jobs[j].src \in 1..MaxState
  <2>1. jobs[j].left \in 0..Batches /\ ~(jobs[j].left > 0) /\ j \in Nat /\ current < j
    BY <1>1, RunIs, JobsAre DEF IInv, NotesLeft
  <2>2. jobs[j].left = 0 /\ current # j
    BY <2>1, Numbers
  <2> QED BY <1>1, <2>2, RunIs, JobsAre DEF IInv, JobsInv, Job
<1>3. /\ jobs' = [jobs EXCEPT
                    ![j].generation = IF @ = "staging" /\ vault = "active" THEN "published" ELSE @,
                    ![j].status = IF @ = "running" THEN "completed" ELSE @,
                    ![j].attempts = 0]
      /\ current' = IF vault = "active" THEN j ELSE current
      /\ sync' = [sync EXCEPT !.stale = sync.hash # jobs[j].src, !.error = "none"]
  BY <1>1, <1>2 DEF Publish, CurrentAfter, StaleAfter
<1>4. PICK generation : generation = IF vault = "active" THEN "published" ELSE "staging"
  OBVIOUS
<1>5. PICK row : row = [jobs[j] EXCEPT !.generation = generation, !.status = "completed", !.attempts = 0]
  OBVIOUS
<1>6. /\ row \in JobRow /\ row.src = jobs[j].src /\ row.status = "completed"
      /\ row.generation = generation /\ row.left = 0
  <2>1. 0 \in 0..MaxJobAttempts /\ generation \in {"published", "staging"}
    BY <1>4, Numbers
  <2> QED BY <1>2, <1>5, <2>1 DEF JobRow
<1>7. jobs' = [jobs EXCEPT ![j] = row] /\ jobs'[j] = row
  <2>1. j \in DOMAIN jobs
    BY <1>2, JobsAre DEF IInv
  <2>2. jobs' = [jobs EXCEPT ![j] = row]
    BY <1>2, <1>3, <1>4, <1>5, <2>1
  <2> QED BY <2>1, <2>2
<1>8. current' = j => vault = "active" /\ generation = "published"
  BY <1>2, <1>3, <1>4
<1>9. JobsInv' /\ JobsGrow /\ Len(jobs') = Len(jobs)
  <2>1. current' = current \/ (current' = j /\ jobs[j].status = "running")
    BY <1>2, <1>3
  <2> QED BY <1>2, <1>6, <1>7, <1>8, <2>1, JobWritten DEF IInv
<1>10. Forward
  BY <1>2, <1>3, <1>9, StillForward, MovedForward
<1>11. VaultInv'
  <2>1. PICK stale \in BOOLEAN : stale = (sync.hash # jobs[j].src)
    OBVIOUS
  <2>2. sync' \in SyncRow /\ sync'.stale = stale /\ sync'.hash = sync.hash
    BY <1>3, <2>1, SyncIs DEF IInv, SyncRow
  <2>3. vault = "active" => PublishedSource' = jobs[j].src
    BY <1>2, <1>3, <1>4, <1>6, <1>7 DEF PublishedSource
  <2>4. NotStaleMeansCurrent'
    BY <2>1, <2>2, <2>3 DEF NotStaleMeansCurrent
  <2>5. SyncRow' = SyncRow /\ vault' \in {"active", "revoked"}
    BY SyncIs DEF SyncRow, IInv
  <2> QED BY <2>2, <2>4, <2>5 DEF VaultInv
<1> QED BY <1>9, <1>10, <1>11

LEMMA FinalizeJobInv == IInv /\ FinalizeJob => IInv' /\ Forward
<1> SUFFICES ASSUME IInv, FinalizeJob PROVE IInv' /\ Forward
  OBVIOUS
<1>1. /\ UNCHANGED <<durable, call, tail, build, alarm, retry, vault, faults, crashes, revokes>>
      /\ run.pc = "work" /\ ~NotesLeft(run.job) /\ Publish(run.job)
      /\ run' = [run EXCEPT !.pc = "more"]
  BY DEF FinalizeJob, wakeup, budget, RunAt
<1>2. JobsInv' /\ JobsGrow /\ Len(jobs') = Len(jobs) /\ VaultInv' /\ Forward
  BY <1>1, PublishFits
<1>3. RunInv'
  <2>1. run' = [run EXCEPT !.pc = "more", !.job = run.job] /\ run.job \in Job
    BY <1>1, RunIs DEF IInv, RunInv
  <2> QED BY <1>2, <2>1, RunAfter
<1>4. RestInv'
  BY <1>1, RestSame DEF IInv
<1> QED BY <1>1, <1>2, <1>3, <1>4, JobInvStep

LEMMA FinalizeAnswerLostInv == IInv /\ FinalizeAnswerLost => IInv' /\ Forward
<1> SUFFICES ASSUME IInv, FinalizeAnswerLost PROVE IInv' /\ Forward
  OBVIOUS
<1>1. /\ UNCHANGED <<durable, call, tail, build, alarm, retry, vault>>
      /\ run.pc = "work" /\ ~NotesLeft(run.job) /\ Publish(run.job) /\ Fault("job")
      /\ run' = [run EXCEPT !.pc = "fail"]
  BY DEF FinalizeAnswerLost, wakeup, RunAt
<1>2. JobsInv' /\ JobsGrow /\ Len(jobs') = Len(jobs) /\ VaultInv' /\ Forward
  BY <1>1, PublishFits
<1>3. RunInv'
  <2>1. run' = [run EXCEPT !.pc = "fail", !.job = run.job] /\ run.job \in Job
    BY <1>1, RunIs DEF IInv, RunInv
  <2> QED BY <1>2, <2>1, RunAfter
<1>4. RestInv'
  BY <1>1, FaultCounts DEF IInv, RestInv
<1> QED BY <1>1, <1>2, <1>3, <1>4, JobInvStep

-----------------------------------------------------------------------------
(* The surroundings *)

LEMMA EvictInv == IInv /\ Evict => IInv'
<1> SUFFICES ASSUME IInv, Evict PROVE IInv'
  OBVIOUS
<1>1. /\ UNCHANGED <<durable, retry, vault, sync, current, jobs, faults, revokes>>
      /\ crashes < MaxCrashes /\ crashes' = crashes + 1
      /\ call' = [c \in Call |-> NoCall]
      /\ tail' = <<>> /\ build' = NoBuild /\ run' = NoRun
      /\ alarm' = (alarm \/ run.pc # "idle")
  BY DEF Evict, tables
<1>2. JobsInv' /\ VaultInv'
  BY <1>1, JobsSame, VaultSame DEF IInv
<1>3. CallsInv'
  <2>1. CallRow' = CallRow
    BY DEF CallRow
  <2> QED BY <1>1, <2>1, NoneFits DEF CallsInv, CallFits
<1>4. Len(jobs) \in Nat /\ 0 \in 0..MaxState
  BY JobsAre, Numbers DEF IInv
<1>5. BuildInv'
  BY <1>1, <1>4 DEF BuildInv, NoBuild
<1>6. RunInv'
  BY <1>1, RunIs, RunAtFits
<1>7. RestInv'
  <2>1. crashes' \in 0..MaxCrashes
    BY <1>1, Numbers DEF IInv, RestInv
  <2>2. alarm' \in BOOLEAN /\ tail' \in Seq(Handler \cup {Alarm})
    BY <1>1
  <2> QED BY <1>1, <2>1, <2>2 DEF IInv, RestInv
<1> QED BY <1>2, <1>3, <1>5, <1>6, <1>7 DEF IInv

LEMMA RevokeInv == IInv /\ Revoke => IInv'
<1> SUFFICES ASSUME IInv, Revoke PROVE IInv'
  OBVIOUS
<1>1. /\ UNCHANGED <<durable, tail, build, run, alarm, retry, sync, current, jobs, faults, crashes>>
      /\ vault' = "revoked" /\ revokes < MaxRevokes /\ revokes' = revokes + 1
      /\ call' = [c \in Call |-> [call[c] EXCEPT !.op = IF @ = "confirm" THEN "denied" ELSE @]]
  BY DEF Revoke, wakeup
<1>2. VaultInv'
  BY <1>1, SyncIs, SyncMoves DEF IInv
<1>3. CallsInv'
  <2>1. CallRow' = CallRow
    BY DEF CallRow
  <2>2. \A c \in Call : /\ call'[c] \in CallRow /\ call'[c].pc = call[c].pc
                        /\ call'[c].op = IF call[c].op = "confirm" THEN "denied" ELSE call[c].op
    <3> SUFFICES ASSUME NEW c \in Call
                 PROVE  /\ call'[c] \in CallRow /\ call'[c].pc = call[c].pc
                        /\ call'[c].op = IF call[c].op = "confirm" THEN "denied" ELSE call[c].op
      OBVIOUS
    <3>1. PICK op : op = IF call[c].op = "confirm" THEN "denied" ELSE call[c].op
      OBVIOUS
    <3>2. op \in {"none", "change", "confirm", "denied", "build"} /\ call[c] \in CallRow
      BY <3>1, CallIs DEF IInv
    <3>3. call'[c] = [call[c] EXCEPT !.op = op]
      BY <1>1, <3>1
    <3> QED BY <3>1, <3>2, <3>3 DEF CallRow
  <2>3. call' \in [Call -> CallRow]
    BY <1>1, <2>2
  <2>4. \A c \in Call : CallFits(c)'
    BY <2>2 DEF IInv, CallsInv, CallFits
  <2> QED BY <2>1, <2>3, <2>4 DEF CallsInv
<1>4. RestInv'
  <2>1. revokes' \in 0..MaxRevokes
    BY <1>1, Numbers DEF IInv, RestInv
  <2> QED BY <1>1, <2>1 DEF IInv, RestInv
<1> QED BY <1>1, <1>2, <1>3, <1>4, QuietInv

LEMMA PairInv == IInv /\ Pair => IInv'
<1> SUFFICES ASSUME IInv, Pair PROVE IInv'
  OBVIOUS
<1>1. /\ UNCHANGED <<durable, call, tail, build, run, alarm, retry, current, jobs, faults, crashes, revokes>>
      /\ vault' = "active" /\ sync' = Unsynced(sync.profile)
  BY DEF Pair, object, wakeup, budget
<1>2. VaultInv'
  <2>1. sync' \in SyncRow /\ sync'.stale
    BY <1>1, SyncIs, Numbers DEF IInv, Unsynced, SyncRow
  <2> QED BY <1>1, <2>1, StaleFits
<1>3. RestInv'
  BY <1>1, RestSame DEF IInv
<1> QED BY <1>1, <1>2, <1>3, QuietInv, CallsSame DEF IInv

-----------------------------------------------------------------------------
(* The theorems *)

\* A step that leaves the jobs and the current pointer alone.
LEMMA ForwardSame == ASSUME IInv, UNCHANGED <<durable, jobs, current>> PROVE Forward
  BY SameGrow, StillForward DEF IInv

\* Requests, builds, evictions and the alarm's other steps touch no job's row;
\* a new job is appended, the waiting ones superseded.
LEMMA CreateForward ==
    ASSUME IInv, CreateJob \/ \E committed \in BOOLEAN : CreateJobFailed(committed) PROVE Forward
<1>1. UNCHANGED <<durable, current>> /\ build.pc = "create"
  BY DEF CreateJob, CreateJobFailed
<1>2. \/ jobs' = jobs
      \/ jobs' = Superseded
      \/ \E staged \in BOOLEAN : jobs' = Append(Superseded, NewJob(staged))
  BY DEF CreateJob, CreateJobFailed
<1>3. JobsGrow
  <2>1. CASE jobs' = jobs
    BY <1>1, <2>1, SameGrow DEF IInv
  <2>2. CASE jobs' = Superseded
    BY <1>1, <2>2, SupersededJobs DEF IInv
  <2>3. CASE \E staged \in BOOLEAN : jobs' = Append(Superseded, NewJob(staged))
    BY <1>1, <2>3, AddedJob DEF IInv
  <2> QED BY <1>2, <2>1, <2>2, <2>3
<1> QED BY <1>1, <1>3, StillForward

LEMMA ChangeForward == ASSUME IInv, NEW c \in Handler, Change(c) PROVE Forward
<1> SUFFICES ASSUME current # 0 PROVE current' # 0 /\ jobs'[current'].src >= jobs[current].src
  BY DEF Forward
<1>1. current \in Job /\ jobs[current].src \in Nat
  BY CurrentJob, JobsAre DEF IInv
<1> QED BY <1>1 DEF Change, tables

LEMMA EnvironmentInv == IInv /\ Environment => IInv' /\ Forward
<1> SUFFICES ASSUME IInv, Environment PROVE IInv' /\ Forward
  OBVIOUS
<1>1. ASSUME NEW c \in Handler, Change(c) PROVE IInv' /\ Forward
  BY <1>1, ChangeInv, ChangeForward
<1>2. ASSUME NEW c \in Handler, BuildRequested(c) PROVE IInv' /\ Forward
  <2>1. UNCHANGED <<durable, jobs, current>>
    BY <1>2 DEF BuildRequested, tables
  <2> QED BY <1>2, <2>1, BuildRequestedInv, ForwardSame
<1>3. ASSUME NEW c \in Handler, NEW profile \in {0} \cup Profiles, ConfirmRequested(c, profile)
      PROVE  IInv' /\ Forward
  <2>1. UNCHANGED <<durable, jobs, current>>
    BY <1>3 DEF ConfirmRequested, tables
  <2> QED BY <1>3, <2>1, ConfirmRequestedInv, ForwardSame
<1>4. CASE Evict
  <2>1. UNCHANGED <<durable, jobs, current>>
    BY <1>4 DEF Evict, tables
  <2> QED BY <1>4, <2>1, EvictInv, ForwardSame
<1>5. CASE Revoke
  <2>1. UNCHANGED <<durable, jobs, current>>
    BY <1>5 DEF Revoke
  <2> QED BY <1>5, <2>1, RevokeInv, ForwardSame
<1>6. CASE Pair
  <2>1. UNCHANGED <<durable, jobs, current>>
    BY <1>6 DEF Pair
  <2> QED BY <1>6, <2>1, PairInv, ForwardSame
<1> QED BY <1>1, <1>2, <1>3, <1>4, <1>5, <1>6 DEF Environment

LEMMA FaultyInv == IInv /\ Faulty => IInv' /\ Forward
<1> SUFFICES ASSUME IInv, Faulty PROVE IInv' /\ Forward
  OBVIOUS
<1>1. ASSUME NEW c \in Handler, RecordFailed(c) PROVE IInv' /\ Forward
  <2>1. UNCHANGED <<durable, jobs, current>>
    BY <1>1 DEF RecordFailed, tables
  <2> QED BY <1>1, <2>1, RecordFailedInv, ForwardSame
<1>2. CASE CaptureGivesUp
  <2>1. UNCHANGED <<durable, jobs, current>>
    BY <1>2 DEF CaptureGivesUp, tables
  <2> QED BY <1>2, <2>1, CaptureGivesUpInv, ForwardSame
<1>3. ASSUME NEW committed \in BOOLEAN, CreateJobFailed(committed) PROVE IInv' /\ Forward
  BY <1>3, CreateJobFailedInv, CreateForward
<1>4. CASE FinalizeAnswerLost
  BY <1>4, FinalizeAnswerLostInv
<1>5. CASE JobFailed
  BY <1>5, JobFailedInv
<1>6. CASE AlarmFailed
  <2>1. UNCHANGED <<durable, jobs, current>>
    BY <1>6 DEF AlarmFailed, tables
  <2> QED BY <1>6, <2>1, AlarmFailedInv, ForwardSame
<1>7. CASE CaptureRejects
  <2>1. UNCHANGED <<durable, jobs, current>>
    BY <1>7 DEF CaptureRejects, tables
  <2> QED BY <1>7, <2>1, CaptureRejectsInv, ForwardSame
<1> QED BY <1>1, <1>2, <1>3, <1>4, <1>5, <1>6, <1>7 DEF Faulty

LEMMA BuildStepInv == IInv /\ Build => IInv' /\ Forward
<1> SUFFICES ASSUME IInv, Build PROVE IInv' /\ Forward
  OBVIOUS
<1>1. BuildStarts \/ Captured \/ LookForCurrent \/ LookForActive \/ WakeForJob =>
         UNCHANGED <<durable, jobs, current>>
  BY DEF BuildStarts, Captured, LookForCurrent, LookForActive, WakeForJob, tables
<1>2. CASE BuildStarts
  BY <1>1, <1>2, BuildStartsInv, ForwardSame
<1>3. CASE Captured
  BY <1>1, <1>3, CapturedInv, ForwardSame
<1>4. CASE LookForCurrent
  BY <1>1, <1>4, LookForCurrentInv, ForwardSame
<1>5. CASE LookForActive
  BY <1>1, <1>5, LookForActiveInv, ForwardSame
<1>6. CASE CreateJob
  BY <1>6, CreateJobInv, CreateForward
<1>7. CASE WakeForJob
  BY <1>1, <1>7, WakeForJobInv, ForwardSame
<1> QED BY <1>2, <1>3, <1>4, <1>5, <1>6, <1>7 DEF Build

LEMMA RunStepInv == IInv /\ Run => IInv' /\ Forward
<1> SUFFICES ASSUME IInv, Run PROVE IInv' /\ Forward
  OBVIOUS
<1>1. MoreJobs \/ ReadState \/ MarkReady \/ RetryAfterError \/ RetryBuild \/ RecordUnsafe \/ BuildQueued =>
         UNCHANGED <<durable, jobs, current>>
  BY DEF MoreJobs, ReadState, MarkReady, RetryAfterError, RetryBuild, RecordUnsafe, BuildQueued, tables
<1>2. CASE ClaimJob
  BY <1>2, ClaimJobInv
<1>3. CASE ProjectBatch
  BY <1>3, ProjectBatchInv
<1>4. CASE FinalizeJob
  BY <1>4, FinalizeJobInv
<1>5. CASE FailFinalized
  BY <1>5, FailFinalizedInv
<1>6. CASE StagingMissing
  BY <1>6, StagingMissingInv
<1>7. CASE MoreJobs
  BY <1>1, <1>7, MoreJobsInv, ForwardSame
<1>8. CASE ReadState
  BY <1>1, <1>8, ReadStateInv, ForwardSame
<1>9. CASE MarkReady
  BY <1>1, <1>9, MarkReadyInv, ForwardSame
<1>10. CASE RetryAfterError
  BY <1>1, <1>10, RetryAfterErrorInv, ForwardSame
<1>11. CASE RetryBuild
  BY <1>1, <1>11, RetryBuildInv, ForwardSame
<1>12. CASE RecordUnsafe
  BY <1>1, <1>12, RecordUnsafeInv, ForwardSame
<1>13. CASE BuildQueued
  BY <1>1, <1>13, BuildQueuedInv, ForwardSame
<1> QED BY <1>2, <1>3, <1>4, <1>5, <1>6, <1>7, <1>8, <1>9, <1>10, <1>11, <1>12, <1>13 DEF Run

LEMMA RecordInv == ASSUME IInv, NEW c \in Call, Record(c) PROVE IInv' /\ Forward
<1>1. UNCHANGED <<durable, jobs, current>>
  BY DEF Record, RecordRead, RecordWrite, RecordDone, Confirm, tables
<1>2. IInv'
  BY RecordReadInv, RecordWriteInv, RecordDoneInv, ConfirmInv DEF Record
<1> QED BY <1>1, <1>2, ForwardSame

LEMMA NextInv == IInv /\ [Next]_vars => IInv' /\ Forward
<1> SUFFICES ASSUME IInv, [Next]_vars PROVE IInv' /\ Forward
  OBVIOUS
<1>1. CASE Environment
  BY <1>1, EnvironmentInv
<1>2. CASE Faulty
  BY <1>2, FaultyInv
<1>3. CASE AlarmFires
  <2>1. UNCHANGED <<durable, jobs, current>>
    BY <1>3 DEF AlarmFires, tables
  <2> QED BY <1>3, <2>1, AlarmFiresInv, ForwardSame
<1>4. CASE Build
  BY <1>4, BuildStepInv
<1>5. CASE Run
  BY <1>5, RunStepInv
<1>6. ASSUME NEW c \in Call, Record(c) PROVE IInv' /\ Forward
  BY <1>6, RecordInv
<1>7. CASE UNCHANGED vars
  <2>1. /\ UNCHANGED <<durable, call, tail, build, run, alarm, retry, vault, sync, current, jobs>>
        /\ UNCHANGED budget
    BY <1>7 DEF vars, object, wakeup, tables
  <2> QED BY <2>1, CallInv, CallsSame, ForwardSame DEF IInv
<1> QED BY <1>1, <1>2, <1>3, <1>4, <1>5, <1>6, <1>7 DEF Next

(***************************************************************************)
(* The inductive invariant holds: requests, the build queue, the alarm,    *)
(* lost answers, evictions and revocations of vault-coordinator.ts and     *)
(* materialization-job-service.ts keep every part of it.                   *)
(***************************************************************************)
THEOREM Invariance == Spec => []IInv
<1>1. Init => IInv
  BY InitInv
<1>2. IInv /\ [Next]_vars => IInv'
  BY NextInv
<1> QED BY <1>1, <1>2, PTL DEF Spec

(***************************************************************************)
(* Rows are well formed, readers resolve a complete published generation,  *)
(* and at most one job is projected while at most one waits, for any       *)
(* number of requests, jobs, faults and evictions.                         *)
(***************************************************************************)
THEOREM LibraryStands == Spec => []LibraryInv
<1>1. IInv => LibraryInv
  BY TypeIs, NoBacklogIs DEF IInv, JobsInv, LibraryInv
<1> QED BY <1>1, Invariance, PTL

(***************************************************************************)
(* The stale flag of an active vault is down only while the published      *)
(* generation is of the state D1 records, whichever of saves,              *)
(* confirmations, finalized and failed jobs and the alarm wrote it last.   *)
(***************************************************************************)
THEOREM FreshIsCurrent == Spec => []NotStaleMeansCurrent
<1>1. IInv => NotStaleMeansCurrent
  BY DEF IInv, VaultInv
<1> QED BY <1>1, Invariance, PTL

(***************************************************************************)
(* A published generation is never replaced by one of an older state:      *)
(* the job published is younger than the current one and jobs are created  *)
(* in the order of the states they project.                                *)
(***************************************************************************)
THEOREM NeverGoesBack == Spec => CurrentNeverGoesBack
<1>1. IInv /\ [Next]_vars =>
         [current # 0 => current' # 0 /\ jobs'[current'].src >= jobs[current].src]_vars
  BY NextInv DEF Forward
<1> QED BY <1>1, Invariance, PTL DEF Spec, CurrentNeverGoesBack

-----------------------------------------------------------------------------
(* SnapshotStore: the inductive invariants *)

\* The states a row of a snapshot or an object goes through.
Status == {"none", "creating", "ready", "failed", "deleted"}
\* What a note or an intelligence item may hold.
Contents == Content \cup {Before[s] : s \in DOMAIN Before} \cup {None}
\* The keys of manifests and items, the first copies and the replacements.
PartKey == {"manifest", "item"} \X Snapshot \X Nat
\* Every key of R2 that snapshots use.
Key == PartKey \cup ({"object"} \X Object)
\* What the manifest and the item column of a snapshot hold.
Name == PartKey \cup {None}

\* The rows of snapshots and of objects.
SnapshotRow ==
    [status : Status, integrity : {"pending", "verified", "degraded"}, pinned : BOOLEAN,
     recipient : Recipient \cup {None}, content : Contents, staged : BOOLEAN,
     selected : BOOLEAN, entry : Object \cup {None}, item : Name, manifest : Name,
     processed : 0..1, old : BOOLEAN, cleaned : BOOLEAN]
ObjectRow ==
    [status : Status, content : Contents, recipient : Recipient \cup {None},
     by : Snapshot \cup {None}]

\* The requests, by what they are doing and what they hold.
StartReq == [pc : {"insert"}, recipient : Recipient]
StageReq == [pc : {"stage", "select"}, snapshot : Snapshot]
CaptureReq ==
    [pc : {"find", "create", "put", "complete", "attach", "item", "itemrow", "count"},
     kind : {"continue"}, snapshot : Snapshot, recipient : Recipient, note : Contents,
     object : Object \cup {None}]
TallyReq == [pc : {"tally"}, snapshot : Snapshot, lacking : BOOLEAN]
PublishReq ==
    [pc : {"progress", "manifest", "finalize", "retain"}, snapshot : Snapshot,
     processed : 0..1, all : BOOLEAN]
MaintainReq == [pc : {"retain", "cleanup", "sweep"}]
RetainReq == [pc : {"queue", "delete", "rows", "sweep"}, todo : SUBSET Snapshot]
SweepReq == [pc : {"check"}, todo : SUBSET Key]
EraseReq == [pc : {"erase", "dequeue"}, key : Key, todo : SUBSET Key]
RepairReq ==
    [pc : {"fixmanifest", "newmanifest", "fixnote", "create", "put", "complete", "relink",
           "fixitem", "newitem", "verify", "sweep"},
     kind : {"repair"}, snapshot : Snapshot, recipient : Recipient, note : Contents,
     object : Object \cup {None}, fresh : Name, manifest : Name, item : Name,
     entry : Object \cup {None}]
BackupReq == [pc : {"backup", "encrypt"}, recipient : Recipient]

Req ==
    {Idle} \cup StartReq \cup StageReq \cup CaptureReq \cup TallyReq \cup PublishReq
    \cup MaintainReq \cup RetainReq \cup SweepReq \cup EraseReq \cup RepairReq \cup BackupReq

\* The type invariant, with the requests' own fields: RowsOK says less of them.
RowsFit ==
    /\ snap \in [Snapshot -> SnapshotRow] /\ sealed \in [Object -> ObjectRow]
    /\ r2 \subseteq Key /\ gone \subseteq Key /\ copies \in Nat
    /\ queue \subseteq Key /\ aged \subseteq queue
    /\ recipient \in Recipient
    /\ backup \in [status : {"none", "creating", "ready", "failed"},
                   recipient : Recipient \cup {None}]
    /\ reqs \in [Slot -> Req]

-----------------------------------------------------------------------------

\* The steps of a capture or a repair, which work for the snapshot's recipient.
Copying == {"find", "create", "put", "complete", "attach", "item", "itemrow", "count",
            "fixmanifest", "newmanifest", "fixnote", "relink", "fixitem", "newitem", "verify"}

\* An object sealed for recipient r with this content.
OfOne(o, r, note) ==
    sealed[o].status # "none" /\ sealed[o].recipient = r /\ sealed[o].content = note

\* A request that stages, tallies or publishes does so for a snapshot that was begun.
StartFits(q) ==
    q.pc \in {"stage", "select", "tally", "progress", "manifest", "finalize"} =>
        snap[q.snapshot].status # "none"
\* A snapshot about to be finalized and still being created is complete.
FinalFits(q) ==
    q.pc = "finalize" /\ snap[q.snapshot].status = "creating" => Publishable(q.snapshot)
\* A capture or a repair holds the recipient and the content of the snapshot's row.
CopyFits(q) ==
    q.pc \in Copying =>
        LET row == snap[q.snapshot]
        IN  /\ row.status # "none"
            /\ row.status # "deleted" => q.recipient = row.recipient /\ q.note = row.content
\* The object it writes, attaches or links is sealed for that recipient with that content.
ObjectFits(q) ==
    q.pc \in {"put", "complete", "attach", "relink"} =>
        q.object \in Object /\ OfOne(q.object, q.recipient, q.note)
\* A repair replaces the entry's object by another of the same recipient and content.
ReplaceFits(q) ==
    q.pc \in {"create", "put", "complete", "relink"} /\ q.kind = "repair" =>
        /\ q.entry \in Object /\ OfOne(q.entry, q.recipient, q.note)
        /\ q.pc # "create" => q.object # q.entry
\* A repair that puts a new name in a row has an old one to replace and a fresh one.
RelinkFits(q) ==
    /\ q.pc = "newmanifest" => q.manifest # None /\ q.fresh # None
    /\ q.pc = "newitem" => q.item # None /\ q.fresh # None
\* A retention run goes on only while it has snapshots to delete.
TodoFits(q) == q.pc \in {"queue", "delete", "rows"} => q.todo # {}
\* All that a request may rely on.
ReqFits(q) ==
    /\ StartFits(q) /\ FinalFits(q) /\ CopyFits(q) /\ ObjectFits(q)
    /\ ReplaceFits(q) /\ RelinkFits(q) /\ TodoFits(q)
ReqsFit == \A c \in Slot : ReqFits(reqs[c])

\* A snapshot never begun or deleted has no rows left but its own.
NothingLeft ==
    \A s \in Snapshot : snap[s].status \in {"none", "deleted"} =>
        /\ ~snap[s].staged /\ ~snap[s].selected /\ snap[s].entry = None
        /\ snap[s].item = None /\ snap[s].manifest = None
\* A ready snapshot has its staged rows, its entry and its manifest.
ReadyHas ==
    \A s \in Ready : snap[s].staged /\ snap[s].entry # None /\ snap[s].manifest # None
\* An entry attached to an object is attached to one of its snapshot's recipient.
EntriesFit ==
    \A s \in Snapshot : snap[s].entry # None =>
        snap[s].entry \in Row /\ OfOne(snap[s].entry, snap[s].recipient, snap[s].content)

\* The inductive invariant behind SnapshotInv and KnownGoodKept.
SnapshotsFit == RowsFit /\ NothingLeft /\ ReadyHas /\ EntriesFit /\ ReqsFit

\* What a step may do with the row of a snapshot: begin it,
Inserted(s) ==
    /\ snap[s].status = "none"
    /\ \E note \in Contents :
          snap'[s] = [NoSnapshot EXCEPT !.status = "creating", !.recipient = recipient, !.content = note]
\* delete it once it is ready and nothing protects it,
Deleted(s) ==
    /\ snap[s].status = "ready" /\ ~Protected(s)
    /\ snap'[s] = [NoSnapshot EXCEPT !.status = "deleted"]
\* or keep it, its recipient and what it has, while it is created, published or fails.
Kept(old, new) ==
    /\ old.status \notin {"none", "deleted"}
    /\ new.recipient = old.recipient /\ new.content = old.content
    /\ \/ new.status = old.status
       \/ old.status = "creating" /\ new.status = "failed"
       \/ old.status = "creating" /\ new.status = "ready"
          /\ old.staged /\ old.entry # None /\ new.manifest # None
    /\ new.status # "failed" =>
          /\ old.staged => new.staged
          /\ old.entry # None => new.entry # None
          /\ old.item # None => new.item # None
          /\ old.manifest # None => new.manifest # None
\* Every row of a snapshot takes one of those steps.
SnapStep ==
    \A s \in Snapshot :
        snap'[s] = snap[s] \/ Inserted(s) \/ Deleted(s) \/ Kept(snap[s], snap'[s])
\* The row of an object keeps its recipient and its content, once it has them.
ObjStep ==
    \A o \in Object :
        \/ sealed[o].status = "none"
        \/ /\ sealed'[o].status # "none" /\ sealed'[o].recipient = sealed[o].recipient
           /\ sealed'[o].content = sealed[o].content
\* An entry keeps its row, and gets a new one only of its own recipient and content.
EntStep ==
    \A s \in Snapshot : snap'[s].entry # None =>
        /\ sealed'[snap'[s].entry].status \in {"creating", "ready", "failed"}
        /\ snap[s].entry # snap'[s].entry =>
              /\ snap'[s].entry \in Object
              /\ OfOne(snap'[s].entry, snap[s].recipient, snap[s].content)
              /\ Kept(snap[s], snap'[s])

\* What is to be named, and what is named.

\* A request about to give a snapshot the object it wrote under a fresh key.
Fresh(q) == q.pc \in {"newmanifest", "newitem"}

\* Keys that a row may come to name: of replacements, written and to be written, and
\* the fixed key of a manifest or an item not recorded yet.
Pending(k) ==
    /\ k \in PartKey
    /\ \/ k[3] > copies
       \/ \E s \in Snapshot : k = ManifestKey(s, 0) /\ snap[s].status \in {"none", "creating"}
       \/ \E s \in Snapshot : /\ k = ItemKey(s, 0) /\ snap[s].item = None
                              /\ snap[s].status \in {"none", "creating", "ready"}
       \/ \E c \in Slot : Fresh(reqs[c]) /\ k = reqs[c].fresh

\* The keys a request may queue, erase or take off the queue.
Holds(q) ==
    IF q.pc = "check" THEN q.todo
    ELSE IF q.pc \in {"erase", "dequeue"} THEN q.todo \cup {q.key}
    ELSE IF q.pc \in Copying /\ q.kind = "repair" THEN {q.manifest, q.item}
    ELSE {}

\* A key that a row names, or that the garbage queue or a request may erase.
Used(k) ==
    \/ \E s \in Snapshot : k \in {snap[s].manifest, snap[s].item}
    \/ k \in queue
    \/ \E c \in Slot : k \in Holds(reqs[c])

\* A snapshot that is made or is ready: its manifest and its item must stay.
Live(s) == snap[s].status \in {"creating", "ready"}

\* No row, queue or request knows a key that is still to be named.
PendingUnused == \A k \in PartKey : Pending(k) => ~Used(k)
\* Two repairs never write under one fresh key, and what they name is in R2 (or was lost there).
FreshOnes ==
    /\ \A c \in Slot : Fresh(reqs[c]) =>
          /\ reqs[c].fresh \in PartKey /\ reqs[c].fresh[3] \in 1..copies
          /\ reqs[c].fresh \in r2 \cup gone
    /\ \A c, d \in Slot : Fresh(reqs[c]) /\ Fresh(reqs[d]) /\ c # d => reqs[c].fresh # reqs[d].fresh
\* What a request is about to name is written.
StoredAt(q) ==
    LET s == q.snapshot
    IN  /\ q.pc = "finalize" /\ snap[s].status = "creating" => ManifestKey(s, 0) \in r2 \cup gone
        /\ q.pc = "itemrow" /\ Live(s) /\ snap[s].item = None => ItemKey(s, 0) \in r2 \cup gone
\* Every request names only what is written.
Stored == \A c \in Slot : StoredAt(reqs[c])
\* What a request is about to erase is named by no live snapshot.
ErasedAt(q) ==
    q.pc = "erase" => \A s \in Snapshot : Live(s) => q.key \notin {snap[s].manifest, snap[s].item}
\* No request erases what is named.
ErasedUnnamed == \A c \in Slot : ErasedAt(reqs[c])
\* What a live snapshot names is in R2, or was lost there without an erasure of the program's.
NamesKept ==
    \A s \in Snapshot : Live(s) => {snap[s].manifest, snap[s].item} \subseteq r2 \cup gone \cup {None}

\* The inductive invariant behind NamedKept.
KeysFit == PendingUnused /\ FreshOnes /\ Stored /\ ErasedUnnamed /\ NamesKept

-----------------------------------------------------------------------------
(* SnapshotStore: steps of the rows and of the requests *)

\* A set of numbers that is not empty has a least member.
LEMMA LeastNumber ==
    ASSUME NEW S \in SUBSET Nat, S # {}
    PROVE  \E n \in S : \A m \in S : n <= m
<1> DEFINE R == OpToRel(<, Nat)
<1>1. IsWellFoundedOn(R, Nat)
  BY NatLessThanWellFounded
<1>2. PICK n \in S : \A m \in S : ~ (<<m, n>> \in R)
  BY <1>1, WFMin
<1>3. \A m \in S : ~(m < n)
  BY <1>2 DEF OpToRel
<1> QED BY <1>3

\* The least number chosen by Min is a member,
LEMMA MinIn ==
    ASSUME NEW S \in SUBSET Nat, S # {}
    PROVE  Min(S) \in S /\ \A m \in S : Min(S) <= m
<1>1. \E n \in S : \A m \in S : n <= m
  BY LeastNumber
<1> QED BY <1>1 DEF Min

\* and so is the greatest chosen by Max.
LEMMA MaxIn ==
    ASSUME NEW b \in Nat, NEW S \in SUBSET (0..b), S # {}
    PROVE  Max(S) \in S /\ \A m \in S : Max(S) >= m
<1> DEFINE B == {k \in Nat : \A m \in S : m <= k}
<1>1. B \in SUBSET Nat /\ B # {}
  <2>1. b \in B
    OBVIOUS
  <2> QED BY <2>1
<1>2. PICK k \in B : \A j \in B : k <= j
  BY <1>1, LeastNumber
<1>3. k \in S
  <2>1. SUFFICES ASSUME k \notin S PROVE FALSE
    OBVIOUS
  <2>2. PICK m \in S : TRUE
    OBVIOUS
  <2>3. \A j \in S : j < k
    BY <2>1, <1>2
  <2>4. k - 1 \in B
    BY <2>3, <2>2
  <2> QED BY <2>4, <1>2
<1>4. \E n \in S : \A m \in S : n >= m
  BY <1>3, <1>2
<1> QED BY <1>4 DEF Max

\* The number of the next object to be made belongs to no object made so far.
LEMMA NextFree ==
    ASSUME NEW b \in Nat, NEW S \in SUBSET (1..b), Max(S \cup {0}) + 1 \in 1..b
    PROVE  Max(S \cup {0}) + 1 \notin S
<1>1. S \cup {0} \in SUBSET (0..b) /\ S \cup {0} # {}
  OBVIOUS
<1>2. Max(S \cup {0}) \in 0..b /\ \A m \in S : Max(S \cup {0}) >= m
  BY <1>1, MaxIn
<1> QED BY <1>2

\* What the constants and the empty rows are.
LEMMA Shapes ==
    ASSUME NEW q \in Req
    PROVE  /\ q.pc = "insert" => q \in StartReq
           /\ q.pc \in {"stage", "select"} => q \in StageReq
           /\ q.pc \in {"find", "attach", "item", "itemrow", "count"} => q \in CaptureReq
           /\ q.pc \in {"create", "put", "complete"} => q \in CaptureReq \cup RepairReq
           /\ q.pc = "tally" => q \in TallyReq
           /\ q.pc = "cleanup" => q \in MaintainReq
           /\ q.pc \in {"progress", "manifest", "finalize"} => q \in PublishReq
           /\ q.pc \in {"queue", "delete", "rows"} => q \in RetainReq
           /\ q.pc = "check" => q \in SweepReq
           /\ q.pc \in {"erase", "dequeue"} => q \in EraseReq
           /\ q.pc \in {"fixmanifest", "newmanifest", "fixnote", "relink", "fixitem", "newitem",
                        "verify"} => q \in RepairReq
           /\ q.pc \in {"backup", "encrypt"} => q \in BackupReq
  BY DEF Req, Idle, StartReq, StageReq, CaptureReq, TallyReq, PublishReq, MaintainReq, RetainReq,
         SweepReq, EraseReq, RepairReq, BackupReq

\* Moving one request leaves the others in their types.
LEMMA ReqPut ==
    ASSUME RowsFit, NEW c \in Slot, NEW q \in Req, reqs' = [reqs EXCEPT ![c] = q]
    PROVE  /\ reqs' \in [Slot -> Req] /\ reqs'[c] = q
           /\ \A d \in Slot \ {c} : reqs'[d] = reqs[d]
  BY DEF RowsFit

\* An idle slot promises nothing.
LEMMA IdleFits == Idle \in Req /\ Idle.pc = "idle" /\ ReqFits(Idle) /\ ReqFits(Idle)'
  <1>1. Idle \in Req /\ Idle.pc = "idle"
    BY DEF Req, Idle
  <1> QED BY <1>1 DEF ReqFits, StartFits, FinalFits, CopyFits, ObjectFits, ReplaceFits, RelinkFits,
                     TodoFits, Copying

\* A step that leaves the rows of snapshots and objects alone.
SnapshotStill == UNCHANGED <<snap, sealed>>
\* A step that leaves R2, the garbage queue and the recipient alone.
TheRest == UNCHANGED <<stored, queued, keys>>

\* Unchanged rows take legal steps.
LEMMA StillSteps ==
    ASSUME SnapshotsFit, UNCHANGED <<snap, sealed>>
    PROVE  SnapStep /\ ObjStep /\ EntStep
  <1>1. SnapStep
    BY DEF SnapStep
  <1>2. ObjStep
    BY DEF ObjStep
  <1>3. EntStep
    BY DEF EntStep, SnapshotsFit, EntriesFit, Row
  <1> QED BY <1>1, <1>2, <1>3

\* A step that changes no row of a snapshot or object keeps what does not depend on them.
LEMMA RowPut ==
    ASSUME SnapshotsFit, NEW s \in Snapshot, NEW row \in SnapshotRow, Kept(snap[s], row),
           snap' = [snap EXCEPT ![s] = row], sealed' = sealed,
           row.entry \in {None, snap[s].entry} \/
              (row.entry \in Row /\ OfOne(row.entry, snap[s].recipient, snap[s].content))
    PROVE  /\ snap' \in [Snapshot -> SnapshotRow] /\ SnapStep /\ ObjStep /\ EntStep
           /\ snap'[s] = row /\ \A t \in Snapshot \ {s} : snap'[t] = snap[t]
  <1>1. snap \in [Snapshot -> SnapshotRow]
    BY DEF SnapshotsFit, RowsFit
  <1>2. /\ snap' \in [Snapshot -> SnapshotRow]
        /\ snap'[s] = row /\ \A t \in Snapshot \ {s} : snap'[t] = snap[t]
    BY <1>1
  <1>3. SnapStep
    BY <1>2 DEF SnapStep
  <1>4. ObjStep
    BY DEF ObjStep
  <1>5. EntStep
    BY <1>2 DEF EntStep, SnapshotsFit, EntriesFit, Row
  <1> QED BY <1>2, <1>3, <1>4, <1>5

\* Requests keep what they were promised when rows change legally.
LEMMA ReqsStill ==
    ASSUME SnapshotsFit, RowsFit', SnapStep, ObjStep, NEW q \in Req, ReqFits(q)
    PROVE  ReqFits(q)'
  <1>0. snap \in [Snapshot -> SnapshotRow] /\ snap' \in [Snapshot -> SnapshotRow]
    BY DEF SnapshotsFit, RowsFit
  <1>1. StartFits(q)'
    <2>1. q.pc \in {"stage", "select", "tally", "progress", "manifest", "finalize"} =>
             q.snapshot \in Snapshot
      BY Shapes DEF StageReq, TallyReq, PublishReq
    <2> QED BY <2>1 DEF ReqFits, StartFits, SnapStep, Inserted, Deleted, Kept, NoSnapshot
  <1>2. FinalFits(q)'
    <2>1. q.pc = "finalize" => q.snapshot \in Snapshot
      BY Shapes DEF PublishReq
    <2>2. SUFFICES ASSUME q.pc = "finalize", snap'[q.snapshot].status = "creating"
                   PROVE  Publishable(q.snapshot)'
      BY DEF FinalFits
    <2>3. snap[q.snapshot].status # "none"
      BY <2>2 DEF ReqFits, StartFits
    <2>4. PICK s \in Snapshot : s = q.snapshot
      BY <2>1, <2>2
    <2>5. snap'[s] = snap[s] \/ Kept(snap[s], snap'[s])
      BY <2>2, <2>3, <2>4 DEF SnapStep, Inserted, Deleted, NoSnapshot
    <2>6. snap[s].status = "creating"
      BY <2>5, <2>2, <2>4 DEF Kept
    <2>7. snap[s].staged /\ snap[s].entry # None
      BY <2>6, <2>2, <2>4 DEF ReqFits, FinalFits, Publishable
    <2> QED BY <2>7, <2>5, <2>2, <2>4 DEF Kept, Publishable
  <1>3. CopyFits(q)'
    <2>1. q.pc \in Copying => q.snapshot \in Snapshot
      BY Shapes DEF CaptureReq, RepairReq, Copying
    <2> QED BY <2>1 DEF ReqFits, CopyFits, SnapStep, Inserted, Deleted, Kept, NoSnapshot
  <1>4. ObjectFits(q)'
    BY DEF ReqFits, ObjectFits, ObjStep, OfOne
  <1>5. ReplaceFits(q)'
    BY DEF ReqFits, ReplaceFits, ObjStep, OfOne
  <1>6. RelinkFits(q)' /\ TodoFits(q)'
    BY DEF ReqFits, RelinkFits, TodoFits
  <1> QED BY <1>1, <1>2, <1>3, <1>4, <1>5, <1>6 DEF ReqFits

\* A step that keeps the types and moves every row legally.
Moved == RowsFit' /\ SnapStep /\ ObjStep /\ EntStep

\* Legal steps of the rows keep what the invariant says of rows.
LEMMA SnapshotsKept ==
    ASSUME SnapshotsFit, Moved, 
           \A c \in Slot : reqs'[c] = reqs[c] \/ ReqFits(reqs[c])'
    PROVE  SnapshotsFit'
  <1>0. /\ snap \in [Snapshot -> SnapshotRow] /\ snap' \in [Snapshot -> SnapshotRow]
        /\ SnapStep /\ ObjStep /\ EntStep /\ RowsFit' /\ sealed' \in [Object -> ObjectRow]
    BY DEF SnapshotsFit, RowsFit, Moved
  <1>1. NothingLeft'
    <2>1. SUFFICES ASSUME NEW s \in Snapshot, snap'[s].status \in {"none", "deleted"}
                   PROVE  /\ ~snap'[s].staged /\ ~snap'[s].selected /\ snap'[s].entry = None
                          /\ snap'[s].item = None /\ snap'[s].manifest = None
      BY DEF NothingLeft
    <2>2. CASE snap'[s] = snap[s]
      BY <2>1, <2>2 DEF SnapshotsFit, NothingLeft
    <2>3. CASE Inserted(s)
      BY <2>1, <2>3 DEF Inserted, NoSnapshot
    <2>4. CASE Deleted(s)
      BY <2>4 DEF Deleted, NoSnapshot
    <2>5. CASE Kept(snap[s], snap'[s])
      BY <2>1, <2>5 DEF Kept
    <2> QED BY <1>0, <2>2, <2>3, <2>4, <2>5 DEF SnapStep
  <1>2. ReadyHas'
    <2>1. SUFFICES ASSUME NEW s \in Snapshot, snap'[s].status = "ready"
                   PROVE  snap'[s].staged /\ snap'[s].entry # None /\ snap'[s].manifest # None
      BY DEF ReadyHas, Ready
    <2>2. snap'[s] = snap[s] \/ Kept(snap[s], snap'[s])
      BY <1>0, <2>1 DEF SnapStep, Inserted, Deleted, NoSnapshot
    <2> QED BY <2>1, <2>2 DEF SnapshotsFit, ReadyHas, Ready, Kept
  <1>3. EntriesFit'
    <2>1. SUFFICES ASSUME NEW s \in Snapshot, snap'[s].entry # None
                   PROVE  /\ (snap[s].entry \in Row)'
                          /\ OfOne(snap[s].entry, snap[s].recipient, snap[s].content)'
      BY DEF EntriesFit
    <2>2. snap'[s] = snap[s] \/ Kept(snap[s], snap'[s])
      BY <1>0, <2>1 DEF SnapStep, Inserted, Deleted, NoSnapshot
    <2>3. snap'[s].recipient = snap[s].recipient /\ snap'[s].content = snap[s].content
      BY <2>2 DEF Kept
    <2>4. snap'[s].entry \in Object /\ OfOne(snap'[s].entry, snap[s].recipient, snap[s].content)
      <3>1. CASE snap[s].entry = snap'[s].entry
        BY <3>1, <2>1 DEF SnapshotsFit, EntriesFit, Row
      <3>2. CASE snap[s].entry # snap'[s].entry
        BY <3>2, <2>1, <1>0 DEF EntStep
      <3> QED BY <3>1, <3>2
    <2>5. sealed'[snap'[s].entry].status \in {"creating", "ready", "failed"}
      BY <1>0, <2>1 DEF EntStep
    <2> QED BY <2>3, <2>4, <2>5, <1>0 DEF ObjStep, OfOne, Row
  <1>4. ReqsFit'
    <2>1. SUFFICES ASSUME NEW c \in Slot PROVE ReqFits(reqs[c])'
      BY DEF ReqsFit
    <2>2. CASE reqs'[c] = reqs[c]
      <3>1. reqs[c] \in Req /\ ReqFits(reqs[c])
        BY DEF SnapshotsFit, RowsFit, ReqsFit
      <3>2. PICK q \in Req : q = reqs[c] /\ ReqFits(q)
        BY <3>1
      <3>3. ReqFits(q)'
        BY <1>0, <3>2, ReqsStill
      <3> QED BY <3>2, <3>3, <2>2
    <2> QED BY <2>2, <2>1
  <1> QED BY <1>0, <1>1, <1>2, <1>3, <1>4 DEF SnapshotsFit

\* What the rest of the state must be after a step.
Others ==
    /\ r2' \subseteq Key /\ gone' \subseteq Key /\ copies' \in Nat
    /\ queue' \subseteq Key /\ aged' \subseteq queue' /\ recipient' \in Recipient
    /\ backup' \in [status : {"none", "creating", "ready", "failed"},
                    recipient : Recipient \cup {None}]

\* A step that changes only requests leaves the rest in its types.
LEMMA OthersStill ==
    ASSUME SnapshotsFit, UNCHANGED <<stored, queued, keys>>
    PROVE  Others
  BY DEF SnapshotsFit, RowsFit, Others, stored, queued, keys

\* What each action is to be shown: the invariant again, and legal steps of the rows.
StepFits == SnapshotsFit' /\ SnapStep

\* A step that puts a request where it belongs keeps all the parts.
LEMMA Stepped ==
    ASSUME SnapshotsFit, NEW c \in Slot, NEW q \in Req, ReqFits(q),
           reqs' = [reqs EXCEPT ![c] = q],
           snap' \in [Snapshot -> SnapshotRow], sealed' \in [Object -> ObjectRow], Others,
           SnapStep, ObjStep, EntStep
    PROVE  StepFits
  <1>1. /\ reqs' \in [Slot -> Req] /\ reqs'[c] = q
        /\ \A d \in Slot \ {c} : reqs'[d] = reqs[d]
    BY ReqPut DEF SnapshotsFit
  <1>2. RowsFit'
    BY <1>1 DEF RowsFit, Others
  <1>3. ReqFits(q)'
    BY <1>2, ReqsStill
  <1>4. \A d \in Slot : reqs'[d] = reqs[d] \/ ReqFits(reqs[d])'
    BY <1>1, <1>3
  <1> QED BY <1>2, <1>4, SnapshotsKept DEF Moved, StepFits

\* An action that moves one request and no row.
LEMMA StillStepped ==
    ASSUME SnapshotsFit, NEW c \in Slot, NEW q \in Req, ReqFits(q),
           reqs' = [reqs EXCEPT ![c] = q], UNCHANGED <<snap, sealed>>, Others
    PROVE  StepFits
  <1>1. snap' \in [Snapshot -> SnapshotRow] /\ sealed' \in [Object -> ObjectRow]
    BY DEF SnapshotsFit, RowsFit
  <1> QED BY <1>1, StillSteps, Stepped

\* A slot that becomes idle promises nothing.
LEMMA FreeFits ==
    ASSUME NEW q, q.pc \in {"idle", "insert", "retain", "cleanup", "sweep", "check", "erase",
                            "dequeue", "backup", "encrypt"}
    PROVE  ReqFits(q)
  BY DEF ReqFits, StartFits, FinalFits, CopyFits, ObjectFits, ReplaceFits, RelinkFits,
         TodoFits, Copying

\* A request that ends promises nothing.
LEMMA DoneFits ==
    ASSUME SnapshotsFit, NEW c \in Slot, Done(c), UNCHANGED <<snap, sealed>>, Others
    PROVE  StepFits
  BY IdleFits, StillStepped DEF Done

\* The request in a slot.
LEMMA ReqHere ==
    ASSUME SnapshotsFit, NEW c \in Slot
    PROVE  reqs[c] \in Req /\ ReqFits(reqs[c])
  BY DEF SnapshotsFit, RowsFit, ReqsFit

\* Going on keeps the fields a request holds.
LEMMA Going ==
    ASSUME NEW c, NEW p, Goto(c, p)
    PROVE  reqs' = [reqs EXCEPT ![c] = [reqs[c] EXCEPT !.pc = p]]
  BY DEF Goto

-----------------------------------------------------------------------------
(* Each action keeps the rows *)

\* A snapshot's start reaches the server.
LEMMA BeginStartKeeps ==
    ASSUME SnapshotsFit, NEW c \in Slot, BeginStart(c)
    PROVE  StepFits
<1> DEFINE q == [pc |-> "insert", recipient |-> recipient]
<1>1. q \in StartReq /\ q.pc = "insert"
  BY DEF SnapshotsFit, RowsFit, StartReq
<1>2. q \in Req /\ ReqFits(q)
  BY <1>1, FreeFits DEF Req
<1>3. reqs' = [reqs EXCEPT ![c] = q] /\ UNCHANGED <<snap, sealed>> /\ Others
  BY OthersStill DEF BeginStart, Begin, rows
<1> HIDE DEF q
<1> QED BY <1>2, <1>3, StillStepped

\* Capture is continued, with the rows it finds.
LEMMA BeginContinueKeeps ==
    ASSUME SnapshotsFit, NEW c \in Slot, NEW s \in Snapshot, BeginContinue(c, s)
    PROVE  StepFits
<1> DEFINE p == IF snap[s].staged /\ snap[s].entry = None THEN "find" ELSE "item"
           q == [pc |-> p, kind |-> "continue", snapshot |-> s, recipient |-> recipient,
                 note |-> snap[s].content, object |-> None]
<1>0. p \in {"find", "item"}
  OBVIOUS
<1>1. q \in CaptureReq
  BY <1>0 DEF SnapshotsFit, RowsFit, CaptureReq, SnapshotRow
<1>2. q \in Req
  BY <1>1 DEF Req
<1>3. ReqFits(q)
  BY <1>0 DEF ReqFits, StartFits, FinalFits, CopyFits, ObjectFits, ReplaceFits, RelinkFits,
         TodoFits, Copying, BeginContinue
<1>4. reqs' = [reqs EXCEPT ![c] = q] /\ UNCHANGED <<snap, sealed>> /\ Others
  BY OthersStill DEF BeginContinue, Begin, rows
<1> HIDE DEF q
<1> QED BY <1>2, <1>3, <1>4, StillStepped

\* Intelligence items still to be made are counted.
LEMMA CountItemsKeeps ==
    ASSUME SnapshotsFit, NEW c \in Slot, CountItems(c)
    PROVE  StepFits
<1> DEFINE s == reqs[c].snapshot
           q == [pc |-> "tally", snapshot |-> s, lacking |-> Lacking(s)]
<1>1. reqs[c] \in CaptureReq /\ ReqFits(reqs[c])
  BY ReqHere, Shapes DEF CountItems
<1>2. s \in Snapshot /\ Lacking(s) \in BOOLEAN
  BY <1>1 DEF CaptureReq, Lacking, SnapshotsFit, RowsFit, SnapshotRow
<1>3. q \in Req
  BY <1>2 DEF Req, TallyReq
<1>4. snap[s].status # "none"
  BY <1>1 DEF ReqFits, CopyFits, Copying, CountItems
<1>5. ReqFits(q)
  BY <1>4 DEF ReqFits, StartFits, FinalFits, CopyFits, ObjectFits, ReplaceFits, RelinkFits,
         TodoFits, Copying
<1>6. reqs' = [reqs EXCEPT ![c] = q] /\ UNCHANGED <<snap, sealed>> /\ Others
  BY OthersStill DEF CountItems, rows
<1> HIDE DEF q
<1> QED BY <1>3, <1>5, <1>6, StillStepped

\* Entries still without an object are counted.
LEMMA CountEntriesKeeps ==
    ASSUME SnapshotsFit, NEW c \in Slot, CountEntries(c)
    PROVE  StepFits
<1> DEFINE s == reqs[c].snapshot
           has == snap[s].entry # None
           all == (snap[s].staged => has) /\ ~reqs[c].lacking
           q == [pc |-> "progress", snapshot |-> s, processed |-> IF has THEN 1 ELSE 0,
                 all |-> all]
<1>1. reqs[c] \in TallyReq /\ ReqFits(reqs[c])
  BY ReqHere, Shapes DEF CountEntries
<1>2. s \in Snapshot /\ (IF has THEN 1 ELSE 0) \in 0..1
  BY <1>1 DEF TallyReq
<1>3. all \in BOOLEAN
  OBVIOUS
<1>4. q \in PublishReq
  BY <1>2, <1>3 DEF PublishReq
<1>5. snap[s].status # "none"
  BY <1>1 DEF ReqFits, StartFits, CountEntries
<1>6. ReqFits(q)
  BY <1>5 DEF ReqFits, StartFits, FinalFits, CopyFits, ObjectFits, ReplaceFits, RelinkFits,
         TodoFits, Copying
<1>7. reqs' = [reqs EXCEPT ![c] = q] /\ UNCHANGED <<snap, sealed>> /\ Others
  BY OthersStill DEF CountEntries, rows
<1>8. q \in Req
  BY <1>4 DEF Req
<1> HIDE DEF q
<1> QED BY <1>8, <1>6, <1>7, StillStepped

\* A retention run, a cleanup or a collection begins.
LEMMA MaintenanceBegins ==
    ASSUME SnapshotsFit, NEW c \in Slot, BeginRetention(c) \/ BeginCron(c) \/ BeginBackup(c)
    PROVE  StepFits
<1>1. /\ [pc |-> "retain"] \in Req /\ [pc |-> "cleanup"] \in Req
      /\ [pc |-> "backup", recipient |-> recipient] \in Req
  BY DEF Req, MaintainReq, BackupReq, SnapshotsFit, RowsFit
<1>2. PICK q \in {[pc |-> "retain"], [pc |-> "cleanup"], [pc |-> "backup", recipient |-> recipient]} :
         reqs' = [reqs EXCEPT ![c] = q]
  BY DEF BeginRetention, BeginCron, BeginBackup, Begin
<1>3. q \in Req /\ ReqFits(q)
  BY <1>1, <1>2, FreeFits
<1>4. UNCHANGED <<snap, sealed>> /\ Others
  BY OthersStill DEF BeginRetention, BeginCron, BeginBackup, rows
<1> QED BY <1>2, <1>3, <1>4, StillStepped

\* The snapshots in excess are chosen.
LEMMA RetainKeeps ==
    ASSUME SnapshotsFit, NEW c \in Slot, Retain(c)
    PROVE  StepFits
<1>1. PICK chosen \in Selections :
         reqs' = [reqs EXCEPT ![c] = [pc |-> IF chosen = {} THEN "sweep" ELSE "queue",
                                      todo |-> chosen]]
  BY DEF Retain
<1> DEFINE q == [pc |-> IF chosen = {} THEN "sweep" ELSE "queue", todo |-> chosen]
<1>2. chosen \in SUBSET Snapshot
  BY <1>1 DEF Selections, Excess, Ready
<1>3. q \in Req
  BY <1>2 DEF Req, RetainReq
<1>4. ReqFits(q)
  BY DEF ReqFits, StartFits, FinalFits, CopyFits, ObjectFits, ReplaceFits, RelinkFits,
         TodoFits, Copying
<1>5. UNCHANGED <<snap, sealed>> /\ Others
  BY OthersStill DEF Retain, rows
<1>6. reqs' = [reqs EXCEPT ![c] = q]
  BY <1>1
<1> HIDE DEF q
<1> QED BY <1>6, <1>3, <1>4, <1>5, StillStepped

\* The queue's aged keys are listed.
LEMMA SweepKeeps ==
    ASSUME SnapshotsFit, NEW c \in Slot, Sweep(c)
    PROVE  StepFits
<1> DEFINE q == IF aged = {} THEN Idle ELSE [pc |-> "check", todo |-> aged]
<1>1. [pc |-> "check", todo |-> aged] \in Req
  BY DEF SnapshotsFit, RowsFit, Req, SweepReq
<1>2. q \in Req /\ q.pc \in {"idle", "check"}
  BY <1>1, IdleFits
<1>3. ReqFits(q)
  BY <1>2, FreeFits
<1>4. reqs' = [reqs EXCEPT ![c] = q] /\ UNCHANGED <<snap, sealed>> /\ Others
  BY OthersStill DEF Sweep, rows
<1> HIDE DEF q
<1> QED BY <1>2, <1>3, <1>4, StillStepped

\* A listed key is checked for references.
LEMMA CheckKeeps ==
    ASSUME SnapshotsFit, NEW c \in Slot, NEW k, Check(c, k)
    PROVE  StepFits
<1> DEFINE p == IF Referenced(k) THEN "dequeue" ELSE "erase"
           q == [pc |-> p, key |-> k, todo |-> reqs[c].todo \ {k}]
<1>1. reqs[c] \in SweepReq
  BY ReqHere, Shapes DEF Check
<1>2. p \in {"dequeue", "erase"}
  OBVIOUS
<1> HIDE DEF p
<1>3. q \in EraseReq
  BY <1>1, <1>2 DEF SweepReq, EraseReq, Check
<1>4. q \in Req /\ ReqFits(q)
  BY <1>3, <1>2, FreeFits DEF Req
<1>5. reqs' = [reqs EXCEPT ![c] = q] /\ UNCHANGED <<snap, sealed>> /\ Others
  BY OthersStill DEF Check, rows, p
<1> HIDE DEF q
<1> QED BY <1>4, <1>5, StillStepped

\* What NextKey leads to.
LEMMA NextKeyFits ==
    ASSUME SnapshotsFit, NEW c \in Slot, reqs[c] \in EraseReq, NextKey(c)
    PROVE  \E q \in Req : ReqFits(q) /\ reqs' = [reqs EXCEPT ![c] = q]
<1>1. [pc |-> "check", todo |-> reqs[c].todo] \in Req
  BY DEF Req, SweepReq, EraseReq
<1>2. /\ (IF reqs[c].todo = {} THEN Idle ELSE [pc |-> "check", todo |-> reqs[c].todo]) \in Req
      /\ (IF reqs[c].todo = {} THEN Idle ELSE [pc |-> "check", todo |-> reqs[c].todo]).pc
         \in {"idle", "check"}
  BY <1>1, IdleFits
<1> QED BY <1>2, FreeFits DEF NextKey

\* A key is erased, or taken off the queue.
LEMMA EraseKeeps ==
    ASSUME SnapshotsFit, NEW c \in Slot, Erase(c) \/ EraseFails(c) \/ Dequeue(c)
    PROVE  StepFits
<1>1. reqs[c] \in EraseReq
  BY ReqHere, Shapes DEF Erase, EraseFails, Dequeue
<1>2. UNCHANGED <<snap, sealed>> /\ Others
  BY DEF Erase, EraseFails, Dequeue, rows, Others, SnapshotsFit, RowsFit, stored, queued, keys
<1>3. \E q \in Req : ReqFits(q) /\ reqs' = [reqs EXCEPT ![c] = q]
  <2>1. CASE Erase(c)
    <3>1. [reqs[c] EXCEPT !.pc = "dequeue"] \in EraseReq
      BY <1>1 DEF EraseReq
    <3>2. PICK q \in EraseReq : q = [reqs[c] EXCEPT !.pc = "dequeue"]
      BY <3>1
    <3>3. q \in Req /\ q.pc = "dequeue"
      BY <3>2, <1>1 DEF Req, EraseReq
    <3>4. reqs' = [reqs EXCEPT ![c] = q]
      BY <2>1, <3>2, Going DEF Erase
    <3>5. ReqFits(q)
      BY <3>3, FreeFits
    <3> QED BY <3>3, <3>4, <3>5
  <2>2. CASE EraseFails(c) \/ Dequeue(c)
    BY <2>2, <1>1, NextKeyFits DEF EraseFails, Dequeue
  <2> QED BY <2>1, <2>2
<1> QED BY <1>2, <1>3, StillStepped

\* A repair begins, with the row it reads.
LEMMA BeginRepairKeeps ==
    ASSUME SnapshotsFit, NEW c \in Slot, NEW s \in Snapshot, BeginRepair(c, s)
    PROVE  StepFits
<1> DEFINE q == [pc |-> "fixmanifest", kind |-> "repair", snapshot |-> s,
                 recipient |-> recipient, note |-> snap[s].content, object |-> None,
                 fresh |-> None, manifest |-> snap[s].manifest, item |-> None, entry |-> None]
<1>1. q \in RepairReq
  BY DEF SnapshotsFit, RowsFit, RepairReq, SnapshotRow, Name
<1>2. q \in Req
  BY <1>1 DEF Req
<1>3. ReqFits(q)
  BY DEF ReqFits, StartFits, FinalFits, CopyFits, ObjectFits, ReplaceFits, RelinkFits,
         TodoFits, Copying, BeginRepair
<1>4. reqs' = [reqs EXCEPT ![c] = q] /\ UNCHANGED <<snap, sealed>> /\ Others
  BY OthersStill DEF BeginRepair, Begin, rows
<1> HIDE DEF q
<1> QED BY <1>2, <1>3, <1>4, StillStepped

\* A request that only goes on, keeping what it is.
LEMMA Onward ==
    ASSUME SnapshotsFit, NEW c \in Slot, NEW p, Goto(c, p), UNCHANGED <<snap, sealed>>, Others,
           [reqs[c] EXCEPT !.pc = p] \in Req, ReqFits([reqs[c] EXCEPT !.pc = p])
    PROVE  StepFits
<1>1. PICK q \in Req : q = [reqs[c] EXCEPT !.pc = p] /\ ReqFits(q)
  OBVIOUS
<1>2. reqs' = [reqs EXCEPT ![c] = q]
  BY <1>1, Going
<1> QED BY <1>1, <1>2, StillStepped

\* An object is written to R2.
LEMMA PutObjectKeeps ==
    ASSUME SnapshotsFit, NEW c \in Slot, PutObject(c)
    PROVE  StepFits
<1>1. reqs[c] \in CaptureReq \cup RepairReq /\ ReqFits(reqs[c]) /\ reqs[c].pc = "put"
  BY ReqHere, Shapes DEF PutObject
<1>2. reqs[c].object \in Object
  BY <1>1 DEF ReqFits, ObjectFits
<1>3. ObjectKey(reqs[c].object) \in Key
  BY <1>2 DEF Key, ObjectKey
<1>4. UNCHANGED <<snap, sealed>> /\ Others
  BY <1>3 DEF PutObject, rows, Others, SnapshotsFit, RowsFit, queued, keys
<1>5. [reqs[c] EXCEPT !.pc = "complete"] \in Req
  BY <1>1 DEF Req, CaptureReq, RepairReq
<1>6. ReqFits([reqs[c] EXCEPT !.pc = "complete"])
  BY <1>1 DEF ReqFits, StartFits, FinalFits, CopyFits, ObjectFits, ReplaceFits, RelinkFits,
         TodoFits, Copying, CaptureReq, RepairReq
<1> QED BY <1>4, <1>5, <1>6, Onward DEF PutObject

\* An item is written to R2.
LEMMA PutItemKeeps ==
    ASSUME SnapshotsFit, NEW c \in Slot, PutItem(c)
    PROVE  StepFits
<1>1. reqs[c] \in CaptureReq /\ ReqFits(reqs[c]) /\ reqs[c].pc = "item"
  BY ReqHere, Shapes DEF PutItem
<1>2. ItemKey(reqs[c].snapshot, 0) \in Key
  BY <1>1 DEF CaptureReq, ItemKey, Key, PartKey
<1>3. UNCHANGED <<snap, sealed>> /\ Others
  BY <1>2 DEF PutItem, PutOnce, rows, Others, SnapshotsFit, RowsFit, queued, keys
<1>4. ASSUME NEW p \in {"count", "itemrow"}
      PROVE  [reqs[c] EXCEPT !.pc = p] \in Req /\ ReqFits([reqs[c] EXCEPT !.pc = p])
  <2>1. [reqs[c] EXCEPT !.pc = p] \in Req
    BY <1>1 DEF Req, CaptureReq
  <2>2. ReqFits([reqs[c] EXCEPT !.pc = p])
    BY <1>1 DEF ReqFits, StartFits, FinalFits, CopyFits, ObjectFits, ReplaceFits, RelinkFits,
           TodoFits, Copying, CaptureReq
  <2> QED BY <2>1, <2>2
<1>5. Goto(c, "count") \/ Goto(c, "itemrow") \/ Done(c)
  BY DEF PutItem
<1> QED BY <1>3, <1>4, <1>5, Onward, DoneFits

\* A manifest is written to R2.
LEMMA PutManifestKeeps ==
    ASSUME SnapshotsFit, NEW c \in Slot, PutManifest(c)
    PROVE  StepFits
<1>1. reqs[c] \in PublishReq /\ ReqFits(reqs[c]) /\ reqs[c].pc = "manifest"
  BY ReqHere, Shapes DEF PutManifest
<1>2. ManifestKey(reqs[c].snapshot, 0) \in Key
  BY <1>1 DEF PublishReq, ManifestKey, Key, PartKey
<1>3. UNCHANGED <<snap, sealed>> /\ Others
  BY <1>2 DEF PutManifest, PutOnce, rows, Others, SnapshotsFit, RowsFit, queued, keys
<1>4. CASE Publishable(reqs[c].snapshot) /\ Goto(c, "finalize")
  <2>1. [reqs[c] EXCEPT !.pc = "finalize"] \in Req
    BY <1>1 DEF Req, PublishReq
  <2>2. ReqFits([reqs[c] EXCEPT !.pc = "finalize"])
    BY <1>1, <1>4 DEF ReqFits, StartFits, FinalFits, CopyFits, ObjectFits, ReplaceFits, RelinkFits,
           TodoFits, Copying, PublishReq
  <2> QED BY <2>1, <2>2, <1>3, <1>4, Onward
<1>5. CASE Done(c)
  BY <1>5, <1>3, DoneFits
<1> QED BY <1>4, <1>5 DEF PutManifest

\* The next snapshot of a retention run.
LEMMA NextTodo ==
    ASSUME SnapshotsFit, NEW c \in Slot, reqs[c] \in RetainReq, NEW s \in reqs[c].todo,
           reqs' = [reqs EXCEPT ![c].todo = @ \ {s},
                                ![c].pc = IF reqs[c].todo = {s} THEN "sweep" ELSE "queue"]
    PROVE  \E q \in Req : ReqFits(q) /\ reqs' = [reqs EXCEPT ![c] = q]
<1> DEFINE p == IF reqs[c].todo = {s} THEN "sweep" ELSE "queue"
           left == reqs[c].todo \ {s}
<1>1. p \in {"sweep", "queue"} /\ (p = "queue" => left # {})
  OBVIOUS
<1>0. reqs' = [reqs EXCEPT ![c].todo = left, ![c].pc = p]
  OBVIOUS
<1> HIDE DEF p
<1>2. reqs' = [reqs EXCEPT ![c] = [reqs[c] EXCEPT !.todo = left, !.pc = p]]
  BY <1>0, reqs \in [Slot -> Req] DEF SnapshotsFit, RowsFit, RetainReq
<1> DEFINE q == [reqs[c] EXCEPT !.todo = left, !.pc = p]
<1>3. q \in RetainReq
  BY <1>1 DEF RetainReq
<1>4. q.pc = p /\ q.todo = left
  BY DEF RetainReq
<1> HIDE DEF q
<1>5. ReqFits(q)
  BY <1>1, <1>4 DEF ReqFits, StartFits, FinalFits, CopyFits, ObjectFits, ReplaceFits,
         RelinkFits, TodoFits, Copying
<1> QED BY <1>2, <1>3, <1>5 DEF Req, q

\* A snapshot's keys are queued before its rows are deleted.
LEMMA QueueKeysKeeps ==
    ASSUME SnapshotsFit, NEW c \in Slot, QueueKeys(c)
    PROVE  StepFits
<1> DEFINE s == Min(reqs[c].todo)
<1>1. reqs[c] \in RetainReq /\ ReqFits(reqs[c]) /\ reqs[c].pc = "queue"
  BY ReqHere, Shapes DEF QueueKeys
<1>2. reqs[c].todo \in SUBSET Snapshot /\ reqs[c].todo # {}
  BY <1>1 DEF RetainReq, ReqFits, TodoFits
<1>3. s \in Snapshot /\ s \in reqs[c].todo
  BY <1>2, MinIn DEF Snapshot
<1> HIDE DEF s
<1>4. OwnKeys(s) \ {None} \subseteq Key
  BY <1>3 DEF OwnKeys, SnapshotsFit, RowsFit, SnapshotRow, Name, Key, Row, ObjectKey
<1>5. UNCHANGED <<snap, sealed>> /\ Others
  BY <1>4 DEF QueueKeys, rows, Others, SnapshotsFit, RowsFit, stored, keys, queued, s
<1>6. CASE Goto(c, "delete")
  <2>1. [reqs[c] EXCEPT !.pc = "delete"] \in Req
    BY <1>1 DEF Req, RetainReq
  <2>2. ReqFits([reqs[c] EXCEPT !.pc = "delete"])
    BY <1>1, <1>2 DEF ReqFits, StartFits, FinalFits, CopyFits, ObjectFits, ReplaceFits, RelinkFits,
           TodoFits, Copying, RetainReq
  <2> QED BY <2>1, <2>2, <1>5, <1>6, Onward
<1>7. CASE reqs' = [reqs EXCEPT ![c].todo = @ \ {s},
                                  ![c].pc = IF reqs[c].todo = {s} THEN "sweep" ELSE "queue"]
  <2>1. \E q \in Req : ReqFits(q) /\ reqs' = [reqs EXCEPT ![c] = q]
    BY <1>1, <1>2, <1>3, <1>7, NextTodo
  <2> QED BY <2>1, <1>5, StillStepped
<1> QED BY <1>6, <1>7 DEF QueueKeys, s

\* A step that changes one row, and one request.
LEMMA RowStepped ==
    ASSUME SnapshotsFit, NEW c \in Slot, NEW q \in Req, ReqFits(q),
           reqs' = [reqs EXCEPT ![c] = q],
           NEW s \in Snapshot, NEW row \in SnapshotRow, Kept(snap[s], row),
           snap' = [snap EXCEPT ![s] = row], sealed' = sealed, Others,
           row.entry \in {None, snap[s].entry} \/
              (row.entry \in Row /\ OfOne(row.entry, snap[s].recipient, snap[s].content))
    PROVE  StepFits
<1>1. snap' \in [Snapshot -> SnapshotRow] /\ SnapStep /\ ObjStep /\ EntStep
  BY RowPut
<1>2. sealed' \in [Object -> ObjectRow]
  BY DEF SnapshotsFit, RowsFit
<1> QED BY <1>1, <1>2, Stepped

\* A step of the owner, of R2 or of time.
LEMMA ReqsStepped ==
    ASSUME SnapshotsFit, reqs' = reqs, Others, SnapStep, ObjStep, EntStep,
           snap' \in [Snapshot -> SnapshotRow], sealed' \in [Object -> ObjectRow]
    PROVE  StepFits
<1>1. RowsFit'
  BY DEF RowsFit, Others, SnapshotsFit
<1> QED BY <1>1, SnapshotsKept DEF Moved, StepFits

\* The owner cancels a snapshot.
LEMMA CancelKeeps ==
    ASSUME SnapshotsFit, NEW s \in Snapshot, Cancel(s) \/ Pin(s)
    PROVE  StepFits
<1>0. snap[s] \in SnapshotRow /\ sealed' \in [Object -> ObjectRow] /\ reqs' = reqs /\ Others
  BY OthersStill DEF SnapshotsFit, RowsFit, Cancel, Pin
<1>1. \E row \in SnapshotRow : /\ Kept(snap[s], row) /\ row.entry = snap[s].entry
                               /\ snap' = [snap EXCEPT ![s] = row]
  <2>1. CASE Cancel(s)
    <3>1. PICK row \in SnapshotRow : row = [snap[s] EXCEPT !.status = "failed"]
      BY <1>0 DEF SnapshotRow, Status
    <3>2. Kept(snap[s], row) /\ row.entry = snap[s].entry
      BY <1>0, <3>1, <2>1 DEF Kept, Cancel, SnapshotRow
    <3> QED BY <3>1, <3>2, <2>1 DEF Cancel
  <2>2. CASE Pin(s)
    <3>1. [snap[s] EXCEPT !.pinned = ~@] \in SnapshotRow
      BY <1>0 DEF SnapshotRow
    <3>2. PICK row \in SnapshotRow : row = [snap[s] EXCEPT !.pinned = ~@]
      BY <3>1
    <3>3. Kept(snap[s], row) /\ row.entry = snap[s].entry
      BY <1>0, <3>2, <2>2 DEF Kept, Pin, SnapshotRow
    <3> QED BY <3>2, <3>3, <2>2 DEF Pin
  <2> QED BY <2>1, <2>2
<1>2. snap' \in [Snapshot -> SnapshotRow] /\ SnapStep /\ ObjStep /\ EntStep
  BY <1>1, RowPut DEF Cancel, Pin
<1> QED BY <1>0, <1>2, ReqsStepped

\* The notes are staged.
LEMMA StageKeeps ==
    ASSUME SnapshotsFit, NEW c \in Slot, Stage(c)
    PROVE  StepFits
<1> DEFINE s == reqs[c].snapshot
<1>1. reqs[c] \in StageReq /\ ReqFits(reqs[c]) /\ reqs[c].pc = "stage"
  BY ReqHere, Shapes DEF Stage
<1>2. s \in Snapshot /\ snap[s] \in SnapshotRow /\ snap[s].status # "none"
  BY <1>1 DEF StageReq, SnapshotsFit, RowsFit, ReqFits, StartFits
<1>3. sealed' = sealed /\ Others
  BY OthersStill DEF Stage
<1>4. CASE snap[s].status = "deleted"
  BY <1>3, <1>4, DoneFits DEF Stage
<1>5. CASE snap[s].status # "deleted"
  <2>1. PICK row \in SnapshotRow : row = [snap[s] EXCEPT !.staged = TRUE]
    BY <1>2 DEF SnapshotRow
  <2>2. Kept(snap[s], row) /\ row.entry = snap[s].entry
    BY <1>2, <1>5, <2>1 DEF Kept, SnapshotRow
  <2>3. snap' = [snap EXCEPT ![s] = row]
    BY <2>1, <1>5 DEF Stage
  <2>4. [reqs[c] EXCEPT !.pc = "select"] \in Req
    BY <1>1 DEF StageReq, Req
  <2>5. PICK q \in Req : q = [reqs[c] EXCEPT !.pc = "select"]
    BY <2>4
  <2>6. ReqFits(q)
    BY <1>1, <2>5 DEF ReqFits, StartFits, FinalFits, CopyFits, ObjectFits, ReplaceFits,
           RelinkFits, TodoFits, Copying, StageReq
  <2>7. reqs' = [reqs EXCEPT ![c] = q]
    BY <1>5, <2>5, Going DEF Stage
  <2> HIDE DEF s
  <2> QED BY <1>2, <1>3, <2>2, <2>3, <2>6, <2>7, RowStepped
<1> QED BY <1>4, <1>5

\* The intelligence is selected.
LEMMA SelectKeeps ==
    ASSUME SnapshotsFit, NEW c \in Slot, Select(c)
    PROVE  StepFits
<1> DEFINE s == reqs[c].snapshot
<1>1. reqs[c] \in StageReq /\ ReqFits(reqs[c]) /\ reqs[c].pc = "select"
  BY ReqHere, Shapes DEF Select
<1>2. s \in Snapshot /\ snap[s] \in SnapshotRow /\ snap[s].status # "none"
  BY <1>1 DEF StageReq, SnapshotsFit, RowsFit, ReqFits, StartFits
<1>3. sealed' = sealed /\ Others /\ Done(c)
  BY OthersStill DEF Select
<1>4. CASE snap[s].status = "deleted"
  BY <1>3, <1>4, DoneFits DEF Select
<1>5. CASE snap[s].status # "deleted"
  <2>1. PICK row \in SnapshotRow : row = [snap[s] EXCEPT !.selected = TRUE]
    BY <1>2 DEF SnapshotRow
  <2>2. Kept(snap[s], row) /\ row.entry = snap[s].entry
    BY <1>2, <1>5, <2>1 DEF Kept, SnapshotRow
  <2>3. snap' = [snap EXCEPT ![s] = row]
    BY <2>1, <1>5 DEF Select
  <2> HIDE DEF s
  <2> QED BY <1>2, <1>3, <2>2, <2>3, IdleFits, RowStepped DEF Done
<1> QED BY <1>4, <1>5

\* Staging fails, and fails the snapshot.
LEMMA StageFailsKeeps ==
    ASSUME SnapshotsFit, NEW c \in Slot, StageFails(c)
    PROVE  StepFits
<1> DEFINE s == reqs[c].snapshot
<1>1. reqs[c] \in StageReq
  BY ReqHere, Shapes DEF StageFails
<1>2. s \in Snapshot /\ snap[s] \in SnapshotRow /\ snap \in [Snapshot -> SnapshotRow]
  BY <1>1 DEF StageReq, SnapshotsFit, RowsFit
<1>3. sealed' = sealed /\ Others /\ Done(c)
  BY OthersStill DEF StageFails
<1>4. CASE snap[s].status # "creating"
  <2>1. snap' = [snap EXCEPT ![s].status = @]
    BY <1>4 DEF StageFails
  <2>2. [snap[s] EXCEPT !.status = @] = snap[s]
    BY <1>2 DEF SnapshotRow
  <2>3. snap' = snap
    BY <2>1, <2>2, <1>2
  <2> QED BY <1>3, <2>3, DoneFits
<1>5. CASE snap[s].status = "creating"
  <2>1. PICK row \in SnapshotRow : row = [snap[s] EXCEPT !.status = "failed"]
    BY <1>2 DEF SnapshotRow, Status
  <2>2. Kept(snap[s], row) /\ row.entry = snap[s].entry
    BY <1>2, <1>5, <2>1 DEF Kept, SnapshotRow
  <2>3. snap' = [snap EXCEPT ![s] = row]
    BY <2>1, <1>5 DEF StageFails
  <2> HIDE DEF s
  <2> QED BY <1>2, <1>3, <2>2, <2>3, IdleFits, RowStepped DEF Done
<1> QED BY <1>4, <1>5

\* An object is attached to an entry.
LEMMA AttachKeeps ==
    ASSUME SnapshotsFit, NEW c \in Slot, Attach(c)
    PROVE  StepFits
<1> DEFINE s == reqs[c].snapshot
           o == reqs[c].object
           pending == snap[s].staged /\ snap[s].entry = None
<1>1. reqs[c] \in CaptureReq /\ ReqFits(reqs[c]) /\ reqs[c].pc = "attach"
  BY ReqHere, Shapes DEF Attach
<1>2. s \in Snapshot /\ snap[s] \in SnapshotRow /\ snap[s].status # "none" /\ o \in Object
  BY <1>1 DEF CaptureReq, SnapshotsFit, RowsFit, ReqFits, CopyFits, Copying, ObjectFits
<1>3. sealed' = sealed /\ Others
  BY OthersStill DEF Attach
<1>4. PICK q \in Req : q = [reqs[c] EXCEPT !.pc = "item"]
  <2>1. [reqs[c] EXCEPT !.pc = "item"] \in Req
    BY <1>1 DEF CaptureReq, Req
  <2> QED BY <2>1
<1>5. ReqFits(q)
  BY <1>1, <1>4 DEF ReqFits, StartFits, FinalFits, CopyFits, ObjectFits, ReplaceFits,
         RelinkFits, TodoFits, Copying, CaptureReq
<1>6. CASE o \in Row /\ pending
  <2>1. PICK row \in SnapshotRow : row = [snap[s] EXCEPT !.entry = o]
    BY <1>2 DEF SnapshotRow
  <2>2. snap[s].status # "deleted"
    BY <1>2, <1>6 DEF SnapshotsFit, NothingLeft
  <2>3. Kept(snap[s], row) /\ row.entry = o
    BY <1>2, <2>2, <2>1, <1>6 DEF Kept, SnapshotRow
  <2>4. OfOne(o, snap[s].recipient, snap[s].content)
    BY <2>2, <1>1 DEF ReqFits, ObjectFits, CopyFits, Copying
  <2>5. snap' = [snap EXCEPT ![s] = row]
    BY <2>1, <1>6 DEF Attach
  <2>6. reqs' = [reqs EXCEPT ![c] = q]
    BY <1>4, <1>6, Going DEF Attach
  <2> HIDE DEF s, o, pending
  <2>7. row.entry \in Row /\ OfOne(row.entry, snap[s].recipient, snap[s].content)
    BY <2>3, <2>4, <1>6
  <2> QED BY <1>2, <1>3, <1>5, <2>3, <2>5, <2>6, <2>7, RowStepped
<1>7. CASE ~pending
  <2>1. snap' = snap /\ Goto(c, "item")
    BY <1>7 DEF Attach
  <2> QED BY <2>1, <1>3, <1>4, <1>5, Onward
<1>8. CASE o \notin Row /\ pending
  BY <1>8, <1>3, DoneFits DEF Attach
<1> QED BY <1>6, <1>7, <1>8

\* An item is recorded in its row.
LEMMA ItemRowKeeps ==
    ASSUME SnapshotsFit, NEW c \in Slot, ItemRow(c)
    PROVE  StepFits
<1> DEFINE s == reqs[c].snapshot
<1>1. reqs[c] \in CaptureReq /\ ReqFits(reqs[c]) /\ reqs[c].pc = "itemrow"
  BY ReqHere, Shapes DEF ItemRow
<1>2. s \in Snapshot /\ snap[s] \in SnapshotRow /\ snap[s].status # "none"
  BY <1>1 DEF CaptureReq, SnapshotsFit, RowsFit, ReqFits, CopyFits, Copying
<1>3. sealed' = sealed /\ Others
  BY OthersStill DEF ItemRow
<1>4. CASE ~Lacking(s)
  BY <1>3, <1>4, DoneFits DEF ItemRow
<1>5. CASE Lacking(s)
  <2>1. ItemKey(s, 0) \in Name
    BY <1>2 DEF ItemKey, Name, PartKey
  <2>2. PICK row \in SnapshotRow : row = [snap[s] EXCEPT !.item = ItemKey(s, 0)]
    BY <1>2, <2>1 DEF SnapshotRow
  <2>3. snap[s].status # "deleted"
    BY <1>2, <1>5 DEF SnapshotsFit, NothingLeft, Lacking
  <2>4. Kept(snap[s], row) /\ row.entry = snap[s].entry
    BY <1>2, <2>3, <2>2, <1>5 DEF Kept, SnapshotRow, Lacking
  <2>5. snap' = [snap EXCEPT ![s] = row]
    BY <2>2, <1>5 DEF ItemRow
  <2>6. [reqs[c] EXCEPT !.pc = "count"] \in Req
    BY <1>1 DEF CaptureReq, Req
  <2>7. PICK q \in Req : q = [reqs[c] EXCEPT !.pc = "count"]
    BY <2>6
  <2>8. ReqFits(q)
    BY <1>1, <2>7 DEF ReqFits, StartFits, FinalFits, CopyFits, ObjectFits, ReplaceFits,
           RelinkFits, TodoFits, Copying, CaptureReq
  <2>9. reqs' = [reqs EXCEPT ![c] = q]
    BY <1>5, <2>7, Going DEF ItemRow
  <2> HIDE DEF s
  <2> QED BY <1>2, <1>3, <2>4, <2>5, <2>8, <2>9, RowStepped
<1> QED BY <1>4, <1>5

\* Progress is recorded.
LEMMA ProgressKeeps ==
    ASSUME SnapshotsFit, NEW c \in Slot, Progress(c)
    PROVE  StepFits
<1> DEFINE s == reqs[c].snapshot
<1>1. reqs[c] \in PublishReq /\ ReqFits(reqs[c]) /\ reqs[c].pc = "progress"
  BY ReqHere, Shapes DEF Progress
<1>2. s \in Snapshot /\ snap[s] \in SnapshotRow /\ snap[s].status # "none"
  BY <1>1 DEF PublishReq, SnapshotsFit, RowsFit, ReqFits, StartFits
<1>3. sealed' = sealed /\ Others /\ snap \in [Snapshot -> SnapshotRow]
  BY OthersStill DEF Progress, SnapshotsFit, RowsFit
<1>4. CASE snap[s].status # "creating"
  <2>1. snap' = [snap EXCEPT ![s].processed = @] /\ Done(c)
    BY <1>4 DEF Progress
  <2>2. [snap[s] EXCEPT !.processed = @] = snap[s]
    BY <1>2 DEF SnapshotRow
  <2>3. snap' = snap
    BY <2>1, <2>2, <1>2, <1>3
  <2> QED BY <1>3, <2>1, <2>3, DoneFits
<1>5. CASE snap[s].status = "creating"
  <2>1. PICK row \in SnapshotRow : row = [snap[s] EXCEPT !.processed = reqs[c].processed]
    BY <1>1, <1>2 DEF SnapshotRow, PublishReq
  <2>2. Kept(snap[s], row) /\ row.entry = snap[s].entry
    BY <1>2, <1>5, <2>1 DEF Kept, SnapshotRow
  <2>3. snap' = [snap EXCEPT ![s] = row]
    BY <2>1, <1>5 DEF Progress
  <2>4. [reqs[c] EXCEPT !.pc = "manifest"] \in Req
    BY <1>1 DEF PublishReq, Req
  <2>5. PICK q \in Req : q = [reqs[c] EXCEPT !.pc = "manifest"]
    BY <2>4
  <2>6. ReqFits(q)
    BY <1>1, <2>5 DEF ReqFits, StartFits, FinalFits, CopyFits, ObjectFits, ReplaceFits,
           RelinkFits, TodoFits, Copying, PublishReq
  <2>7. CASE Goto(c, "manifest")
    <3>1. reqs' = [reqs EXCEPT ![c] = q]
      BY <2>7, <2>5, Going
    <3> HIDE DEF s
    <3> QED BY <1>2, <1>3, <2>2, <2>3, <2>6, <3>1, RowStepped
  <2>8. CASE Done(c)
    <3> HIDE DEF s
    <3> QED BY <1>2, <1>3, <2>2, <2>3, <2>8, IdleFits, RowStepped DEF Done
  <2> QED BY <2>7, <2>8 DEF Progress
<1> QED BY <1>4, <1>5

\* A complete snapshot is published.
LEMMA FinalizeKeeps ==
    ASSUME SnapshotsFit, NEW c \in Slot, Finalize(c)
    PROVE  StepFits
<1> DEFINE s == reqs[c].snapshot
<1>1. reqs[c] \in PublishReq /\ ReqFits(reqs[c]) /\ reqs[c].pc = "finalize"
  BY ReqHere, Shapes DEF Finalize
<1>2. s \in Snapshot /\ snap[s] \in SnapshotRow
  BY <1>1 DEF PublishReq, SnapshotsFit, RowsFit
<1>3. sealed' = sealed /\ Others
  BY OthersStill DEF Finalize
<1>4. CASE ~Finalizable(s)
  BY <1>3, <1>4, DoneFits DEF Finalize
<1>5. CASE Finalizable(s)
  <2>1. ManifestKey(s, 0) \in Name
    BY <1>2 DEF ManifestKey, Name, PartKey
  <2>2. [snap[s] EXCEPT !.status = "ready", !.integrity = "verified",
                        !.manifest = ManifestKey(s, 0)] \in SnapshotRow
    BY <1>2, <2>1 DEF SnapshotRow, Status
  <2>3. PICK row \in SnapshotRow :
           row = [snap[s] EXCEPT !.status = "ready", !.integrity = "verified",
                                 !.manifest = ManifestKey(s, 0)]
    BY <2>2
  <2>4. snap[s].status = "creating" /\ snap[s].staged /\ snap[s].entry # None
    BY <1>1, <1>5 DEF Finalizable, ReqFits, FinalFits, Publishable
  <2>5. row.manifest # None
    BY <2>3, <1>2, SnapshotAssumption DEF ManifestKey, SnapshotRow
  <2>6. Kept(snap[s], row) /\ row.entry = snap[s].entry
    BY <1>2, <2>3, <2>4, <2>5 DEF Kept, SnapshotRow
  <2>7. snap' = [snap EXCEPT ![s] = row]
    BY <2>3, <1>5 DEF Finalize
  <2>8. [reqs[c] EXCEPT !.pc = "retain"] \in Req
    BY <1>1 DEF PublishReq, Req
  <2>9. PICK q \in Req : q = [reqs[c] EXCEPT !.pc = "retain"]
    BY <2>8
  <2>10. ReqFits(q)
    BY <2>9, <1>1, FreeFits DEF PublishReq
  <2>11. reqs' = [reqs EXCEPT ![c] = q]
    BY <1>5, <2>9, Going DEF Finalize
  <2> HIDE DEF s
  <2> QED BY <1>2, <1>3, <2>6, <2>7, <2>10, <2>11, RowStepped
<1> QED BY <1>4, <1>5

\* A repaired snapshot is verified again.
LEMMA VerifyKeeps ==
    ASSUME SnapshotsFit, NEW c \in Slot, Verify(c)
    PROVE  StepFits
<1> DEFINE s == reqs[c].snapshot
<1>1. reqs[c] \in RepairReq /\ ReqFits(reqs[c]) /\ reqs[c].pc = "verify"
  BY ReqHere, Shapes DEF Verify
<1>2. s \in Snapshot /\ snap[s] \in SnapshotRow
  BY <1>1 DEF RepairReq, SnapshotsFit, RowsFit
<1>3. sealed' = sealed /\ Others
  BY OthersStill DEF Verify
<1>4. CASE snap[s].status # "ready"
  BY <1>3, <1>4, DoneFits DEF Verify
<1>5. CASE snap[s].status = "ready"
  <2>1. PICK row \in SnapshotRow : row = [snap[s] EXCEPT !.integrity = "verified"]
    BY <1>2 DEF SnapshotRow
  <2>2. Kept(snap[s], row) /\ row.entry = snap[s].entry
    BY <1>2, <1>5, <2>1 DEF Kept, SnapshotRow
  <2>3. snap' = [snap EXCEPT ![s] = row]
    BY <2>1, <1>5 DEF Verify
  <2>4. [reqs[c] EXCEPT !.pc = "sweep"] \in Req
    BY <1>1 DEF RepairReq, Req
  <2>5. PICK q \in Req : q = [reqs[c] EXCEPT !.pc = "sweep"]
    BY <2>4
  <2>6. ReqFits(q)
    BY <2>5, <1>1, FreeFits DEF RepairReq
  <2>7. reqs' = [reqs EXCEPT ![c] = q]
    BY <1>5, <2>5, Going DEF Verify
  <2> HIDE DEF s
  <2> QED BY <1>2, <1>3, <2>2, <2>3, <2>6, <2>7, RowStepped
<1> QED BY <1>4, <1>5

\* A snapshot found degraded: its row keeps what the other parts rely on.
LEMMA DegradedRow ==
    ASSUME SnapshotsFit, NEW s \in Snapshot, snap[s].status # "none", snap' = Degraded(s)
    PROVE  \/ snap' = snap
           \/ \E row \in SnapshotRow : /\ Kept(snap[s], row) /\ row.entry = snap[s].entry
                                       /\ snap' = [snap EXCEPT ![s] = row]
<1>1. snap[s] \in SnapshotRow /\ snap \in [Snapshot -> SnapshotRow]
  BY DEF SnapshotsFit, RowsFit
<1>2. CASE snap[s].status = "ready"
  <2>1. PICK row \in SnapshotRow : row = [snap[s] EXCEPT !.integrity = "degraded"]
    BY <1>1 DEF SnapshotRow
  <2>2. Kept(snap[s], row) /\ row.entry = snap[s].entry
    BY <1>1, <1>2, <2>1 DEF Kept, SnapshotRow
  <2>3. snap' = [snap EXCEPT ![s] = row]
    BY <2>1, <1>2 DEF Degraded
  <2> QED BY <2>2, <2>3
<1>3. CASE snap[s].status # "ready"
  <2>1. snap' = [snap EXCEPT ![s].integrity = @]
    BY <1>3 DEF Degraded
  <2>2. [snap[s] EXCEPT !.integrity = @] = snap[s]
    BY <1>1 DEF SnapshotRow
  <2> QED BY <2>1, <2>2, <1>1
<1> QED BY <1>2, <1>3

\* Finding a snapshot degraded is a legal step.
LEMMA DegradedStepped ==
    ASSUME SnapshotsFit, NEW c \in Slot, NEW q \in Req, ReqFits(q),
           reqs' = [reqs EXCEPT ![c] = q], NEW s \in Snapshot, snap[s].status # "none",
           snap' = Degraded(s), sealed' = sealed, Others
    PROVE  StepFits
<1>1. CASE snap' = snap
  BY <1>1, StillStepped
<1>2. CASE snap' # snap
  <2>1. PICK row \in SnapshotRow : /\ Kept(snap[s], row) /\ row.entry = snap[s].entry
                                   /\ snap' = [snap EXCEPT ![s] = row]
    BY <1>2, DegradedRow
  <2> QED BY <2>1, RowStepped
<1> QED BY <1>1, <1>2

\* A repair reads the manifest or the item.
LEMMA RepairPartKeeps ==
    ASSUME SnapshotsFit, NEW c \in Slot, NEW pc, NEW part, NEW relink, NEW on,
           \/ <<pc, part, relink, on>> = <<"fixmanifest", "manifest", "newmanifest", "fixnote">>
           \/ <<pc, part, relink, on>> = <<"fixitem", "item", "newitem", "verify">>,
           RepairPart(c, pc, part, relink, on)
    PROVE  StepFits
<1> DEFINE s == reqs[c].snapshot
<1>1. reqs[c] \in RepairReq /\ ReqFits(reqs[c]) /\ reqs[c].pc = pc
  BY ReqHere, Shapes DEF RepairPart
<1>2. s \in Snapshot /\ snap[s].status # "none"
  BY <1>1 DEF RepairReq, ReqFits, CopyFits, Copying
<1>3. CASE Goto(c, on) /\ UNCHANGED <<snap, r2, copies>>
  <2>1. UNCHANGED <<snap, sealed>> /\ Others
    BY <1>3, OthersStill DEF RepairPart, stored
  <2>2. [reqs[c] EXCEPT !.pc = on] \in Req
    BY <1>1 DEF RepairReq, Req
  <2>3. ReqFits([reqs[c] EXCEPT !.pc = on])
    BY <1>1 DEF ReqFits, StartFits, FinalFits, CopyFits, ObjectFits, ReplaceFits,
           RelinkFits, TodoFits, Copying, RepairReq
  <2> QED BY <2>1, <2>2, <2>3, <1>3, Onward
<1>4. CASE ~(Goto(c, on) /\ UNCHANGED <<snap, r2, copies>>)
  <2>1. PICK n \in Nat : n = copies + 1
    BY DEF SnapshotsFit, RowsFit
  <2> DEFINE fresh == <<part, s, n>>
  <2>2. fresh \in PartKey
    BY <1>2 DEF PartKey
  <2>3. fresh # None
    BY <2>2, SnapshotAssumption DEF PartKey
  <2>4. /\ Seen(c, part) # None /\ snap' = Degraded(s) /\ r2' = r2 \cup {fresh} /\ copies' = n
        /\ reqs' = [reqs EXCEPT ![c].pc = relink, ![c].fresh = fresh]
    BY <1>4, <2>1 DEF RepairPart
  <2>5. sealed' = sealed /\ Others
    BY <2>4, <2>2 DEF RepairPart, Others, SnapshotsFit, RowsFit, queued, keys, Key
  <2> HIDE DEF fresh
  <2>6. [reqs[c] EXCEPT !.pc = relink, !.fresh = fresh] \in RepairReq
    BY <1>1, <2>2 DEF RepairReq, Name
  <2>7. PICK q \in RepairReq : q = [reqs[c] EXCEPT !.pc = relink, !.fresh = fresh]
    BY <2>6
  <2>8. q \in Req
    BY DEF Req
  <2>9. ReqFits(q)
    BY <1>1, <2>7, <2>3, <2>4 DEF ReqFits, StartFits, FinalFits, CopyFits, ObjectFits, ReplaceFits,
           RelinkFits, TodoFits, Copying, RepairReq, Seen
  <2>10. reqs' = [reqs EXCEPT ![c] = q]
    BY <2>4, <2>7, <1>1 DEF SnapshotsFit, RowsFit, RepairReq
  <2> HIDE DEF s
  <2> QED BY <1>2, <2>4, <2>5, <2>8, <2>9, <2>10, DegradedStepped
<1> QED BY <1>3, <1>4

\* A repair reads the objects of the entries.
LEMMA RepairNoteKeeps ==
    ASSUME SnapshotsFit, NEW c \in Slot, RepairNote(c)
    PROVE  StepFits
<1> DEFINE s == reqs[c].snapshot
           o == snap[s].entry
<1>1. reqs[c] \in RepairReq /\ ReqFits(reqs[c]) /\ reqs[c].pc = "fixnote"
  BY ReqHere, Shapes DEF RepairNote
<1>2. s \in Snapshot /\ snap[s].status # "none" /\ snap[s] \in SnapshotRow
  BY <1>1 DEF RepairReq, ReqFits, CopyFits, Copying, SnapshotsFit, RowsFit
<1>3. sealed' = sealed /\ Others
  BY OthersStill DEF RepairNote
<1>4. CASE /\ reqs' = [reqs EXCEPT ![c].pc = "fixitem", ![c].item = snap[s].item]
           /\ UNCHANGED snap
  <2>1. [reqs[c] EXCEPT !.pc = "fixitem", !.item = snap[s].item] \in RepairReq
    BY <1>1, <1>2 DEF RepairReq, SnapshotRow
  <2>2. PICK q \in RepairReq : q = [reqs[c] EXCEPT !.pc = "fixitem", !.item = snap[s].item]
    BY <2>1
  <2>3. ReqFits(q) /\ q \in Req
    BY <1>1, <2>2 DEF ReqFits, StartFits, FinalFits, CopyFits, ObjectFits, ReplaceFits,
           RelinkFits, TodoFits, Copying, RepairReq, Req
  <2>4. reqs' = [reqs EXCEPT ![c] = q]
    BY <1>4, <2>2, <1>1 DEF SnapshotsFit, RowsFit, RepairReq
  <2> QED BY <1>3, <1>4, <2>3, <2>4, StillStepped
<1>5. CASE /\ o # None /\ snap' = Degraded(s)
           /\ reqs' = [reqs EXCEPT ![c].pc = "create", ![c].entry = o, ![c].item = snap[s].item]
  <2>1. o \in Object /\ snap[s].status # "deleted" /\ OfOne(o, snap[s].recipient, snap[s].content)
    BY <1>2, <1>5 DEF SnapshotRow, SnapshotsFit, NothingLeft, EntriesFit
  <2>2. OfOne(o, reqs[c].recipient, reqs[c].note)
    BY <2>1, <1>1 DEF ReqFits, CopyFits, Copying
  <2>3. [reqs[c] EXCEPT !.pc = "create", !.entry = o, !.item = snap[s].item] \in RepairReq
    BY <1>1, <1>2 DEF RepairReq, SnapshotRow
  <2>4. PICK q \in RepairReq : q = [reqs[c] EXCEPT !.pc = "create", !.entry = o, !.item = snap[s].item]
    BY <2>3
  <2>5. ReqFits(q) /\ q \in Req
    BY <1>1, <2>1, <2>2, <2>4 DEF ReqFits, StartFits, FinalFits, CopyFits, ObjectFits, ReplaceFits,
           RelinkFits, TodoFits, Copying, RepairReq, Req
  <2>6. reqs' = [reqs EXCEPT ![c] = q]
    BY <1>5, <2>4, <1>1 DEF SnapshotsFit, RowsFit, RepairReq
  <2> HIDE DEF s, o
  <2> QED BY <1>2, <1>3, <1>5, <2>5, <2>6, DegradedStepped
<1> QED BY <1>4, <1>5 DEF RepairNote

\* A repair names the manifest or the item it wrote.
LEMMA RelinkPartKeeps ==
    ASSUME SnapshotsFit, NEW c \in Slot, NEW pc, NEW part, NEW on,
           \/ <<pc, part, on>> = <<"newmanifest", "manifest", "fixnote">>
           \/ <<pc, part, on>> = <<"newitem", "item", "verify">>,
           RelinkPart(c, pc, part, on)
    PROVE  StepFits
<1> DEFINE s == reqs[c].snapshot
<1>1. reqs[c] \in RepairReq /\ ReqFits(reqs[c]) /\ reqs[c].pc = pc
  BY ReqHere, Shapes DEF RelinkPart
<1>2. s \in Snapshot /\ snap[s].status # "none" /\ snap[s] \in SnapshotRow
  BY <1>1 DEF RepairReq, ReqFits, CopyFits, Copying, SnapshotsFit, RowsFit
<1>3. /\ Seen(c, part) \in PartKey /\ reqs[c].fresh \in PartKey /\ reqs[c].fresh # None
  BY <1>1 DEF RepairReq, ReqFits, RelinkFits, Seen, Name
<1>4. sealed' = sealed /\ Others
  BY <1>3 DEF RelinkPart, Others, SnapshotsFit, RowsFit, stored, keys, Key
<1> DEFINE same == IF part = "item" THEN snap[s].item = reqs[c].item
                   ELSE snap[s].status = "ready"
<1>5. CASE ~same
  BY <1>4, <1>5, DoneFits DEF RelinkPart
<1>6. CASE same
  <2>1. snap[s].status # "deleted"
    BY <1>1, <1>2, <1>6 DEF SnapshotsFit, NothingLeft, ReqFits, RelinkFits
  <2>2. \E row \in SnapshotRow : /\ Kept(snap[s], row) /\ row.entry = snap[s].entry
                                 /\ snap' = [snap EXCEPT ![s] = row]
    <3>1. CASE part = "item"
      <4>1. PICK row \in SnapshotRow : row = [snap[s] EXCEPT !.item = reqs[c].fresh]
        BY <1>2, <1>3 DEF SnapshotRow, Name
      <4>2. Kept(snap[s], row) /\ row.entry = snap[s].entry
        BY <1>2, <1>3, <2>1, <4>1 DEF Kept, SnapshotRow
      <4>3. snap' = [snap EXCEPT ![s] = row]
        BY <4>1, <1>6, <3>1 DEF RelinkPart, Named
      <4> QED BY <4>2, <4>3
    <3>2. CASE part = "manifest"
      <4>1. PICK row \in SnapshotRow : row = [snap[s] EXCEPT !.manifest = reqs[c].fresh]
        BY <1>2, <1>3 DEF SnapshotRow, Name
      <4>2. Kept(snap[s], row) /\ row.entry = snap[s].entry
        BY <1>2, <1>3, <2>1, <4>1 DEF Kept, SnapshotRow
      <4>3. snap' = [snap EXCEPT ![s] = row]
        BY <4>1, <1>6, <3>2 DEF RelinkPart, Named
      <4> QED BY <4>2, <4>3
    <3> QED BY <3>1, <3>2
  <2>3. [reqs[c] EXCEPT !.pc = on] \in Req
    BY <1>1 DEF RepairReq, Req
  <2>4. PICK q \in Req : q = [reqs[c] EXCEPT !.pc = on]
    BY <2>3
  <2>5. ReqFits(q)
    BY <1>1, <2>4 DEF ReqFits, StartFits, FinalFits, CopyFits, ObjectFits, ReplaceFits,
           RelinkFits, TodoFits, Copying, RepairReq
  <2>6. reqs' = [reqs EXCEPT ![c] = q]
    BY <1>6, <2>4, Going DEF RelinkPart
  <2> HIDE DEF s
  <2> QED BY <1>2, <1>4, <2>2, <2>5, <2>6, RowStepped
<1> QED BY <1>5, <1>6

\* The same when the request fits only once the step is made.
LEMMA SteppedLater ==
    ASSUME SnapshotsFit, NEW c \in Slot, NEW q \in Req, ReqFits(q)',
           reqs' = [reqs EXCEPT ![c] = q],
           snap' \in [Snapshot -> SnapshotRow], sealed' \in [Object -> ObjectRow], Others,
           SnapStep, ObjStep, EntStep
    PROVE  StepFits
<1>1. /\ reqs' \in [Slot -> Req] /\ reqs'[c] = q
      /\ \A d \in Slot \ {c} : reqs'[d] = reqs[d]
  BY ReqPut DEF SnapshotsFit
<1>2. RowsFit'
  BY <1>1 DEF RowsFit, Others
<1>3. \A d \in Slot : reqs'[d] = reqs[d] \/ ReqFits(reqs[d])'
  BY <1>1
<1> QED BY <1>2, <1>3, SnapshotsKept DEF Moved, StepFits

\* A snapshot's row is inserted.
LEMMA InsertKeeps ==
    ASSUME SnapshotsFit, NEW c \in Slot, NEW note \in Content, Insert(c, note)
    PROVE  StepFits
<1> DEFINE S == {t \in Snapshot : snap[t].status # "none"}
           n == Max(S \cup {0}) + 1
<1>1. reqs[c] \in StartReq
  BY ReqHere, Shapes DEF Insert
<1>2. sealed' = sealed /\ Others /\ sealed' \in [Object -> ObjectRow]
  BY OthersStill DEF Insert, SnapshotsFit, RowsFit
<1>3. CASE Done(c) /\ UNCHANGED snap
  BY <1>2, <1>3, DoneFits
<1>4. CASE ~(Done(c) /\ UNCHANGED snap)
  <2>1. n \in Snapshot
    BY <1>4 DEF Insert
  <2>2. n \notin S
    BY <2>1, NextFree, SnapshotAssumption DEF Snapshot
  <2>3. PICK s \in Snapshot : s = n
    BY <2>1
  <2>4. snap[s].status = "none"
    BY <2>2, <2>3
  <2>5. /\ recipient = reqs[c].recipient
        /\ snap' = [snap EXCEPT ![s] = [NoSnapshot EXCEPT !.status = "creating",
                       !.recipient = recipient, !.content = note]]
        /\ reqs' = [reqs EXCEPT ![c] = [pc |-> "stage", snapshot |-> s]]
    BY <1>4, <2>3 DEF Insert, Insertable
  <2>6. PICK row \in SnapshotRow : row = [NoSnapshot EXCEPT !.status = "creating",
                       !.recipient = recipient, !.content = note]
    <3>1. NoSnapshot \in SnapshotRow
      BY DEF NoSnapshot, SnapshotRow, Status, Contents, Name
    <3>2. recipient \in Recipient /\ note \in Contents
      BY DEF Contents, SnapshotsFit, RowsFit
    <3>3. [NoSnapshot EXCEPT !.status = "creating", !.recipient = recipient, !.content = note]
            \in SnapshotRow
      BY <3>1, <3>2 DEF SnapshotRow, Status
    <3> QED BY <3>3
  <2>7. /\ snap' = [snap EXCEPT ![s] = row] /\ snap \in [Snapshot -> SnapshotRow]
    BY <2>5, <2>6 DEF SnapshotsFit, RowsFit
  <2>8. /\ snap' \in [Snapshot -> SnapshotRow] /\ snap'[s] = row
        /\ \A t \in Snapshot \ {s} : snap'[t] = snap[t]
    BY <2>7
  <2>9. note \in Contents
    BY DEF Contents
  <2>10. Inserted(s)
    BY <2>4, <2>6, <2>8, <2>9 DEF Inserted
  <2>11. SnapStep
    BY <2>8, <2>10 DEF SnapStep
  <2>12. ObjStep
    BY <1>2 DEF ObjStep
  <2>13. EntStep
    <3>1. snap'[s].entry = None
      BY <2>6, <2>8 DEF NoSnapshot
    <3> QED BY <3>1, <2>8, <1>2 DEF EntStep, SnapshotsFit, EntriesFit, Row
  <2>14. PICK q \in Req : q = [pc |-> "stage", snapshot |-> s]
    BY DEF Req, StageReq
  <2>15. snap'[s].status = "creating"
    BY <2>6, <2>8 DEF NoSnapshot
  <2>16. ReqFits(q)'
    BY <2>14, <2>15 DEF ReqFits, StartFits, FinalFits, CopyFits, ObjectFits, ReplaceFits,
           RelinkFits, TodoFits, Copying
  <2>17. reqs' = [reqs EXCEPT ![c] = q]
    BY <2>5, <2>14
  <2> QED BY <1>2, <2>8, <2>11, <2>12, <2>13, <2>16, <2>17, SteppedLater
<1> QED BY <1>3, <1>4

\* An object's row is inserted.
LEMMA InsertObjectKeeps ==
    ASSUME SnapshotsFit, NEW c \in Slot, InsertObject(c)
    PROVE  StepFits
<1> DEFINE S == {p \in Object : sealed[p].status # "none"}
           n == Max(S \cup {0}) + 1
           s == reqs[c].snapshot
<1>1. reqs[c] \in CaptureReq \cup RepairReq /\ ReqFits(reqs[c]) /\ reqs[c].pc = "create"
  BY ReqHere, Shapes DEF InsertObject
<1>2. snap' = snap /\ Others /\ snap' \in [Snapshot -> SnapshotRow]
  BY OthersStill DEF InsertObject, SnapshotsFit, RowsFit
<1>3. CASE Done(c) /\ UNCHANGED sealed
  BY <1>2, <1>3, DoneFits
<1>4. CASE ~(Done(c) /\ UNCHANGED sealed)
  <2>1. n \in Object /\ snap[s].status # "deleted"
    BY <1>4 DEF InsertObject
  <2>2. n \notin S
    BY <2>1, NextFree, SnapshotAssumption DEF Object
  <2>3. PICK o \in Object : o = n
    BY <2>1
  <2>4. sealed[o].status = "none"
    BY <2>2, <2>3
  <2>5. /\ sealed' = [sealed EXCEPT ![o] = [status |-> "creating", content |-> reqs[c].note,
                                            recipient |-> reqs[c].recipient, by |-> s]]
        /\ reqs' = [reqs EXCEPT ![c].pc = "put", ![c].object = o]
    BY <1>4, <2>3 DEF InsertObject
  <2>6. PICK row \in ObjectRow : row = [status |-> "creating", content |-> reqs[c].note,
                                            recipient |-> reqs[c].recipient, by |-> s]
    BY <1>1 DEF ObjectRow, CaptureReq, RepairReq, Status
  <2>7. sealed' = [sealed EXCEPT ![o] = row] /\ sealed \in [Object -> ObjectRow]
    BY <2>5, <2>6 DEF SnapshotsFit, RowsFit
  <2>8. /\ sealed' \in [Object -> ObjectRow] /\ sealed'[o] = row
        /\ \A p \in Object \ {o} : sealed'[p] = sealed[p]
    BY <2>7
  <2>9. ObjStep
    BY <2>4, <2>8 DEF ObjStep
  <2>10. SnapStep
    BY <1>2 DEF SnapStep
  <2>11. EntStep
    BY <2>4, <2>8, <1>2 DEF EntStep, SnapshotsFit, EntriesFit, Row
  <2>12. [reqs[c] EXCEPT !.pc = "put", !.object = o] \in Req
    BY <1>1 DEF Req, CaptureReq, RepairReq
  <2>13. PICK q \in Req : q = [reqs[c] EXCEPT !.pc = "put", !.object = o]
    BY <2>12
  <2>14. reqs' = [reqs EXCEPT ![c] = q]
    BY <2>5, <2>13, <1>1 DEF SnapshotsFit, RowsFit, CaptureReq, RepairReq
  <2>15. RowsFit'
    <3>1. reqs' \in [Slot -> Req]
      BY <2>14 DEF SnapshotsFit, RowsFit
    <3> QED BY <3>1, <2>8, <1>2 DEF RowsFit, Others
  <2>16. /\ q.pc = "put" /\ q.object = o /\ q.snapshot = reqs[c].snapshot
         /\ q.recipient = reqs[c].recipient /\ q.note = reqs[c].note /\ q.kind = reqs[c].kind
         /\ q.kind = "repair" => q.entry = reqs[c].entry
    BY <2>13, <1>1 DEF CaptureReq, RepairReq
  <2>17. CopyFits(q)'
    BY <1>1, <1>2, <2>16 DEF CopyFits, ReqFits, Copying
  <2>18. ObjectFits(q)'
    BY <2>16, <2>8, <2>6 DEF ObjectFits, OfOne
  <2>19. ReplaceFits(q)'
    <3>1. SUFFICES ASSUME q.kind = "repair"
                   PROVE  q.entry \in Object /\ OfOne(q.entry, q.recipient, q.note)' /\ o # q.entry
      BY <2>16 DEF ReplaceFits
    <3>2. q.entry \in Object /\ OfOne(q.entry, q.recipient, q.note)
      BY <3>1, <2>16, <1>1 DEF ReqFits, ReplaceFits
    <3>3. o # q.entry
      BY <3>2, <2>4 DEF OfOne
    <3> QED BY <3>2, <3>3, <2>8 DEF OfOne
  <2>20. ReqFits(q)'
    BY <2>16, <2>17, <2>18, <2>19 DEF ReqFits, StartFits, FinalFits, RelinkFits, TodoFits
  <2> QED BY <1>2, <2>8, <2>9, <2>10, <2>11, <2>14, <2>20, SteppedLater
<1> QED BY <1>3, <1>4

\* The row of an object made ready, or failed.
LEMMA ObjectMarked ==
    ASSUME SnapshotsFit, NEW o \in Row, NEW st \in {"ready", "failed"},
           sealed' = [sealed EXCEPT ![o].status = st], snap' = snap
    PROVE  sealed' \in [Object -> ObjectRow] /\ SnapStep /\ ObjStep /\ EntStep
<1>1. sealed \in [Object -> ObjectRow] /\ o \in Object
  BY DEF SnapshotsFit, RowsFit, Row
<1>2. PICK row \in ObjectRow : row = [sealed[o] EXCEPT !.status = st]
  BY <1>1 DEF ObjectRow, Status
<1>3. row.status = st /\ row.recipient = sealed[o].recipient /\ row.content = sealed[o].content
  BY <1>1, <1>2 DEF ObjectRow
<1>4. /\ sealed' \in [Object -> ObjectRow] /\ sealed'[o] = row
      /\ \A p \in Object \ {o} : sealed'[p] = sealed[p]
  BY <1>1, <1>2
<1>5. ObjStep
  BY <1>3, <1>4 DEF ObjStep
<1>6. EntStep
  BY <1>3, <1>4 DEF EntStep, SnapshotsFit, EntriesFit, Row
<1> QED BY <1>4, <1>5, <1>6 DEF SnapStep

\* A written object is marked ready.
LEMMA CompleteObjectKeeps ==
    ASSUME SnapshotsFit, NEW c \in Slot, CompleteObject(c)
    PROVE  StepFits
<1> DEFINE o == reqs[c].object
           p == IF reqs[c].kind = "repair" THEN "relink" ELSE "attach"
<1>1. reqs[c] \in CaptureReq \cup RepairReq /\ ReqFits(reqs[c]) /\ reqs[c].pc = "complete"
  BY ReqHere, Shapes DEF CompleteObject
<1>2. snap' = snap /\ Others /\ snap' \in [Snapshot -> SnapshotRow] /\ o \in Object
  BY <1>1, OthersStill DEF CompleteObject, SnapshotsFit, RowsFit, ReqFits, ObjectFits
<1>3. CASE sealed[o].status # "creating"
  BY <1>2, <1>3, DoneFits DEF CompleteObject
<1>4. CASE sealed[o].status = "creating"
  <2>1. o \in Row /\ sealed' = [sealed EXCEPT ![o].status = "ready"]
    BY <1>2, <1>4 DEF CompleteObject, Row
  <2>2. [reqs[c] EXCEPT !.pc = p] \in Req
    BY <1>1 DEF Req, CaptureReq, RepairReq
  <2>3. ReqFits([reqs[c] EXCEPT !.pc = p])
    BY <1>1 DEF ReqFits, StartFits, FinalFits, CopyFits, ObjectFits, ReplaceFits,
           RelinkFits, TodoFits, Copying, CaptureReq, RepairReq
  <2>4. PICK q \in Req : q = [reqs[c] EXCEPT !.pc = p] /\ ReqFits(q)
    BY <2>2, <2>3
  <2>5. reqs' = [reqs EXCEPT ![c] = q]
    BY <1>4, <2>4, Going DEF CompleteObject
  <2>6. sealed' \in [Object -> ObjectRow] /\ SnapStep /\ ObjStep /\ EntStep
    BY <1>2, <2>1, ObjectMarked
  <2> QED BY <1>2, <2>4, <2>5, <2>6, Stepped
<1> QED BY <1>3, <1>4

\* A write that failed marks the object failed.
LEMMA PutFailsKeeps ==
    ASSUME SnapshotsFit, NEW c \in Slot, PutFails(c)
    PROVE  StepFits
<1> DEFINE o == reqs[c].object
<1>1. reqs[c] \in CaptureReq \cup RepairReq /\ ReqFits(reqs[c])
  BY ReqHere, Shapes DEF PutFails
<1>2. snap' = snap /\ Others /\ snap' \in [Snapshot -> SnapshotRow] /\ o \in Object /\ Done(c)
  BY <1>1, OthersStill DEF PutFails, SnapshotsFit, RowsFit, ReqFits, ObjectFits
<1>3. CASE sealed[o].status # "creating"
  <2>1. sealed \in [Object -> ObjectRow]
    BY DEF SnapshotsFit, RowsFit
  <2>2. sealed' = [sealed EXCEPT ![o].status = @]
    BY <1>3 DEF PutFails
  <2>3. [sealed[o] EXCEPT !.status = @] = sealed[o]
    BY <2>1, <1>2 DEF ObjectRow
  <2>4. sealed' = sealed
    BY <2>1, <2>2, <2>3, <1>2
  <2> QED BY <1>2, <2>4, DoneFits
<1>4. CASE sealed[o].status = "creating"
  <2>1. o \in Row /\ sealed' = [sealed EXCEPT ![o].status = "failed"]
    BY <1>2, <1>4 DEF PutFails, Row
  <2>2. sealed' \in [Object -> ObjectRow] /\ SnapStep /\ ObjStep /\ EntStep
    BY <1>2, <2>1, ObjectMarked
  <2> QED BY <1>2, <2>2, IdleFits, Stepped DEF Done
<1> QED BY <1>3, <1>4

\* An object of the same content and recipient is looked for.
LEMMA FindKeeps ==
    ASSUME SnapshotsFit, NEW c \in Slot, Find(c)
    PROVE  StepFits
<1>1. reqs[c] \in CaptureReq /\ ReqFits(reqs[c]) /\ reqs[c].pc = "find"
  BY ReqHere, Shapes DEF Find
<1>2. snap' = snap /\ Others /\ snap' \in [Snapshot -> SnapshotRow]
  BY OthersStill DEF Find, SnapshotsFit, RowsFit
<1>3. CASE Goto(c, "create") /\ UNCHANGED sealed
  <2>1. [reqs[c] EXCEPT !.pc = "create"] \in Req
    BY <1>1 DEF Req, CaptureReq
  <2>2. ReqFits([reqs[c] EXCEPT !.pc = "create"])
    BY <1>1 DEF ReqFits, StartFits, FinalFits, CopyFits, ObjectFits, ReplaceFits,
           RelinkFits, TodoFits, Copying, CaptureReq
  <2> QED BY <1>2, <1>3, <2>1, <2>2, Onward
<1>4. ASSUME NEW o \in Object, Reusable(o, reqs[c].recipient, reqs[c].note),
             reqs' = [reqs EXCEPT ![c].pc = "attach", ![c].object = o], UNCHANGED sealed
      PROVE  StepFits
  <2>1. [reqs[c] EXCEPT !.pc = "attach", !.object = o] \in Req
    BY <1>1 DEF Req, CaptureReq
  <2>2. PICK q \in Req : q = [reqs[c] EXCEPT !.pc = "attach", !.object = o]
    BY <2>1
  <2>3. reqs' = [reqs EXCEPT ![c] = q]
    BY <1>4, <2>2, <1>1 DEF SnapshotsFit, RowsFit, CaptureReq
  <2>4. ReqFits(q)
    BY <1>1, <1>4, <2>2 DEF ReqFits, StartFits, FinalFits, CopyFits, ObjectFits, ReplaceFits,
           RelinkFits, TodoFits, Copying, CaptureReq, OfOne, Reusable
  <2> QED BY <1>2, <1>4, <2>3, <2>4, StillStepped
<1>5. ASSUME NEW o \in Object, Reusable(o, reqs[c].recipient, reqs[c].note),
             sealed' = [sealed EXCEPT ![o].status = "failed"], UNCHANGED reqs
      PROVE  StepFits
  <2>1. o \in Row
    BY <1>5 DEF Reusable, Row
  <2>2. sealed' \in [Object -> ObjectRow] /\ SnapStep /\ ObjStep /\ EntStep
    BY <1>2, <1>5, <2>1, ObjectMarked
  <2> QED BY <1>2, <1>5, <2>2, ReqsStepped
<1> QED BY <1>3, <1>4, <1>5 DEF Find

\* Rows of objects deleted, none of them the entry of a snapshot afterwards.
LEMMA WithoutStep ==
    ASSUME SnapshotsFit, NEW objects \in SUBSET Row, sealed' = Without(objects)
    PROVE  /\ sealed' \in [Object -> ObjectRow] /\ ObjStep
           /\ \A o \in Row \ objects : sealed'[o] = sealed[o]
<1>1. sealed \in [Object -> ObjectRow]
  BY DEF SnapshotsFit, RowsFit
<1>2. \A o \in Object : [sealed[o] EXCEPT !.status = "deleted"] \in ObjectRow
  BY <1>1 DEF ObjectRow, Status
<1>3. sealed' \in [Object -> ObjectRow]
  BY <1>1, <1>2 DEF Without
<1>4. \A o \in Object : sealed'[o] = IF o \in objects THEN [sealed[o] EXCEPT !.status = "deleted"]
                                     ELSE sealed[o]
  BY DEF Without
<1>5. ObjStep
  BY <1>1, <1>4 DEF ObjStep, ObjectRow
<1> QED BY <1>3, <1>4, <1>5 DEF Row

\* The rows of a snapshot's objects are deleted.
LEMMA DeleteRowsKeeps ==
    ASSUME SnapshotsFit, NEW c \in Slot, DeleteRows(c)
    PROVE  StepFits
<1> DEFINE s == Min(reqs[c].todo)
<1>1. reqs[c] \in RetainReq /\ ReqFits(reqs[c]) /\ reqs[c].pc = "rows"
  BY ReqHere, Shapes DEF DeleteRows
<1>2. reqs[c].todo \in SUBSET Nat /\ reqs[c].todo # {}
  BY <1>1 DEF RetainReq, ReqFits, TodoFits, Snapshot
<1>3. s \in reqs[c].todo
  BY <1>2, MinIn
<1>4. \E q \in Req : ReqFits(q) /\ reqs' = [reqs EXCEPT ![c] = q]
  BY <1>1, <1>3, NextTodo DEF DeleteRows
<1>5. snap' = snap /\ Others /\ snap' \in [Snapshot -> SnapshotRow]
  BY OthersStill DEF DeleteRows, SnapshotsFit, RowsFit
<1>6. Unused(snap, queue) \in SUBSET Row
  BY DEF Unused
<1>7. /\ sealed' \in [Object -> ObjectRow] /\ ObjStep
      /\ \A o \in Row \ Unused(snap, queue) : sealed'[o] = sealed[o]
  BY <1>6, WithoutStep DEF DeleteRows
<1>8. EntStep
  BY <1>5, <1>7 DEF EntStep, SnapshotsFit, EntriesFit, Row, Unused
<1>9. SnapStep
  BY <1>5 DEF SnapStep
<1> QED BY <1>4, <1>5, <1>7, <1>8, <1>9, Stepped

\* A snapshot in excess is deleted.
LEMMA DeleteSnapshotKeeps ==
    ASSUME SnapshotsFit, NEW c \in Slot, DeleteSnapshot(c)
    PROVE  StepFits
<1> DEFINE m == Min(reqs[c].todo)
<1>1. reqs[c] \in RetainReq /\ ReqFits(reqs[c]) /\ reqs[c].pc = "delete"
  BY ReqHere, Shapes DEF DeleteSnapshot
<1>2. reqs[c].todo \in SUBSET Snapshot /\ reqs[c].todo \in SUBSET Nat /\ reqs[c].todo # {}
  BY <1>1 DEF RetainReq, ReqFits, TodoFits, Snapshot
<1>3. PICK s \in Snapshot : s = m /\ s \in reqs[c].todo
  BY <1>2, MinIn
<1>4. Others
  BY OthersStill DEF DeleteSnapshot
<1>5. CASE ~Deletable(s)
  <2>1. UNCHANGED <<snap, sealed>>
    BY <1>3, <1>5 DEF DeleteSnapshot, rows
  <2>2. \E q \in Req : ReqFits(q) /\ reqs' = [reqs EXCEPT ![c] = q]
    BY <1>1, <1>3, <1>5, NextTodo DEF DeleteSnapshot
  <2> QED BY <2>1, <2>2, <1>4, StillStepped
<1>6. CASE Deletable(s)
  <2>1. /\ snap' = [snap EXCEPT ![s] = [NoSnapshot EXCEPT !.status = "deleted"]]
        /\ sealed' = [o \in Object |-> IF sealed[o].by = s
                                       THEN [sealed[o] EXCEPT !.by = None] ELSE sealed[o]]
        /\ Goto(c, "rows")
    BY <1>3, <1>6 DEF DeleteSnapshot
  <2>2. snap \in [Snapshot -> SnapshotRow] /\ sealed \in [Object -> ObjectRow]
    BY DEF SnapshotsFit, RowsFit
  <2>3. PICK row \in SnapshotRow : row = [NoSnapshot EXCEPT !.status = "deleted"]
    <3>1. NoSnapshot \in SnapshotRow
      BY DEF NoSnapshot, SnapshotRow, Status, Contents, Name
    <3>2. [NoSnapshot EXCEPT !.status = "deleted"] \in SnapshotRow
      BY <3>1 DEF SnapshotRow, Status
    <3> QED BY <3>2
  <2>4. snap' = [snap EXCEPT ![s] = row]
    BY <2>1, <2>3
  <2>5. /\ snap' \in [Snapshot -> SnapshotRow] /\ snap'[s] = row
        /\ \A t \in Snapshot \ {s} : snap'[t] = snap[t]
    BY <2>2, <2>4
  <2>6. SnapStep
    BY <2>5, <2>3, <1>6 DEF SnapStep, Deleted, Deletable
  <2>7. \A o \in Object : [sealed[o] EXCEPT !.by = None] \in ObjectRow
    BY <2>2 DEF ObjectRow
  <2>8. sealed' \in [Object -> ObjectRow]
    BY <2>1, <2>2, <2>7
  <2>9. \A o \in Object : /\ sealed'[o].status = sealed[o].status
                          /\ sealed'[o].recipient = sealed[o].recipient
                          /\ sealed'[o].content = sealed[o].content
    BY <2>1, <2>2 DEF ObjectRow
  <2>10. ObjStep
    BY <2>9 DEF ObjStep
  <2>11. EntStep
    <3>1. snap'[s].entry = None
      BY <2>3, <2>5 DEF NoSnapshot
    <3> QED BY <3>1, <2>5, <2>9 DEF EntStep, SnapshotsFit, EntriesFit, Row
  <2>12. [reqs[c] EXCEPT !.pc = "rows"] \in Req
    BY <1>1 DEF Req, RetainReq
  <2>13. ReqFits([reqs[c] EXCEPT !.pc = "rows"])
    BY <1>1, <1>2 DEF ReqFits, StartFits, FinalFits, CopyFits, ObjectFits, ReplaceFits,
           RelinkFits, TodoFits, Copying, RetainReq
  <2>14. PICK q \in Req : q = [reqs[c] EXCEPT !.pc = "rows"] /\ ReqFits(q)
    BY <2>12, <2>13
  <2>15. reqs' = [reqs EXCEPT ![c] = q]
    BY <2>1, <2>14, Going
  <2> QED BY <1>4, <2>5, <2>6, <2>8, <2>10, <2>11, <2>14, <2>15, Stepped
<1> QED BY <1>5, <1>6

\* A snapshot that failed or was left is cleaned up.
LEMMA CleanupKeeps ==
    ASSUME SnapshotsFit, NEW c \in Slot, Cleanup(c)
    PROVE  StepFits
<1>1. CASE Goto(c, "sweep") /\ UNCHANGED <<snap, sealed, queue>>
  <2>1. reqs[c] \in MaintainReq
    BY ReqHere, Shapes DEF Cleanup
  <2>2. UNCHANGED <<snap, sealed>> /\ Others
    BY <1>1, OthersStill DEF Cleanup, queued
  <2>3. PICK q \in Req : q = [reqs[c] EXCEPT !.pc = "sweep"]
    <3>1. [reqs[c] EXCEPT !.pc = "sweep"] \in Req
      BY <2>1 DEF MaintainReq, Req
    <3> QED BY <3>1
  <2>4. q.pc = "sweep"
    BY <2>1, <2>3 DEF MaintainReq
  <2>5. reqs' = [reqs EXCEPT ![c] = q]
    BY <1>1, <2>3, Going
  <2>6. ReqFits(q)
    BY <2>4, FreeFits
  <2> QED BY <2>2, <2>5, <2>6, StillStepped
<1>2. ASSUME NEW s \in Snapshot, snap[s].status = "failed",
             queue' = queue \cup FailedKeys(s),
             snap' = [snap EXCEPT ![s].staged = FALSE, ![s].selected = FALSE, ![s].entry = None,
                                  ![s].item = None, ![s].cleaned = TRUE],
             sealed' = Without(Unused(snap', queue')), UNCHANGED reqs
      PROVE  StepFits
  <2>1. snap \in [Snapshot -> SnapshotRow] /\ snap[s] \in SnapshotRow
    BY DEF SnapshotsFit, RowsFit
  <2>2. [snap[s] EXCEPT !.staged = FALSE, !.selected = FALSE, !.entry = None,
                                  !.item = None, !.cleaned = TRUE] \in SnapshotRow
    BY <2>1 DEF SnapshotRow, Name
  <2>3. PICK row \in SnapshotRow :
           row = [snap[s] EXCEPT !.staged = FALSE, !.selected = FALSE, !.entry = None,
                                  !.item = None, !.cleaned = TRUE]
    BY <2>2
  <2>4. snap' = [snap EXCEPT ![s] = row]
    BY <1>2, <2>3, <2>1 DEF SnapshotRow
  <2>5. /\ snap' \in [Snapshot -> SnapshotRow] /\ snap'[s] = row
        /\ \A t \in Snapshot \ {s} : snap'[t] = snap[t]
    BY <2>1, <2>4
  <2>6. Kept(snap[s], row) /\ row.entry = None
    BY <2>1, <2>3, <1>2 DEF Kept, SnapshotRow
  <2>7. SnapStep
    BY <2>5, <2>6 DEF SnapStep
  <2>8. Unused(snap', queue') \in SUBSET Row
    BY DEF Unused
  <2>9. /\ sealed' \in [Object -> ObjectRow] /\ ObjStep
        /\ \A o \in Row \ Unused(snap', queue') : sealed'[o] = sealed[o]
    BY <1>2, <2>8, WithoutStep
  <2>10. EntStep
    <3>1. SUFFICES ASSUME NEW t \in Snapshot, snap'[t].entry # None
                   PROVE  /\ sealed'[snap'[t].entry].status \in {"creating", "ready", "failed"}
                          /\ snap'[t].entry = snap[t].entry
      BY DEF EntStep
    <3>2. snap'[t].entry = snap[t].entry /\ snap[t].entry \in Row
      BY <3>1, <2>5, <2>6 DEF SnapshotsFit, EntriesFit
    <3>3. snap[t].entry \notin Unused(snap', queue')
      BY <3>2 DEF Unused
    <3> QED BY <3>2, <3>3, <2>9 DEF Row
  <2>11. FailedKeys(s) \subseteq Key
    BY SnapshotAssumption DEF FailedKeys, ManifestKey, ItemKey, ObjectKey, Key, PartKey, Row
  <2>12. Others
    BY <1>2, <2>11 DEF Others, Cleanup, SnapshotsFit, RowsFit, stored, keys
  <2> QED BY <1>2, <2>5, <2>7, <2>9, <2>10, <2>12, ReqsStepped
<1> QED BY <1>1, <1>2 DEF Cleanup

\* A repair attaches the new object in place of the old one.
LEMMA RelinkKeeps ==
    ASSUME SnapshotsFit, NEW c \in Slot, Relink(c)
    PROVE  StepFits
<1> DEFINE old == reqs[c].entry
           fresh == reqs[c].object
<1>1. reqs[c] \in RepairReq /\ ReqFits(reqs[c]) /\ reqs[c].pc = "relink"
  BY ReqHere, Shapes DEF Relink
<1>2. /\ old \in Object /\ fresh \in Object /\ fresh # old
      /\ OfOne(old, reqs[c].recipient, reqs[c].note) /\ OfOne(fresh, reqs[c].recipient, reqs[c].note)
  BY <1>1 DEF ReqFits, ObjectFits, ReplaceFits, RepairReq
<1>3. CASE fresh \notin Row
  <2>1. UNCHANGED <<snap, sealed>> /\ Others
    BY <1>3, OthersStill DEF Relink, rows, queued
  <2> QED BY <1>3, <2>1, DoneFits DEF Relink
<1>4. CASE fresh \in Row
  <2>1. /\ snap' = [s \in Snapshot |-> IF snap[s].entry = old
                                       THEN [snap[s] EXCEPT !.entry = fresh] ELSE snap[s]]
        /\ queue' = queue \cup {ObjectKey(old)} /\ sealed' = Without({old} \cap Row)
        /\ Goto(c, "fixitem")
    BY <1>4 DEF Relink
  <2>2. snap \in [Snapshot -> SnapshotRow]
    BY DEF SnapshotsFit, RowsFit
  <2>3. \A s \in Snapshot : [snap[s] EXCEPT !.entry = fresh] \in SnapshotRow
    BY <2>2, <1>2 DEF SnapshotRow
  <2>4. snap' \in [Snapshot -> SnapshotRow]
    BY <2>1, <2>2, <2>3
  <2>5. \A s \in Snapshot : /\ snap[s].entry # old => snap'[s] = snap[s]
                            /\ snap[s].entry = old => snap'[s] = [snap[s] EXCEPT !.entry = fresh]
    BY <2>1
  <2>6. ASSUME NEW s \in Snapshot, snap[s].entry = old
        PROVE  snap'[s].entry = fresh /\ Kept(snap[s], snap'[s])
               /\ OfOne(fresh, snap[s].recipient, snap[s].content)
    <3>1. old # None
      BY <1>2, SnapshotAssumption DEF Object
    <3>2. snap[s].status \notin {"none", "deleted"}
      BY <2>6, <3>1 DEF SnapshotsFit, NothingLeft
    <3>3. fresh # None /\ snap[s] \in SnapshotRow
      BY <1>2, <2>2, SnapshotAssumption DEF Object
    <3>4. snap'[s].entry = fresh /\ Kept(snap[s], snap'[s])
      BY <2>5, <2>6, <3>2, <3>3 DEF Kept, SnapshotRow
    <3>5. OfOne(old, snap[s].recipient, snap[s].content)
      BY <2>6, <3>1 DEF SnapshotsFit, EntriesFit
    <3> QED BY <3>4, <3>5, <1>2 DEF OfOne
  <2>7. SnapStep
    BY <2>5, <2>6 DEF SnapStep
  <2>8. /\ sealed' \in [Object -> ObjectRow] /\ ObjStep
        /\ \A o \in Row \ ({old} \cap Row) : sealed'[o] = sealed[o]
    BY <2>1, WithoutStep
  <2>9. EntStep
    <3>1. \A s \in Snapshot : snap[s].entry = old \/ snap[s].entry = None
                              \/ snap[s].entry \in Row \ ({old} \cap Row)
      BY DEF SnapshotsFit, EntriesFit
    <3>2. SUFFICES ASSUME NEW s \in Snapshot, snap'[s].entry # None
                   PROVE  /\ sealed'[snap'[s].entry].status \in {"creating", "ready", "failed"}
                          /\ snap[s].entry # snap'[s].entry =>
                                /\ snap'[s].entry \in Object
                                /\ OfOne(snap'[s].entry, snap[s].recipient, snap[s].content)
                                /\ Kept(snap[s], snap'[s])
      BY DEF EntStep
    <3>3. CASE snap[s].entry = old
      <4>1. /\ snap'[s].entry = fresh /\ Kept(snap[s], snap'[s])
            /\ OfOne(fresh, snap[s].recipient, snap[s].content)
        BY <2>6, <3>3
      <4>2. fresh \in Row \ ({old} \cap Row)
        BY <1>2, <1>4
      <4>3. sealed'[fresh] = sealed[fresh]
        BY <4>2, <2>8
      <4> HIDE DEF fresh, old
      <4> QED BY <4>1, <4>3, <1>2, <1>4 DEF Row
    <3>4. CASE snap[s].entry # old
      <4>1. snap'[s] = snap[s]
        BY <2>5, <3>4
      <4>2. snap[s].entry \in Row \ ({old} \cap Row)
        BY <3>1, <3>2, <3>4, <4>1
      <4> QED BY <4>1, <4>2, <2>8 DEF Row
    <3> QED BY <3>3, <3>4
  <2>10. ObjectKey(old) \in Key
    BY <1>2 DEF ObjectKey, Key
  <2>11. Others
    BY <2>1, <2>10 DEF Others, Relink, SnapshotsFit, RowsFit, stored, keys
  <2>12. [reqs[c] EXCEPT !.pc = "fixitem"] \in Req
    BY <1>1 DEF Req, RepairReq
  <2>13. ReqFits([reqs[c] EXCEPT !.pc = "fixitem"])
    BY <1>1 DEF ReqFits, StartFits, FinalFits, CopyFits, ObjectFits, ReplaceFits,
           RelinkFits, TodoFits, Copying, RepairReq
  <2>14. PICK q \in Req : q = [reqs[c] EXCEPT !.pc = "fixitem"] /\ ReqFits(q)
    BY <2>12, <2>13
  <2>15. reqs' = [reqs EXCEPT ![c] = q]
    BY <2>1, <2>14, Going
  <2> QED BY <2>4, <2>7, <2>8, <2>9, <2>11, <2>14, <2>15, Stepped
<1> QED BY <1>3, <1>4

\* A day passes.
LEMMA DayKeeps ==
    ASSUME SnapshotsFit, Day
    PROVE  StepFits
<1>1. snap \in [Snapshot -> SnapshotRow] /\ sealed' \in [Object -> ObjectRow] /\ sealed' = sealed
  BY DEF SnapshotsFit, RowsFit, Day
<1>2. \A s \in Snapshot : [snap[s] EXCEPT !.old = TRUE] \in SnapshotRow
  BY <1>1 DEF SnapshotRow
<1>3. snap' \in [Snapshot -> SnapshotRow]
  BY <1>1, <1>2 DEF Day
<1>4. \A s \in Snapshot :
         \/ snap'[s] = snap[s]
         \/ snap[s].status = "failed" /\ snap'[s] = [snap[s] EXCEPT !.old = TRUE]
  BY DEF Day
<1>5. ASSUME NEW s \in Snapshot
      PROVE  \/ snap'[s] = snap[s]
             \/ Kept(snap[s], snap'[s]) /\ snap'[s].entry = snap[s].entry
  <2>1. CASE snap[s].status = "failed" /\ snap'[s] = [snap[s] EXCEPT !.old = TRUE]
    <3>1. snap[s] \in SnapshotRow
      BY <1>1
    <3> QED BY <2>1, <3>1 DEF Kept, SnapshotRow
  <2> QED BY <2>1, <1>4
<1>6. SnapStep /\ ObjStep
  BY <1>1, <1>5 DEF SnapStep, ObjStep
<1>7. EntStep
  BY <1>1, <1>5 DEF EntStep, SnapshotsFit, EntriesFit, Row
<1>8. Others
  BY DEF Day, Others, SnapshotsFit, RowsFit, stored, keys
<1> QED BY <1>1, <1>3, <1>6, <1>7, <1>8, ReqsStepped DEF Day

\* The owner, the storage or time takes a step.
LEMMA OutsideKeeps ==
    ASSUME SnapshotsFit,
           \/ \E r \in Recipient : SaveRecipient(r)
           \/ \E s \in Frail : \E k \in r2 : Lose(s, k)
    PROVE  StepFits
<1>1. UNCHANGED <<snap, sealed>> /\ reqs' = reqs
  BY DEF SaveRecipient, Lose, rows
<1>2. Others
  BY DEF SaveRecipient, Lose, Others, SnapshotsFit, RowsFit, stored, queued, keys
<1>3. snap' \in [Snapshot -> SnapshotRow] /\ sealed' \in [Object -> ObjectRow]
  BY <1>1 DEF SnapshotsFit, RowsFit
<1> QED BY <1>1, <1>2, <1>3, StillSteps, ReqsStepped

\* A portable backup is made.
LEMMA BackupKeeps ==
    ASSUME SnapshotsFit, NEW c \in Slot, InsertBackup(c) \/ FinishBackup(c)
    PROVE  StepFits
<1>1. reqs[c] \in BackupReq
  BY ReqHere, Shapes DEF InsertBackup, FinishBackup
<1>2. UNCHANGED <<snap, sealed>>
  BY DEF InsertBackup, FinishBackup, rows
<1> DEFINE Row2 == [status : {"none", "creating", "ready", "failed"}, recipient : Recipient \cup {None}]
<1>3. backup \in Row2 /\ recipient \in Recipient
  BY DEF SnapshotsFit, RowsFit
<1>4. backup' \in Row2
  <2>1. CASE InsertBackup(c)
    BY <2>1, <1>3 DEF InsertBackup
  <2>2. CASE FinishBackup(c)
    <3>1. \A result \in {"ready", "failed"} : [backup EXCEPT !.status = result] \in Row2
      BY <1>3
    <3> QED BY <3>1, <2>2 DEF FinishBackup
  <2> QED BY <2>1, <2>2
<1>5. Others
  BY <1>4 DEF InsertBackup, FinishBackup, Others, SnapshotsFit, RowsFit, stored, queued
<1>6. CASE Done(c)
  BY <1>2, <1>5, <1>6, DoneFits
<1>7. CASE Goto(c, "encrypt")
  <2>1. PICK q \in Req : q = [reqs[c] EXCEPT !.pc = "encrypt"]
    <3>1. [reqs[c] EXCEPT !.pc = "encrypt"] \in Req
      BY <1>1 DEF BackupReq, Req
    <3> QED BY <3>1
  <2>2. q.pc = "encrypt"
    BY <1>1, <2>1 DEF BackupReq
  <2>3. reqs' = [reqs EXCEPT ![c] = q]
    BY <1>7, <2>1, Going
  <2>4. ReqFits(q)
    BY <2>2, FreeFits
  <2> QED BY <1>2, <1>5, <2>3, <2>4, StillStepped
<1> QED BY <1>6, <1>7 DEF InsertBackup, FinishBackup

\* A request is lost.
LEMMA CrashKeeps ==
    ASSUME SnapshotsFit, NEW c \in Slot, Crash(c)
    PROVE  StepFits
<1>1. UNCHANGED <<snap, sealed>> /\ Others /\ Done(c)
  BY OthersStill DEF Crash, rows
<1> QED BY <1>1, DoneFits

-----------------------------------------------------------------------------
(* Every step keeps the rows *)

\* The steps of capture,
LEMMA CaptureKeeps ==
    ASSUME SnapshotsFit, NEW c \in Slot, Capture(c)
    PROVE  StepFits
<1> USE DEF Capture
<1>1. CASE BeginStart(c) \/ (\E note \in Content : Insert(c, note)) \/ Stage(c) \/ Select(c)
           \/ StageFails(c)
  BY <1>1, BeginStartKeeps, InsertKeeps, StageKeeps, SelectKeeps, StageFailsKeeps
<1>2. CASE (\E s \in Snapshot : BeginContinue(c, s)) \/ Find(c) \/ InsertObject(c) \/ PutObject(c)
  BY <1>2, BeginContinueKeeps, FindKeeps, InsertObjectKeeps, PutObjectKeeps
<1>3. CASE CompleteObject(c) \/ PutFails(c) \/ Attach(c) \/ PutItem(c) \/ ItemRow(c)
  BY <1>3, CompleteObjectKeeps, PutFailsKeeps, AttachKeeps, PutItemKeeps, ItemRowKeeps
<1>4. CASE CountItems(c) \/ CountEntries(c) \/ Progress(c) \/ PutManifest(c) \/ Finalize(c)
  BY <1>4, CountItemsKeeps, CountEntriesKeeps, ProgressKeeps, PutManifestKeeps, FinalizeKeeps
<1> QED BY <1>1, <1>2, <1>3, <1>4

\* of retention and collection,
LEMMA RetentionKeeps ==
    ASSUME SnapshotsFit, NEW c \in Slot, Retention(c)
    PROVE  StepFits
<1> USE DEF Retention
<1>1. CASE BeginRetention(c) \/ BeginCron(c)
  BY <1>1, MaintenanceBegins
<1>2. CASE Retain(c) \/ QueueKeys(c) \/ DeleteSnapshot(c) \/ DeleteRows(c) \/ Cleanup(c)
  BY <1>2, RetainKeeps, QueueKeysKeeps, DeleteSnapshotKeeps, DeleteRowsKeeps, CleanupKeeps
<1>3. CASE Sweep(c) \/ (reqs[c].pc = "check" /\ \E k \in reqs[c].todo : Check(c, k))
  BY <1>3, SweepKeeps, CheckKeeps
<1>4. CASE Erase(c) \/ EraseFails(c) \/ Dequeue(c)
  BY <1>4, EraseKeeps
<1> QED BY <1>1, <1>2, <1>3, <1>4

\* of repair,
LEMMA RepairKeeps ==
    ASSUME SnapshotsFit, NEW c \in Slot, Repair(c)
    PROVE  StepFits
<1> USE DEF Repair
<1>1. CASE (\E s \in Snapshot : BeginRepair(c, s)) \/ RepairNote(c) \/ Relink(c) \/ Verify(c)
  BY <1>1, BeginRepairKeeps, RepairNoteKeeps, RelinkKeeps, VerifyKeeps
<1>2. CASE RepairManifest(c)
  BY <1>2, RepairPartKeeps DEF RepairManifest
<1>3. CASE RepairItem(c)
  BY <1>3, RepairPartKeeps DEF RepairItem
<1>4. CASE RelinkManifest(c)
  BY <1>4, RelinkPartKeeps DEF RelinkManifest
<1>5. CASE RelinkItem(c)
  BY <1>5, RelinkPartKeeps DEF RelinkItem
<1> QED BY <1>1, <1>2, <1>3, <1>4, <1>5

\* or none,
LEMMA StutterKeeps ==
    ASSUME SnapshotsFit, UNCHANGED snapshotVars
    PROVE  StepFits
<1>1. UNCHANGED <<snap, sealed>> /\ reqs' = reqs
  BY DEF snapshotVars, rows
<1>2. Others
  BY OthersStill DEF snapshotVars
<1>3. snap' \in [Snapshot -> SnapshotRow] /\ sealed' \in [Object -> ObjectRow]
  BY <1>1 DEF SnapshotsFit, RowsFit
<1> QED BY <1>1, <1>2, <1>3, StillSteps, ReqsStepped

\* keep the invariant, and move the rows legally.
LEMMA NextKeeps ==
    ASSUME SnapshotsFit, [SnapshotNext]_snapshotVars
    PROVE  StepFits
<1>1. CASE \E c \in Slot : Capture(c) \/ Retention(c) \/ Repair(c)
  BY <1>1, CaptureKeeps, RetentionKeeps, RepairKeeps
<1>2. CASE \E c \in Slot : BeginBackup(c) \/ InsertBackup(c) \/ FinishBackup(c) \/ Crash(c)
  BY <1>2, MaintenanceBegins, BackupKeeps, CrashKeeps
<1>3. CASE \E s \in Snapshot : Cancel(s) \/ Pin(s)
  BY <1>3, CancelKeeps
<1>4. CASE \/ \E r \in Recipient : SaveRecipient(r)
           \/ \E s \in Frail : \E k \in r2 : Lose(s, k)
  BY <1>4, OutsideKeeps
<1>5. CASE Day
  BY <1>5, DayKeeps
<1>6. CASE UNCHANGED snapshotVars
  BY <1>6, StutterKeeps
<1> QED BY <1>1, <1>2, <1>3, <1>4, <1>5, <1>6 DEF SnapshotNext

\* The invariant holds at first.
LEMMA InitFits ==
    ASSUME SnapshotInit
    PROVE  SnapshotsFit /\ RecipientFixed
<1> DEFINE D == DOMAIN Before
           First(note) == Min({s \in D : Before[s] = note})
<1>1. recipient \in Recipient
  BY SnapshotAssumption DEF SnapshotInit
<1>2. D \subseteq Snapshot \cap Object
  BY SnapshotAssumption
<1>3. ASSUME NEW s \in D
      PROVE  First(Before[s]) \in D /\ Before[First(Before[s])] = Before[s]
  <2>1. {t \in D : Before[t] = Before[s]} \in SUBSET Nat
    BY <1>2 DEF Snapshot
  <2>2. First(Before[s]) \in {t \in D : Before[t] = Before[s]}
    BY <2>1, MinIn
  <2> QED BY <2>2
<1> HIDE DEF First
<1>4. snap = [s \in Snapshot |->
              IF s \in D
              THEN [NoSnapshot EXCEPT !.status = "ready", !.integrity = "verified",
                      !.recipient = recipient, !.content = Before[s], !.staged = TRUE, !.selected = TRUE,
                      !.entry = First(Before[s]), !.item = ItemKey(s, 0),
                      !.manifest = ManifestKey(s, 0), !.processed = 1]
              ELSE NoSnapshot]
  <2>1. recipient = CHOOSE r \in Recipient : TRUE
    BY DEF SnapshotInit
  <2> QED BY <2>1, Zenon DEF SnapshotInit, First
<1>5. sealed = [o \in Object |->
              IF o \in {First(note) : note \in {Before[s] : s \in D}}
              THEN [status |-> "ready", content |-> Before[o], recipient |-> recipient, by |-> o]
              ELSE [status |-> "none", content |-> None, recipient |-> None, by |-> None]]
  BY DEF SnapshotInit, First
<1>6. \A s \in Snapshot : ItemKey(s, 0) \in PartKey /\ ManifestKey(s, 0) \in PartKey
                          /\ ManifestKey(s, 0) # None
  <2>1. \A s \in Snapshot : ItemKey(s, 0) \in PartKey /\ ManifestKey(s, 0) \in PartKey
    BY DEF ItemKey, ManifestKey, PartKey
  <2> QED BY <2>1, SnapshotAssumption DEF PartKey
<1>7. NoSnapshot \in SnapshotRow
  BY DEF NoSnapshot, SnapshotRow, Status, Contents, Name
<1>8. ASSUME NEW s \in D
      PROVE  /\ snap[s] \in SnapshotRow /\ snap[s].status = "ready" /\ snap[s].staged
             /\ snap[s].entry = First(Before[s]) /\ snap[s].manifest = ManifestKey(s, 0)
             /\ snap[s].recipient = recipient /\ snap[s].content = Before[s]
  <2>1. snap[s] = [NoSnapshot EXCEPT !.status = "ready", !.integrity = "verified",
                      !.recipient = recipient, !.content = Before[s], !.staged = TRUE, !.selected = TRUE,
                      !.entry = First(Before[s]), !.item = ItemKey(s, 0),
                      !.manifest = ManifestKey(s, 0), !.processed = 1]
    BY <1>2, <1>4
  <2>2. /\ First(Before[s]) \in Object /\ ItemKey(s, 0) \in Name /\ ManifestKey(s, 0) \in Name
        /\ Before[s] \in Contents
    BY <1>2, <1>3, <1>6 DEF Name, Contents
  <2>3. PICK o \in Object, item \in Name, manifest \in Name, note \in Contents :
           o = First(Before[s]) /\ item = ItemKey(s, 0) /\ manifest = ManifestKey(s, 0)
           /\ note = Before[s]
    BY <2>2
  <2>4. [NoSnapshot EXCEPT !.status = "ready", !.integrity = "verified",
                      !.recipient = recipient, !.content = note, !.staged = TRUE, !.selected = TRUE,
                      !.entry = o, !.item = item, !.manifest = manifest, !.processed = 1]
           \in SnapshotRow
    <3>1. [NoSnapshot EXCEPT !.status = "ready", !.integrity = "verified", !.recipient = recipient]
             \in SnapshotRow
      BY <1>1, <1>7 DEF SnapshotRow, Status
    <3>2. ASSUME NEW row \in SnapshotRow
          PROVE  [row EXCEPT !.content = note, !.staged = TRUE, !.selected = TRUE] \in SnapshotRow
      BY DEF SnapshotRow
    <3>3. ASSUME NEW row \in SnapshotRow
          PROVE  [row EXCEPT !.entry = o, !.item = item] \in SnapshotRow
      BY DEF SnapshotRow
    <3>4. ASSUME NEW row \in SnapshotRow
          PROVE  [row EXCEPT !.manifest = manifest, !.processed = 1] \in SnapshotRow
      <4>1. ASSUME NEW n \in 0..1 PROVE [row EXCEPT !.manifest = manifest, !.processed = n] \in SnapshotRow
        BY DEF SnapshotRow
      <4>2. 1 \in 0..1
        OBVIOUS
      <4> QED BY <4>1, <4>2
    <3>5. [[[[NoSnapshot EXCEPT !.status = "ready", !.integrity = "verified", !.recipient = recipient]
              EXCEPT !.content = note, !.staged = TRUE, !.selected = TRUE]
             EXCEPT !.entry = o, !.item = item]
            EXCEPT !.manifest = manifest, !.processed = 1] \in SnapshotRow
      <4>1. PICK row1 \in SnapshotRow : row1 =
              [NoSnapshot EXCEPT !.status = "ready", !.integrity = "verified", !.recipient = recipient]
        BY <3>1
      <4>2. PICK row2 \in SnapshotRow :
              row2 = [row1 EXCEPT !.content = note, !.staged = TRUE, !.selected = TRUE]
        BY <3>2
      <4>3. PICK row3 \in SnapshotRow : row3 = [row2 EXCEPT !.entry = o, !.item = item]
        BY <3>3
      <4>4. [row3 EXCEPT !.manifest = manifest, !.processed = 1] \in SnapshotRow
        BY <3>4
      <4> QED BY <4>1, <4>2, <4>3, <4>4
    <3> QED BY <3>5
  <2>5. snap[s] \in SnapshotRow
    BY <2>1, <2>3, <2>4
  <2> QED BY <2>1, <2>5 DEF NoSnapshot
<1>9. \A s \in Snapshot \ D : snap[s] = NoSnapshot
  BY <1>4
<1>10. snap \in [Snapshot -> SnapshotRow]
  <2>1. \A s \in Snapshot : snap[s] \in SnapshotRow
    BY <1>7, <1>8, <1>9
  <2> QED BY <2>1, <1>4
<1>11. ASSUME NEW s \in D
       PROVE  /\ First(Before[s]) \in Object
              /\ sealed[First(Before[s])] = [status |-> "ready", content |-> Before[s],
                                             recipient |-> recipient, by |-> First(Before[s])]
  BY <1>2, <1>3, <1>5
<1>12. sealed \in [Object -> ObjectRow]
  <2>1. [status |-> "none", content |-> None, recipient |-> None, by |-> None] \in ObjectRow
    BY DEF ObjectRow, Status, Contents
  <2>2. ASSUME NEW o \in Object, o \in {First(note) : note \in {Before[s] : s \in D}}
        PROVE  [status |-> "ready", content |-> Before[o], recipient |-> recipient, by |-> o] \in ObjectRow
    <3>1. o \in D
      BY <2>2, <1>3
    <3>2. o \in Snapshot /\ Before[o] \in Contents
      BY <3>1, <1>2 DEF Contents
    <3> QED BY <3>2, <1>1 DEF ObjectRow, Status
  <2> QED BY <2>1, <2>2, <1>5
<1>13. r2 \subseteq Key
  <2>1. r2 = UNION {{ObjectKey(First(Before[s])), ItemKey(s, 0), ManifestKey(s, 0)} : s \in D}
    BY DEF SnapshotInit, First
  <2>2. \A s \in D : ObjectKey(First(Before[s])) \in Key
    BY <1>11 DEF ObjectKey, Key
  <2> QED BY <2>1, <2>2, <1>2, <1>6 DEF Key
<1>14. RowsFit
  <2>1. reqs \in [Slot -> Req]
    BY IdleFits DEF SnapshotInit
  <2> QED BY <1>1, <1>10, <1>12, <1>13, <2>1 DEF RowsFit, SnapshotInit
<1>15. NothingLeft
  BY <1>8, <1>9 DEF NothingLeft, NoSnapshot
<1>16. ReadyHas
  <2>0. None \notin Object
    BY SnapshotAssumption DEF Object
  <2>1. ASSUME NEW s \in D PROVE snap[s].entry # None /\ snap[s].manifest # None
    <3>1. s \in Snapshot
      BY <1>2
    <3>2. ManifestKey(s, 0) # None
      BY <3>1, <1>6
    <3>3. First(Before[s]) \in Object
      BY <1>11
    <3> QED BY <3>2, <3>3, <1>8, <2>0
  <2> QED BY <1>8, <1>9, <2>1 DEF ReadyHas, Ready, NoSnapshot
<1>17. EntriesFit
  <2>1. ASSUME NEW s \in D
        PROVE  snap[s].entry \in Row /\ OfOne(snap[s].entry, snap[s].recipient, snap[s].content)
    <3>1. PICK o \in Object : o = First(Before[s])
      BY <1>11
    <3>2. sealed[o] = [status |-> "ready", content |-> Before[s], recipient |-> recipient, by |-> o]
      BY <1>11, <3>1
    <3>3. snap[s].entry = o /\ snap[s].recipient = recipient /\ snap[s].content = Before[s]
      BY <1>8, <3>1
    <3> QED BY <3>2, <3>3 DEF Row, OfOne
  <2> QED BY <2>1, <1>9 DEF EntriesFit, NoSnapshot
<1>18. ReqsFit
  BY IdleFits DEF ReqsFit, SnapshotInit
<1>19. RecipientFixed
  <2>1. Building = {}
    BY <1>8, <1>9 DEF Building, NoSnapshot
  <2> QED BY <2>1 DEF RecipientFixed, SnapshotInit
<1> QED BY <1>14, <1>15, <1>16, <1>17, <1>18, <1>19 DEF SnapshotsFit

\* The recipient is kept while something is made for it.
LEMMA RecipientKept ==
    ASSUME SnapshotsFit, RecipientFixed, SnapStep, [SnapshotNext]_snapshotVars
    PROVE  RecipientFixed'
<1>1. CASE \E r \in Recipient : SaveRecipient(r)
  BY <1>1 DEF SaveRecipient, Savable, RecipientFixed, Building, rows
<1>2. CASE /\ recipient' = recipient
           /\ backup'.status = "creating" => backup'.recipient = recipient
  <2>1. ASSUME NEW s \in Snapshot, snap'[s].status = "creating"
        PROVE  snap'[s].recipient = recipient
    <3>1. CASE snap'[s] = snap[s]
      BY <2>1, <3>1 DEF RecipientFixed, Building
    <3>2. CASE Inserted(s)
      BY <3>2 DEF Inserted, NoSnapshot
    <3>3. CASE Deleted(s)
      BY <2>1, <3>3 DEF Deleted, NoSnapshot
    <3>4. CASE Kept(snap[s], snap'[s])
      BY <2>1, <3>4 DEF Kept, RecipientFixed, Building
    <3> QED BY <3>1, <3>2, <3>3, <3>4 DEF SnapStep
  <2> QED BY <1>2, <2>1 DEF RecipientFixed, Building
<1>3. ASSUME NEW c \in Slot, InsertBackup(c) \/ FinishBackup(c)
      PROVE  /\ recipient' = recipient
             /\ backup'.status = "creating" => backup'.recipient = recipient
  <2>1. CASE InsertBackup(c)
    BY <2>1 DEF InsertBackup, RecipientFixed
  <2>2. CASE FinishBackup(c)
    <3>1. \E result \in {"ready", "failed"} : backup'.status = result
      BY <2>2 DEF FinishBackup, SnapshotsFit, RowsFit
    <3> QED BY <2>2, <3>1 DEF FinishBackup
  <2> QED BY <2>1, <2>2, <1>3
<1>4. CASE keys' = keys
  BY <1>2, <1>4 DEF keys, RecipientFixed
<1>5. \/ \E r \in Recipient : SaveRecipient(r)
      \/ \E c \in Slot : InsertBackup(c) \/ FinishBackup(c)
      \/ keys' = keys
  <2>1. ASSUME NEW c \in Slot, Capture(c) PROVE keys' = keys
    BY <2>1 DEF Capture, BeginStart, Insert, Stage, Select, StageFails, BeginContinue, Find,
       InsertObject, PutObject, CompleteObject, PutFails, Attach, PutItem, ItemRow, CountItems,
       CountEntries, Progress, PutManifest, Finalize
  <2>2. ASSUME NEW c \in Slot, Retention(c) PROVE keys' = keys
    BY <2>2 DEF Retention, BeginRetention, Retain, QueueKeys, DeleteSnapshot, DeleteRows, BeginCron,
       Cleanup, Sweep, Check, Erase, EraseFails, Dequeue
  <2>3. ASSUME NEW c \in Slot, Repair(c) PROVE keys' = keys
    BY <2>3 DEF Repair, BeginRepair, RepairManifest, RepairItem, RepairPart, RelinkManifest,
       RelinkItem, RelinkPart, RepairNote, Relink, Verify
  <2>4. ASSUME NEW c \in Slot, BeginBackup(c) \/ Crash(c) PROVE keys' = keys
    BY <2>4 DEF BeginBackup, Crash
  <2>5. ASSUME NEW s \in Snapshot, Cancel(s) \/ Pin(s) \/ \E k \in r2 : Lose(s, k) PROVE keys' = keys
    BY <2>5 DEF Cancel, Pin, Lose
  <2>6. Frail \subseteq Snapshot
    BY SnapshotAssumption
  <2> QED BY <2>1, <2>2, <2>3, <2>4, <2>5, <2>6 DEF SnapshotNext, Day, snapshotVars
<1> QED BY <1>1, <1>2, <1>3, <1>4, <1>5

\* What makes the invariant of snapshots: each of its parts.
LEMMA FitsEnough ==
    ASSUME SnapshotsFit, RecipientFixed
    PROVE  SnapshotInv
<1>1. RowsOK
  <2>1. None \notin Key
    BY SnapshotAssumption DEF Key, PartKey, Object
  <2> QED BY <2>1 DEF RowsOK, SnapshotsFit, RowsFit, SnapshotRow, ObjectRow, Status
<1>2. ReadyComplete
  BY DEF SnapshotsFit, ReadyComplete, ReadyHas, EntriesFit, Ready
<1>3. SameRecipient
  BY DEF SnapshotsFit, SameRecipient, EntriesFit, OfOne
<1> QED BY <1>1, <1>2, <1>3 DEF SnapshotInv

(***************************************************************************)
(* A ready snapshot has its entries and its manifest, all sealed for the   *)
(* recipient it was begun for, which does not change meanwhile: in         *)
(* snapshot-store.ts every statement checks again what earlier ones read.  *)
(***************************************************************************)
THEOREM SnapshotInvariance == SnapshotSpec => []SnapshotInv
<1>1. SnapshotInit => SnapshotsFit /\ RecipientFixed
  BY InitFits
<1>2. SnapshotsFit /\ RecipientFixed /\ [SnapshotNext]_snapshotVars
         => (SnapshotsFit /\ RecipientFixed)'
  BY NextKeeps, RecipientKept DEF StepFits
<1>3. SnapshotsFit /\ RecipientFixed => SnapshotInv
  BY FitsEnough
<1> QED BY <1>1, <1>2, <1>3, PTL DEF SnapshotSpec

(***************************************************************************)
(* Retention (snapshot-retention.ts) never deletes a pinned snapshot nor   *)
(* the newest verified one, whatever was pinned or verified since it       *)
(* chose.                                                                  *)
(***************************************************************************)
THEOREM KnownGoodIsKept == SnapshotSpec => KnownGoodKept
<1>1. SnapshotInit => SnapshotsFit /\ RecipientFixed
  BY InitFits
<1>2. SnapshotsFit /\ RecipientFixed /\ [SnapshotNext]_snapshotVars
         => (SnapshotsFit /\ RecipientFixed)'
  BY NextKeeps, RecipientKept DEF StepFits
<1>3. SnapshotsFit /\ [SnapshotNext]_snapshotVars
         => [\A s \in Snapshot : s \in Ready /\ Protected(s) => snap'[s].status = "ready"]_snapshotVars
  <2>1. SUFFICES ASSUME SnapshotsFit, [SnapshotNext]_snapshotVars, NEW s \in Snapshot,
                        s \in Ready, Protected(s)
                 PROVE  snap'[s].status = "ready"
    OBVIOUS
  <2>2. SnapStep
    BY <2>1, NextKeeps DEF StepFits
  <2>3. snap[s].status = "ready"
    BY <2>1 DEF Ready
  <2> QED BY <2>1, <2>2, <2>3 DEF SnapStep, Inserted, Deleted, Kept
<1> QED BY <1>1, <1>2, <1>3, PTL DEF SnapshotSpec, KnownGoodKept

-----------------------------------------------------------------------------
(* SnapshotStore: what is named stays *)

\* Where a request promises something of a key.
Busy == {"newmanifest", "newitem", "finalize", "itemrow", "erase"}

\* A request that goes on without a promise of its own, holding keys already used.
CalmReqs ==
    \A d \in Slot :
        \/ reqs'[d] = reqs[d]
        \/ reqs'[d].pc \notin Busy /\ \A k \in PartKey : k \in Holds(reqs'[d]) => Used(k)
\* A calm step lets no live snapshot name anything new,
CalmNames ==
    \A s \in Snapshot : /\ snap'[s].manifest \in {None, snap[s].manifest}
                        /\ snap'[s].item \in {None, snap[s].item}
\* writes no replacement and loses nothing but what R2 loses,
CalmStore == copies' = copies /\ gone \subseteq gone' /\ r2 \subseteq r2' \cup gone'
\* and queues only keys already used.
CalmQueue == \A k \in PartKey : k \in queue' => Used(k) \/ ~Pending(k)'

\* After a step like that, what is still to be named was so before.
LEMMA PendingShrinks ==
    ASSUME SnapshotsFit, SnapshotsFit', SnapStep, NEW k \in PartKey, copies' >= copies, Pending(k)',
           \A c \in Slot : Fresh(reqs'[c]) => reqs'[c] = reqs[c] \/ reqs'[c].fresh[3] > copies
    PROVE  Pending(k)
<1>0. copies \in Nat /\ copies' \in Nat /\ k[3] \in Nat
  BY DEF SnapshotsFit, RowsFit, PartKey
<1>1. CASE k[3] > copies'
  BY <1>0, <1>1 DEF Pending
<1>2. ASSUME NEW s \in Snapshot, snap'[s].status \in {"none", "creating"}
      PROVE  snap[s].status \in {"none", "creating"}
  BY <1>2 DEF SnapStep, Inserted, Deleted, Kept, NoSnapshot
<1>3. ASSUME NEW s \in Snapshot, snap'[s].status \in {"none", "creating", "ready"}, snap'[s].item = None
      PROVE  snap[s].status \in {"none", "creating", "ready"} /\ snap[s].item = None
  <2>1. CASE snap'[s] = snap[s]
    BY <1>3, <2>1
  <2>2. CASE Inserted(s)
    BY <2>2 DEF Inserted, SnapshotsFit, NothingLeft
  <2>3. CASE Deleted(s)
    BY <1>3, <2>3 DEF Deleted, NoSnapshot
  <2>4. CASE Kept(snap[s], snap'[s])
    BY <1>3, <2>4 DEF Kept
  <2> QED BY <2>1, <2>2, <2>3, <2>4 DEF SnapStep
<1>4. ASSUME NEW c \in Slot, Fresh(reqs'[c]), k = reqs'[c].fresh
      PROVE  Pending(k)
  BY <1>4 DEF Pending
<1>5. \/ k[3] > copies'
      \/ \E s \in Snapshot : k = ManifestKey(s, 0) /\ snap'[s].status \in {"none", "creating"}
      \/ \E s \in Snapshot : /\ k = ItemKey(s, 0) /\ snap'[s].item = None
                             /\ snap'[s].status \in {"none", "creating", "ready"}
      \/ \E c \in Slot : Fresh(reqs'[c]) /\ k = reqs'[c].fresh
  BY DEF Pending, ManifestKey, ItemKey, Fresh
<1> QED BY <1>1, <1>2, <1>3, <1>4, <1>5 DEF Pending

\* What a step may do with keys: none that is needed goes away,
KeysRemain ==
    \A k \in PartKey :
        k \in r2 \cup gone /\ (Pending(k) \/ \E s \in Snapshot : Live(s) /\ k \in {snap[s].manifest, snap[s].item})
            => k \in r2' \cup gone'
\* the request in c keeps its promises in what it is about to do,
ReqNew(c) ==
    /\ Fresh(reqs'[c]) =>
          /\ reqs'[c].fresh \in PartKey /\ reqs'[c].fresh[3] = copies + 1 /\ copies' = copies + 1
          /\ reqs'[c].fresh \in r2' \cup gone'
    /\ StoredAt(reqs[c])' /\ ErasedAt(reqs[c])'
    /\ \A k \in PartKey : k \in Holds(reqs'[c]) => Used(k) \/ ~Pending(k)'
\* Only one request moves.
OneSlot(c) == \A d \in Slot \ {c} : reqs'[d] = reqs[d]
\* Each request stays, or is the one that moves and keeps its promises.
ReqsNew == \A c \in Slot : reqs'[c] = reqs[c] \/ (ReqNew(c) /\ OneSlot(c))
\* and what a row comes to name was pending, and no longer is.
NameNew(s, old, k) ==
    \/ k \in {None, old}
    \/ Pending(k) /\ ~Pending(k)' /\ k \in r2' \cup gone'
    \/ ~Live(s)' /\ ~Pending(k)'
\* Every row names what it named, or takes a new name legally.
NamesNew ==
    \A s \in Snapshot : \A k :
        /\ k = snap'[s].manifest => NameNew(s, snap[s].manifest, k)
        /\ k = snap'[s].item => NameNew(s, snap[s].item, k)

\* A live snapshot was live before, or has just begun.
LEMMA LiveBefore ==
    ASSUME SnapshotsFit, SnapStep, NEW s \in Snapshot, Live(s)'
    PROVE  Live(s) \/ (snap'[s].manifest = None /\ snap'[s].item = None)
  BY DEF SnapStep, Inserted, Deleted, Kept, NoSnapshot, Live

\* Those steps keep the five parts of KeysFit.
LEMMA PendingUnusedKept ==
    ASSUME SnapshotsFit, KeysFit, StepFits, copies' >= copies, ReqsNew, NamesNew, CalmQueue
    PROVE  PendingUnused'
<1>1. SUFFICES ASSUME NEW k \in PartKey, Pending(k)', Used(k)' PROVE FALSE
  BY DEF PendingUnused
<1>2. \A c \in Slot : reqs'[c] = reqs[c] \/ ReqNew(c)
  BY DEF ReqsNew
<1>3. \A d \in Slot : Fresh(reqs'[d]) => reqs'[d] = reqs[d] \/ reqs'[d].fresh[3] > copies
  <2>1. copies \in Nat
    BY DEF SnapshotsFit, RowsFit
  <2> QED BY <1>2, <2>1 DEF ReqNew
<1>4. Pending(k)
  BY <1>1, <1>3, PendingShrinks DEF StepFits
<1>5. ~Used(k) /\ k # None
  BY <1>4, SnapshotAssumption DEF KeysFit, PendingUnused, PartKey
<1>6. \A s \in Snapshot : k \notin {snap'[s].manifest, snap'[s].item}
  <2>1. SUFFICES ASSUME NEW s \in Snapshot, k \in {snap'[s].manifest, snap'[s].item} PROVE FALSE
    OBVIOUS
  <2>2. k \notin {None, snap[s].manifest, snap[s].item}
    BY <1>5 DEF Used
  <2>3. CASE k = snap'[s].manifest
    <3>1. NameNew(s, snap[s].manifest, k)
      BY <2>3 DEF NamesNew
    <3> QED BY <3>1, <2>2, <1>1 DEF NameNew
  <2>4. CASE k = snap'[s].item
    <3>1. NameNew(s, snap[s].item, k)
      BY <2>4 DEF NamesNew
    <3> QED BY <3>1, <2>2, <1>1 DEF NameNew
  <2> QED BY <2>1, <2>3, <2>4
<1>7. k \notin queue'
  BY <1>1, <1>5 DEF CalmQueue
<1>8. ASSUME NEW d \in Slot PROVE k \notin Holds(reqs'[d])
  <2>1. CASE reqs'[d] = reqs[d]
    BY <2>1, <1>5 DEF Used
  <2>2. CASE ReqNew(d)
    BY <2>2, <1>5, <1>1 DEF ReqNew
  <2> QED BY <2>1, <2>2, <1>2
<1> QED BY <1>1, <1>6, <1>7, <1>8 DEF Used, Holds

\* Fresh keys stay apart.
LEMMA FreshKept ==
    ASSUME SnapshotsFit, KeysFit, copies' \in Nat, copies' >= copies, KeysRemain, ReqsNew
    PROVE  FreshOnes'
<1>1. \A c \in Slot : reqs'[c] = reqs[c] \/ (ReqNew(c) /\ \A d \in Slot \ {c} : reqs'[d] = reqs[d])
  BY DEF ReqsNew, OneSlot
<1>2. copies \in Nat
  BY DEF SnapshotsFit, RowsFit
<1>3. ASSUME NEW d \in Slot, Fresh(reqs[d]), reqs'[d] = reqs[d]
      PROVE  /\ reqs'[d].fresh \in PartKey /\ reqs'[d].fresh[3] \in 1..copies
             /\ reqs'[d].fresh \in r2' \cup gone'
  <2>1. PICK k \in PartKey : k = reqs[d].fresh /\ k[3] \in 1..copies /\ k \in r2 \cup gone
    BY <1>3 DEF KeysFit, FreshOnes
  <2>2. Pending(k)
    BY <1>3, <2>1 DEF Pending
  <2> QED BY <1>3, <2>1, <2>2 DEF KeysRemain
<1>4. ASSUME NEW d \in Slot, Fresh(reqs'[d]), reqs'[d] # reqs[d]
      PROVE  /\ OneSlot(d) /\ reqs'[d].fresh \in PartKey /\ reqs'[d].fresh[3] = copies + 1
             /\ reqs'[d].fresh \in r2' \cup gone' /\ copies' = copies + 1
  BY <1>1, <1>4 DEF ReqNew, OneSlot
<1>5. ASSUME NEW d \in Slot, Fresh(reqs'[d])
      PROVE  /\ reqs'[d].fresh \in PartKey /\ reqs'[d].fresh[3] \in 1..copies'
             /\ reqs'[d].fresh \in r2' \cup gone'
  BY <1>2, <1>3, <1>4, <1>5
<1>6. ASSUME NEW d \in Slot, NEW e \in Slot, Fresh(reqs'[d]), Fresh(reqs'[e]), d # e
      PROVE  reqs'[d].fresh # reqs'[e].fresh
  <2>1. CASE reqs'[d] = reqs[d] /\ reqs'[e] = reqs[e]
    BY <1>6, <2>1 DEF KeysFit, FreshOnes
  <2>2. CASE reqs'[d] # reqs[d]
    <3>1. reqs'[e] = reqs[e]
      BY <1>4, <1>6, <2>2 DEF OneSlot
    <3>2. reqs'[e].fresh[3] \in 1..copies /\ reqs'[d].fresh[3] = copies + 1
      BY <1>3, <1>4, <1>6, <2>2, <3>1
    <3> QED BY <3>2, <1>2
  <2>3. CASE reqs'[e] # reqs[e]
    <3>1. reqs'[d] = reqs[d]
      BY <1>4, <1>6, <2>3 DEF OneSlot
    <3>2. reqs'[d].fresh[3] \in 1..copies /\ reqs'[e].fresh[3] = copies + 1
      BY <1>3, <1>4, <1>6, <2>3, <3>1
    <3> QED BY <3>2, <1>2
  <2> QED BY <2>1, <2>2, <2>3
<1> QED BY <1>5, <1>6 DEF FreshOnes, Fresh

\* What is about to be named stays written.
LEMMA StoredKept ==
    ASSUME SnapshotsFit, KeysFit, SnapStep, KeysRemain, ReqsNew
    PROVE  Stored'
<1>1. SUFFICES ASSUME NEW d \in Slot, reqs'[d] = reqs[d] PROVE StoredAt(reqs[d])'
  BY DEF Stored, ReqsNew, ReqNew
<1>2. SUFFICES ASSUME reqs[d].pc \in {"finalize", "itemrow"}
               PROVE  StoredAt(reqs[d])'
  BY <1>1 DEF StoredAt
<1>3. PICK s \in Snapshot : s = reqs[d].snapshot
  BY <1>2, ReqHere, Shapes DEF PublishReq, CaptureReq
<1>4. snap[s].status # "none"
  BY <1>2, <1>3, ReqHere DEF ReqFits, StartFits, CopyFits, Copying
<1>5. snap'[s] = snap[s] \/ Deleted(s) \/ Kept(snap[s], snap'[s])
  BY <1>4 DEF SnapStep, Inserted
<1>6. ASSUME reqs[d].pc = "finalize", snap'[s].status = "creating"
      PROVE  ManifestKey(s, 0) \in r2' \cup gone'
  <2>1. snap[s].status = "creating"
    BY <1>5, <1>6 DEF Deleted, Kept, NoSnapshot
  <2>2. PICK k \in PartKey : k = ManifestKey(s, 0)
    BY DEF ManifestKey, PartKey
  <2>3. k \in r2 \cup gone
    BY <2>1, <2>2, <1>3, <1>6 DEF KeysFit, Stored, StoredAt
  <2>4. Pending(k)
    BY <2>1, <2>2 DEF Pending
  <2> QED BY <2>2, <2>3, <2>4 DEF KeysRemain
<1>7. ASSUME reqs[d].pc = "itemrow", Live(s)', snap'[s].item = None
      PROVE  ItemKey(s, 0) \in r2' \cup gone'
  <2>1. Live(s) /\ snap[s].item = None
    <3>1. snap'[s].status \in {"creating", "ready"}
      BY <1>7 DEF Live
    <3>2. CASE snap'[s] = snap[s]
      BY <3>1, <3>2, <1>7 DEF Live
    <3>3. CASE Deleted(s)
      BY <3>1, <3>3 DEF Deleted, NoSnapshot
    <3>4. CASE Kept(snap[s], snap'[s])
      BY <3>1, <3>4, <1>7 DEF Kept, Live
    <3> QED BY <1>5, <3>2, <3>3, <3>4
  <2>2. PICK k \in PartKey : k = ItemKey(s, 0)
    BY DEF ItemKey, PartKey
  <2>3. k \in r2 \cup gone
    BY <2>1, <2>2, <1>3, <1>7 DEF KeysFit, Stored, StoredAt
  <2>4. Pending(k)
    BY <2>1, <2>2 DEF Pending, Live
  <2> QED BY <2>2, <2>3, <2>4 DEF KeysRemain
<1>8. reqs'[d].snapshot = s /\ reqs'[d].pc = reqs[d].pc
  BY <1>1, <1>3
<1> QED BY <1>6, <1>7, <1>8 DEF StoredAt, ManifestKey, ItemKey, Live

\* What is about to be erased stays unnamed.
LEMMA ErasedKept ==
    ASSUME SnapshotsFit, KeysFit, SnapStep, ReqsNew, NamesNew
    PROVE  ErasedUnnamed'
<1>1. SUFFICES ASSUME NEW d \in Slot, reqs'[d] = reqs[d], reqs[d].pc = "erase", NEW s \in Snapshot,
                      Live(s)', reqs[d].key \in {snap'[s].manifest, snap'[s].item}
               PROVE  FALSE
  BY DEF ErasedUnnamed, ErasedAt, ReqsNew, ReqNew, Live
<1>2. PICK k : k = reqs[d].key
  OBVIOUS
<1>3. k \in Key /\ k # None
  <2>1. k \in Key
    BY <1>1, <1>2, ReqHere, Shapes DEF EraseReq
  <2> QED BY <2>1, SnapshotAssumption DEF Key, PartKey, Object
<1>4. k \in Holds(reqs[d])
  BY <1>1, <1>2 DEF Holds
<1>5. ~Pending(k)
  <2>1. Used(k)
    BY <1>4 DEF Used
  <2> QED BY <2>1 DEF KeysFit, PendingUnused, Pending
<1>6. Live(s)
  BY <1>1, <1>2, <1>3, LiveBefore
<1>7. k \notin {snap[s].manifest, snap[s].item}
  BY <1>1, <1>2, <1>6 DEF KeysFit, ErasedUnnamed, ErasedAt
<1>8. NameNew(s, snap[s].manifest, k) \/ NameNew(s, snap[s].item, k)
  BY <1>1, <1>2 DEF NamesNew
<1> QED BY <1>1, <1>3, <1>5, <1>7, <1>8 DEF NameNew

\* What is named stays in R2.
LEMMA NamesKeptOn ==
    ASSUME SnapshotsFit, KeysFit, SnapStep, KeysRemain, NamesNew
    PROVE  NamesKept'
<1>1. SUFFICES ASSUME NEW s \in Snapshot, Live(s)',
                      NEW k \in {snap'[s].manifest, snap'[s].item}, k # None
               PROVE  k \in r2' \cup gone'
  BY DEF NamesKept, Live
<1>2. NameNew(s, snap[s].manifest, k) \/ NameNew(s, snap[s].item, k)
  BY <1>1 DEF NamesNew
<1>3. CASE k \in {snap[s].manifest, snap[s].item}
  <2>1. Live(s)
    BY <1>1, LiveBefore
  <2>2. k \in r2 \cup gone
    BY <1>1, <1>3, <2>1 DEF KeysFit, NamesKept
  <2>3. k \in PartKey
    BY <1>1, <1>3 DEF SnapshotsFit, RowsFit, SnapshotRow, Name
  <2> QED BY <1>3, <2>1, <2>2, <2>3 DEF KeysRemain
<1> QED BY <1>1, <1>2, <1>3 DEF NameNew

\* All five together.
LEMMA KeysStep ==
    ASSUME SnapshotsFit, KeysFit, StepFits, copies' >= copies, KeysRemain, ReqsNew, NamesNew, CalmQueue
    PROVE  KeysFit'
<1>1. copies' \in Nat /\ SnapStep
  BY DEF StepFits, SnapshotsFit, RowsFit
<1> QED BY <1>1, PendingUnusedKept, FreshKept, StoredKept, ErasedKept, NamesKeptOn DEF KeysFit

\* A calm step keeps them all.
LEMMA KeysCalm ==
    ASSUME SnapshotsFit, KeysFit, StepFits, \A c \in Slot : reqs'[c] = reqs[c] \/ OneSlot(c),
           CalmReqs, CalmNames, CalmStore, CalmQueue
    PROVE  KeysFit'
<1>1. copies' >= copies
  BY DEF CalmStore, SnapshotsFit, RowsFit
<1>2. KeysRemain
  BY DEF KeysRemain, CalmStore
<1>3. NamesNew
  BY DEF NamesNew, NameNew, CalmNames
<1>4. \A c \in Slot : reqs'[c] = reqs[c] \/ ReqNew(c)
  BY DEF CalmReqs, ReqNew, StoredAt, ErasedAt, Fresh, Busy
<1>5. ReqsNew
  BY <1>4 DEF ReqsNew
<1> QED BY <1>1, <1>2, <1>3, <1>5, KeysStep

-----------------------------------------------------------------------------
(* Steps that have no part in naming *)

\* The steps that have no part in naming.
Calm == CalmReqs /\ CalmNames /\ CalmStore /\ CalmQueue

\* Where a request holds no key.
Light == {"idle", "insert", "stage", "select", "tally", "progress", "manifest", "retain", "queue",
          "delete", "rows", "cleanup", "sweep", "backup", "encrypt"}

\* A request there holds no key.
LEMMA LightHolds ==
    ASSUME NEW q, q.pc \in Light
    PROVE  q.pc \notin Busy /\ Holds(q) = {}
  BY DEF Light, Busy, Holds, Copying

\* Moving a request that holds nothing new is calm.
LEMMA PutCalm ==
    ASSUME SnapshotsFit, NEW c \in Slot, NEW q, reqs' = [reqs EXCEPT ![c] = q], q.pc \notin Busy,
           \A k \in PartKey : k \in Holds(q) => Used(k)
    PROVE  CalmReqs
<1>1. reqs'[c] = q /\ \A d \in Slot \ {c} : reqs'[d] = reqs[d]
  BY DEF SnapshotsFit, RowsFit
<1> QED BY <1>1 DEF CalmReqs

\* Moving it where it holds none is.
LEMMA LightCalm ==
    ASSUME SnapshotsFit, NEW c \in Slot, NEW q, reqs' = [reqs EXCEPT ![c] = q], q.pc \in Light
    PROVE  CalmReqs
  BY LightHolds, PutCalm

\* Ending it is.
LEMMA DoneCalm ==
    ASSUME SnapshotsFit, NEW c \in Slot, Done(c)
    PROVE  CalmReqs
  BY LightCalm, IdleFits DEF Done, Light

\* Going on is, where nothing is promised.
LEMMA GoCalm ==
    ASSUME SnapshotsFit, NEW c \in Slot, NEW p \in Light, Goto(c, p), reqs[c].pc # "idle"
    PROVE  CalmReqs
<1>1. reqs[c] \in Req
  BY ReqHere
<1>2. [reqs[c] EXCEPT !.pc = p].pc = p
  BY <1>1 DEF Req, Idle, StartReq, StageReq, CaptureReq, TallyReq, PublishReq, MaintainReq, RetainReq,
         SweepReq, EraseReq, RepairReq, BackupReq
<1> DEFINE q == [reqs[c] EXCEPT !.pc = p]
<1>3. reqs' = [reqs EXCEPT ![c] = q] /\ q.pc \in Light
  BY <1>2, Going
<1> HIDE DEF q
<1> QED BY <1>3, LightCalm

\* A capture's step is.
LEMMA ContinueCalm ==
    ASSUME SnapshotsFit, NEW c \in Slot, NEW q \in CaptureReq, reqs' = [reqs EXCEPT ![c] = q],
           q.pc # "itemrow"
    PROVE  CalmReqs
<1>1. q.pc \notin Busy /\ Holds(q) = {}
  BY DEF CaptureReq, Busy, Holds
<1> QED BY <1>1, PutCalm

\* A repair's step is.
LEMMA RepairCalm ==
    ASSUME SnapshotsFit, NEW c \in Slot, NEW q \in RepairReq, reqs' = [reqs EXCEPT ![c] = q],
           q.pc \notin Busy, reqs[c] \in RepairReq, reqs[c].pc # "sweep",
           q.manifest = reqs[c].manifest,
           q.item = reqs[c].item \/ (\E s \in Snapshot : q.item = snap[s].item)
    PROVE  CalmReqs
<1>1. Holds(reqs[c]) = {reqs[c].manifest, reqs[c].item}
  BY DEF Holds, RepairReq, Copying
<1>2. Holds(q) \subseteq {q.manifest, q.item}
  BY DEF Holds, RepairReq
<1>3. \A k \in PartKey : k \in Holds(q) => Used(k)
  BY <1>1, <1>2 DEF Used
<1> QED BY <1>3, PutCalm

\* No move at all is.
LEMMA StillCalm ==
    ASSUME UNCHANGED <<stored, queued>>
    PROVE  CalmStore /\ CalmQueue
  BY DEF stored, queued, CalmStore, CalmQueue, Used

\* Calm: a request begins,
LEMMA BeginCalm ==
    ASSUME SnapshotsFit, NEW c \in Slot,
           \/ BeginStart(c) \/ BeginRetention(c) \/ BeginCron(c) \/ BeginBackup(c)
    PROVE  Calm
<1>1. CalmStore /\ CalmQueue
  BY StillCalm DEF BeginStart, BeginRetention, BeginCron, BeginBackup
<1>2. CalmNames
  BY DEF BeginStart, BeginRetention, BeginCron, BeginBackup, rows, CalmNames
<1>3. PICK q \in {[pc |-> "insert", recipient |-> recipient], [pc |-> "retain"],
                  [pc |-> "cleanup"], [pc |-> "backup", recipient |-> recipient]} :
         reqs' = [reqs EXCEPT ![c] = q]
  BY DEF BeginStart, BeginRetention, BeginCron, BeginBackup, Begin
<1>4. q.pc \in Light
  BY DEF Light
<1>5. CalmReqs
  BY <1>3, <1>4, LightCalm
<1> QED BY <1>1, <1>2, <1>5 DEF Calm

\* a snapshot is inserted,
LEMMA InsertCalm ==
    ASSUME SnapshotsFit, NEW c \in Slot, NEW note \in Content, Insert(c, note)
    PROVE  Calm
<1>1. CalmStore /\ CalmQueue
  BY StillCalm DEF Insert
<1>2. CASE Done(c) /\ UNCHANGED snap
  BY <1>1, <1>2, DoneCalm DEF Calm, CalmNames
<1>3. CASE ~(Done(c) /\ UNCHANGED snap)
  <2>1. PICK s \in Snapshot :
           /\ snap' = [snap EXCEPT ![s] = [NoSnapshot EXCEPT !.status = "creating",
                       !.recipient = reqs[c].recipient, !.content = note]]
           /\ reqs' = [reqs EXCEPT ![c] = [pc |-> "stage", snapshot |-> s]]
    BY <1>3 DEF Insert
  <2>2. CalmNames
    <3>1. snap \in [Snapshot -> SnapshotRow]
      BY DEF SnapshotsFit, RowsFit
    <3> DEFINE row == [NoSnapshot EXCEPT !.status = "creating",
                          !.recipient = reqs[c].recipient, !.content = note]
    <3>2. row.manifest = None /\ row.item = None
      BY DEF NoSnapshot
    <3>3. snap' = [snap EXCEPT ![s] = row]
      BY <2>1
    <3> HIDE DEF row
    <3> QED BY <3>1, <3>2, <3>3 DEF CalmNames
  <2>3. CalmReqs
    BY <2>1, LightCalm DEF Light
  <2> QED BY <1>1, <2>2, <2>3 DEF Calm
<1> QED BY <1>2, <1>3

\* Changes of a row that leave its names alone.
LEMMA FieldCalm ==
    ASSUME SnapshotsFit, NEW s, NEW v,
           \/ snap' = snap
           \/ snap' = [snap EXCEPT ![s].staged = v] \/ snap' = [snap EXCEPT ![s].selected = v]
           \/ snap' = [snap EXCEPT ![s].status = v] \/ snap' = [snap EXCEPT ![s].pinned = v]
           \/ snap' = [snap EXCEPT ![s].entry = v] \/ snap' = [snap EXCEPT ![s].processed = v]
           \/ snap' = [snap EXCEPT ![s].integrity = v]
    PROVE  CalmNames
  BY DEF SnapshotsFit, RowsFit, SnapshotRow, CalmNames

\* staged or fails to be,
LEMMA StageCalm ==
    ASSUME SnapshotsFit, NEW c \in Slot, Stage(c) \/ Select(c) \/ StageFails(c)
    PROVE  Calm
<1>1. CalmStore /\ CalmQueue
  BY StillCalm DEF Stage, Select, StageFails
<1>2. CalmNames
  <2>1. CASE Stage(c)
    BY <2>1, FieldCalm DEF Stage
  <2>2. CASE Select(c)
    BY <2>2, FieldCalm DEF Select
  <2>3. CASE StageFails(c)
    BY <2>3, FieldCalm DEF StageFails
  <2> QED BY <2>1, <2>2, <2>3
<1>3. CalmReqs
  BY GoCalm, DoneCalm DEF Stage, Select, StageFails, Light
<1> QED BY <1>1, <1>2, <1>3 DEF Calm

\* continued: objects, entries and items,
LEMMA ContinuesCalm ==
    ASSUME SnapshotsFit, NEW c \in Slot,
           \/ \E s \in Snapshot : BeginContinue(c, s)
           \/ Find(c) \/ Attach(c)
    PROVE  Calm
<1>1. CalmStore /\ CalmQueue
  BY StillCalm DEF BeginContinue, Find, Attach
<1>2. CalmNames
  <2>1. CASE Attach(c)
    BY <2>1, FieldCalm DEF Attach
  <2> QED BY <2>1 DEF BeginContinue, Find, rows, CalmNames
<1>3. CalmReqs
  <2>1. ASSUME NEW s \in Snapshot, BeginContinue(c, s) PROVE CalmReqs
    <3> DEFINE p == IF snap[s].staged /\ snap[s].entry = None THEN "find" ELSE "item"
               q == [pc |-> p, kind |-> "continue", snapshot |-> s, recipient |-> recipient,
                     note |-> snap[s].content, object |-> None]
    <3>0. p \in {"find", "item"}
      OBVIOUS
    <3>1. reqs' = [reqs EXCEPT ![c] = q]
      BY <2>1 DEF BeginContinue, Begin
    <3> HIDE DEF p
    <3>2. q.pc \notin Busy /\ Holds(q) = {}
      BY <3>0 DEF Busy, Holds
    <3> HIDE DEF q
    <3> QED BY <3>1, <3>2, PutCalm
  <2>2. CASE Find(c)
    <3>1. reqs[c] \in CaptureReq
      BY <2>2, ReqHere, Shapes DEF Find
    <3>2. CASE Goto(c, "create")
      <4>1. [reqs[c] EXCEPT !.pc = "create"] \in CaptureReq /\ [reqs[c] EXCEPT !.pc = "create"].pc = "create"
        BY <3>1 DEF CaptureReq
      <4> QED BY <3>2, <4>1, Going, ContinueCalm
    <3>3. ASSUME NEW o \in Object, reqs' = [reqs EXCEPT ![c].pc = "attach", ![c].object = o]
          PROVE  CalmReqs
      <4>1. PICK q \in CaptureReq : q = [reqs[c] EXCEPT !.pc = "attach", !.object = o]
        <5>1. [reqs[c] EXCEPT !.pc = "attach", !.object = o] \in CaptureReq
          BY <3>1 DEF CaptureReq
        <5> QED BY <5>1
      <4>2. q.pc = "attach"
        BY <3>1, <4>1 DEF CaptureReq
      <4>3. reqs' = [reqs EXCEPT ![c] = q]
        BY <3>1, <3>3, <4>1 DEF SnapshotsFit, RowsFit, CaptureReq
      <4> QED BY <4>2, <4>3, ContinueCalm
    <3>4. CASE UNCHANGED reqs
      BY <3>4 DEF CalmReqs
    <3> QED BY <2>2, <3>2, <3>3, <3>4 DEF Find
  <2>3. CASE Attach(c)
    <3>1. reqs[c] \in CaptureReq
      BY <2>3, ReqHere, Shapes DEF Attach
    <3>2. [reqs[c] EXCEPT !.pc = "item"] \in CaptureReq /\ [reqs[c] EXCEPT !.pc = "item"].pc = "item"
      BY <3>1 DEF CaptureReq
    <3>3. Goto(c, "item") \/ Done(c)
      BY <2>3 DEF Attach
    <3> QED BY <3>2, <3>3, Going, ContinueCalm, DoneCalm
  <2> QED BY <2>1, <2>2, <2>3
<1> QED BY <1>1, <1>2, <1>3 DEF Calm

\* counted and recorded,
LEMMA CountsCalm ==
    ASSUME SnapshotsFit, NEW c \in Slot, CountItems(c) \/ CountEntries(c) \/ Progress(c)
    PROVE  Calm
<1>1. CalmStore /\ CalmQueue
  BY StillCalm DEF CountItems, CountEntries, Progress
<1>2. CalmNames
  <2>1. CASE Progress(c)
    BY <2>1, FieldCalm DEF Progress
  <2> QED BY <2>1 DEF CountItems, CountEntries, rows, CalmNames
<1>3. CASE Progress(c)
  BY <1>3, <1>1, <1>2, GoCalm, DoneCalm DEF Progress, Light, Calm
<1>4. CASE CountItems(c)
  <2> DEFINE q == [pc |-> "tally", snapshot |-> reqs[c].snapshot,
                   lacking |-> Lacking(reqs[c].snapshot)]
  <2>1. reqs' = [reqs EXCEPT ![c] = q] /\ q.pc = "tally"
    BY <1>4 DEF CountItems
  <2> HIDE DEF q
  <2> QED BY <1>1, <1>2, <2>1, LightCalm DEF Light, Calm
<1>5. CASE CountEntries(c)
  <2> DEFINE s == reqs[c].snapshot
             has == snap[s].entry # None
             q == [pc |-> "progress", snapshot |-> s, processed |-> IF has THEN 1 ELSE 0,
                   all |-> (snap[s].staged => has) /\ ~reqs[c].lacking]
  <2>1. reqs' = [reqs EXCEPT ![c] = q] /\ q.pc = "progress"
    BY <1>5 DEF CountEntries
  <2> HIDE DEF q
  <2> QED BY <1>1, <1>2, <2>1, LightCalm DEF Light, Calm
<1> QED BY <1>3, <1>4, <1>5

\* The key of an object is not that of a manifest or an item.
LEMMA ObjectNotPart ==
    ASSUME NEW o, NEW k \in PartKey
    PROVE  k # ObjectKey(o)
  BY DEF PartKey, ObjectKey

\* Requests that may be a capture's or a repair's, going on.
LEMMA SharedCalm ==
    ASSUME SnapshotsFit, NEW c \in Slot, reqs[c] \in CaptureReq \cup RepairReq,
           reqs[c].pc \in {"create", "put", "complete"},
           NEW q \in CaptureReq \cup RepairReq, reqs' = [reqs EXCEPT ![c] = q],
           q.pc \in {"create", "put", "complete", "attach", "relink"}, q.kind = reqs[c].kind,
           q.kind = "repair" => q.manifest = reqs[c].manifest /\ q.item = reqs[c].item
    PROVE  CalmReqs
<1>1. CASE q \in CaptureReq
  BY <1>1, ContinueCalm
<1>2. CASE q \in RepairReq
  <2>1. q.kind = "repair" /\ reqs[c] \in RepairReq /\ reqs[c].pc # "sweep" /\ q.pc \notin Busy
    BY <1>2 DEF CaptureReq, RepairReq, Busy
  <2> QED BY <1>2, <2>1, RepairCalm
<1> QED BY <1>1, <1>2

\* its objects written,
LEMMA ObjectsCalm ==
    ASSUME SnapshotsFit, NEW c \in Slot,
           InsertObject(c) \/ PutObject(c) \/ CompleteObject(c) \/ PutFails(c)
    PROVE  Calm
<1>1. CalmStore /\ CalmQueue
  <2>1. CASE PutObject(c)
    BY <2>1 DEF PutObject, CalmStore, CalmQueue, queued, Used
  <2> QED BY <2>1, StillCalm DEF InsertObject, CompleteObject, PutFails
<1>2. CalmNames
  BY DEF InsertObject, PutObject, CompleteObject, PutFails, rows, CalmNames
<1>3. reqs[c] \in CaptureReq \cup RepairReq /\ reqs[c].pc \in {"create", "put", "complete"}
  BY ReqHere, Shapes DEF InsertObject, PutObject, CompleteObject, PutFails
<1>4. ASSUME NEW p \in {"complete", "attach", "relink"}, Goto(c, p),
             p = "attach" => reqs[c].kind # "repair", p = "relink" => reqs[c].kind = "repair"
      PROVE  CalmReqs
  <2>1. PICK q : q = [reqs[c] EXCEPT !.pc = p]
    OBVIOUS
  <2>2. q \in CaptureReq \cup RepairReq
    BY <1>3, <1>4, <2>1 DEF CaptureReq, RepairReq
  <2>3. /\ q.pc = p /\ q.kind = reqs[c].kind
        /\ q.kind = "repair" => q.manifest = reqs[c].manifest /\ q.item = reqs[c].item
    BY <1>3, <2>1 DEF CaptureReq, RepairReq
  <2>4. reqs' = [reqs EXCEPT ![c] = q]
    BY <1>4, <2>1, Going
  <2> QED BY <1>3, <1>4, <2>2, <2>3, <2>4, SharedCalm
<1>5. ASSUME NEW o \in Object, reqs' = [reqs EXCEPT ![c].pc = "put", ![c].object = o]
      PROVE  CalmReqs
  <2>1. PICK q : q = [reqs[c] EXCEPT !.pc = "put", !.object = o]
    OBVIOUS
  <2>2. q \in CaptureReq \cup RepairReq
    BY <1>3, <2>1 DEF CaptureReq, RepairReq
  <2>3. /\ q.pc = "put" /\ q.kind = reqs[c].kind
        /\ q.kind = "repair" => q.manifest = reqs[c].manifest /\ q.item = reqs[c].item
    BY <1>3, <2>1 DEF CaptureReq, RepairReq
  <2>4. reqs' = [reqs EXCEPT ![c] = q]
    BY <1>3, <1>5, <2>1 DEF SnapshotsFit, RowsFit, CaptureReq, RepairReq
  <2> QED BY <1>3, <2>2, <2>3, <2>4, SharedCalm
<1>6. CASE InsertObject(c)
  BY <1>1, <1>2, <1>5, <1>6, DoneCalm DEF InsertObject, Calm
<1>7. CASE PutObject(c)
  BY <1>1, <1>2, <1>4, <1>7 DEF PutObject, Calm
<1>8. CASE CompleteObject(c)
  <2>1. CASE reqs[c].kind = "repair"
    BY <1>1, <1>2, <1>4, <1>8, <2>1, DoneCalm DEF CompleteObject, Calm
  <2>2. CASE reqs[c].kind # "repair"
    BY <1>1, <1>2, <1>4, <1>8, <2>2, DoneCalm DEF CompleteObject, Calm
  <2> QED BY <2>1, <2>2
<1>9. CASE PutFails(c)
  BY <1>1, <1>2, <1>9, DoneCalm DEF PutFails, Calm
<1> QED BY <1>6, <1>7, <1>8, <1>9

\* a retention run chooses,
LEMMA RetainCalm ==
    ASSUME SnapshotsFit, NEW c \in Slot, Retain(c) \/ Sweep(c)
    PROVE  Calm
<1>1. CalmStore /\ CalmQueue /\ CalmNames
  BY StillCalm DEF Retain, Sweep, rows, CalmNames
<1>2. CASE Retain(c)
  <2>1. PICK chosen \in Selections :
           reqs' = [reqs EXCEPT ![c] = [pc |-> IF chosen = {} THEN "sweep" ELSE "queue",
                                        todo |-> chosen]]
    BY <1>2 DEF Retain
  <2> DEFINE q == [pc |-> IF chosen = {} THEN "sweep" ELSE "queue", todo |-> chosen]
  <2>2. q.pc \in Light /\ reqs' = [reqs EXCEPT ![c] = q]
    BY <2>1 DEF Light
  <2> HIDE DEF q
  <2> QED BY <1>1, <2>2, LightCalm DEF Calm
<1>3. CASE Sweep(c)
  <2> DEFINE q == IF aged = {} THEN Idle ELSE [pc |-> "check", todo |-> aged]
  <2>1. reqs' = [reqs EXCEPT ![c] = q]
    BY <1>3 DEF Sweep
  <2>2. q.pc \in {"idle", "check"} /\ (q.pc = "check" => q.todo = aged)
    BY DEF Idle
  <2> HIDE DEF q
  <2>3. q.pc \notin Busy /\ Holds(q) \subseteq aged
    BY <2>2 DEF Busy, Holds, Copying
  <2>4. \A k \in PartKey : k \in Holds(q) => Used(k)
    BY <2>3 DEF Used, SnapshotsFit, RowsFit
  <2> QED BY <1>1, <2>1, <2>3, <2>4, PutCalm DEF Calm
<1> QED BY <1>2, <1>3

\* goes to the next snapshot,
LEMMA NextTodoCalm ==
    ASSUME SnapshotsFit, NEW c \in Slot, reqs[c] \in RetainReq, NEW s,
           reqs' = [reqs EXCEPT ![c].todo = @ \ {s},
                                ![c].pc = IF reqs[c].todo = {s} THEN "sweep" ELSE "queue"]
    PROVE  CalmReqs
<1>1. /\ reqs'[c].pc \in {"sweep", "queue"}
      /\ \A d \in Slot \ {c} : reqs'[d] = reqs[d]
  BY DEF SnapshotsFit, RowsFit, RetainReq
<1>2. reqs'[c].pc \notin Busy /\ Holds(reqs'[c]) = {}
  BY <1>1 DEF Busy, Holds, Copying
<1> QED BY <1>1, <1>2 DEF CalmReqs

\* deletes it and its rows,
LEMMA DeletionCalm ==
    ASSUME SnapshotsFit, NEW c \in Slot, QueueKeys(c) \/ DeleteSnapshot(c) \/ DeleteRows(c)
    PROVE  Calm
<1> DEFINE s == Min(reqs[c].todo)
<1>0. reqs[c] \in RetainReq /\ ReqFits(reqs[c]) /\ reqs[c].pc \in {"queue", "delete", "rows"}
  BY ReqHere, Shapes DEF QueueKeys, DeleteSnapshot, DeleteRows
<1>1. s \in Snapshot
  <2>1. reqs[c].todo \in SUBSET Snapshot /\ reqs[c].todo \in SUBSET Nat /\ reqs[c].todo # {}
    BY <1>0 DEF RetainReq, ReqFits, TodoFits, Snapshot
  <2> QED BY <2>1, MinIn
<1> HIDE DEF s
<1>2. CalmReqs
  <2>1. CASE reqs' = [reqs EXCEPT ![c].todo = @ \ {s},
                                  ![c].pc = IF reqs[c].todo = {s} THEN "sweep" ELSE "queue"]
    BY <1>0, <2>1, NextTodoCalm
  <2>2. CASE Goto(c, "delete") \/ Goto(c, "rows")
    BY <1>0, <2>2, GoCalm DEF Light
  <2> QED BY <2>1, <2>2 DEF QueueKeys, DeleteSnapshot, DeleteRows, s
<1>3. CalmStore
  BY DEF QueueKeys, DeleteSnapshot, DeleteRows, stored, CalmStore
<1>4. CalmQueue
  <2>1. CASE queue' = queue
    BY <2>1 DEF CalmQueue, Used
  <2>2. CASE queue' = queue \cup (OwnKeys(s) \ {None})
    <3>1. ASSUME NEW k \in PartKey, k \in OwnKeys(s) PROVE Used(k)
      BY <1>1, <3>1, ObjectNotPart DEF OwnKeys, Used
    <3> QED BY <2>2, <3>1 DEF CalmQueue, Used
  <2> QED BY <2>1, <2>2 DEF QueueKeys, DeleteSnapshot, DeleteRows, queued, s
<1>5. CalmNames
  <2>1. CASE snap' = snap
    BY <2>1 DEF CalmNames
  <2>2. CASE snap' = [snap EXCEPT ![s] = [NoSnapshot EXCEPT !.status = "deleted"]]
    <3> DEFINE row == [NoSnapshot EXCEPT !.status = "deleted"]
    <3>1. row.manifest = None /\ row.item = None
      BY DEF NoSnapshot
    <3>2. snap' = [snap EXCEPT ![s] = row] /\ snap \in [Snapshot -> SnapshotRow]
      BY <2>2 DEF SnapshotsFit, RowsFit
    <3> HIDE DEF row
    <3> QED BY <3>1, <3>2 DEF CalmNames
  <2> QED BY <2>1, <2>2 DEF QueueKeys, DeleteSnapshot, DeleteRows, rows, s
<1> QED BY <1>2, <1>3, <1>4, <1>5 DEF Calm

\* a cleanup frees its keys,
LEMMA CleanupCalm ==
    ASSUME SnapshotsFit, KeysFit, NEW c \in Slot, Cleanup(c)
    PROVE  Calm
<1>1. CASE Goto(c, "sweep") /\ UNCHANGED <<snap, sealed, queue>>
  <2>1. CalmStore /\ CalmQueue /\ CalmNames
    BY <1>1, StillCalm DEF Cleanup, queued, CalmNames
  <2>2. CalmReqs
    BY <1>1, GoCalm DEF Cleanup, Light
  <2> QED BY <2>1, <2>2 DEF Calm
<1>2. ASSUME NEW s \in Snapshot, snap[s].status = "failed",
             queue' = queue \cup FailedKeys(s),
             snap' = [snap EXCEPT ![s].staged = FALSE, ![s].selected = FALSE, ![s].entry = None,
                                  ![s].item = None, ![s].cleaned = TRUE],
             UNCHANGED reqs
      PROVE  Calm
  <2>0. snap \in [Snapshot -> SnapshotRow] /\ copies' = copies /\ copies \in Nat
    BY DEF SnapshotsFit, RowsFit, Cleanup, stored
  <2>1. CalmNames
    BY <1>2, <2>0 DEF CalmNames, SnapshotRow
  <2>2. snap'[s].status = "failed"
    BY <1>2, <2>0 DEF SnapshotRow
  <2>3. ASSUME NEW k \in {ManifestKey(s, 0), ItemKey(s, 0)}
        PROVE  ~Pending(k)'
    <3>1. k[3] = 0
      BY DEF ManifestKey, ItemKey
    <3>2. \A t \in Snapshot : k = ManifestKey(t, 0) \/ k = ItemKey(t, 0) => t = s
      BY DEF ManifestKey, ItemKey
    <3>3. \A d \in Slot : Fresh(reqs[d]) => k # reqs[d].fresh
      BY <3>1, <2>0 DEF KeysFit, FreshOnes
    <3>4. ~(k[3] > copies')
      BY <3>1, <2>0
    <3>5. \A d \in Slot : Fresh(reqs'[d]) => k # reqs'[d].fresh
      BY <1>2, <3>3
    <3> QED BY <3>2, <3>4, <3>5, <2>2 DEF Pending, ManifestKey, ItemKey, Fresh
  <2>4. CalmQueue
    <3>1. ASSUME NEW k \in PartKey, k \in FailedKeys(s) PROVE k \in {ManifestKey(s, 0), ItemKey(s, 0)}
      BY <3>1, ObjectNotPart DEF FailedKeys
    <3> QED BY <1>2, <2>3, <3>1 DEF CalmQueue, Used
  <2>5. CalmStore /\ CalmReqs
    BY <1>2 DEF Cleanup, stored, CalmStore, CalmReqs
  <2> QED BY <2>1, <2>4, <2>5 DEF Calm
<1> QED BY <1>1, <1>2 DEF Cleanup

\* a collection lists the queue,
LEMMA CollectCalm ==
    ASSUME SnapshotsFit, NEW c \in Slot,
           \/ EraseFails(c) \/ Dequeue(c)
           \/ \E k : Check(c, k) /\ Referenced(k)
    PROVE  Calm
<1>1. CalmStore /\ CalmQueue /\ CalmNames
  <2>1. CASE Dequeue(c)
    BY <2>1 DEF Dequeue, CalmStore, CalmQueue, CalmNames, rows, stored, Used
  <2> QED BY <2>1, StillCalm DEF EraseFails, Check, rows, CalmNames
<1>2. CASE EraseFails(c) \/ Dequeue(c)
  <2> DEFINE q == IF reqs[c].todo = {} THEN Idle ELSE [pc |-> "check", todo |-> reqs[c].todo]
  <2>1. reqs' = [reqs EXCEPT ![c] = q] /\ reqs[c].pc \in {"erase", "dequeue"}
    BY <1>2 DEF EraseFails, Dequeue, NextKey
  <2>2. q.pc \in {"idle", "check"} /\ (q.pc = "check" => q.todo = reqs[c].todo)
    BY DEF Idle
  <2> HIDE DEF q
  <2>3. q.pc \notin Busy /\ Holds(q) \subseteq Holds(reqs[c])
    BY <2>1, <2>2 DEF Busy, Holds, Copying
  <2> QED BY <1>1, <2>1, <2>3, PutCalm DEF Calm, Used
<1>3. ASSUME NEW k, Check(c, k), Referenced(k)
      PROVE  Calm
  <2> DEFINE q == [pc |-> "dequeue", key |-> k, todo |-> reqs[c].todo \ {k}]
  <2>1. reqs' = [reqs EXCEPT ![c] = q] /\ reqs[c].pc = "check" /\ k \in reqs[c].todo
    BY <1>3 DEF Check
  <2>2. q.pc \notin Busy /\ Holds(q) \subseteq Holds(reqs[c])
    BY <2>1 DEF Busy, Holds, Copying
  <2> HIDE DEF q
  <2> QED BY <1>1, <2>1, <2>2, PutCalm DEF Calm, Used
<1> QED BY <1>2, <1>3

\* the owner, R2 or time takes a step,
LEMMA OutsideCalm ==
    ASSUME SnapshotsFit,
           \/ \E s \in Snapshot : Cancel(s) \/ Pin(s)
           \/ \E r \in Recipient : SaveRecipient(r)
           \/ \E s \in Frail : \E k \in r2 : Lose(s, k)
           \/ Day \/ UNCHANGED snapshotVars
    PROVE  Calm
<1>0. snap \in [Snapshot -> SnapshotRow] /\ aged \subseteq queue
  BY DEF SnapshotsFit, RowsFit
<1>1. CalmReqs
  BY DEF CalmReqs, Cancel, Pin, SaveRecipient, Lose, Day, snapshotVars
<1>2. CASE (\E s \in Snapshot : Cancel(s) \/ Pin(s))
  <2>1. CalmStore /\ CalmQueue
    BY <1>2, StillCalm DEF Cancel, Pin
  <2>2. CalmNames
    BY <1>2, FieldCalm DEF Cancel, Pin
  <2> QED BY <1>1, <2>1, <2>2 DEF Calm
<1>3. CASE \/ \E r \in Recipient : SaveRecipient(r)
           \/ \E s \in Frail : \E k \in r2 : Lose(s, k)
           \/ UNCHANGED snapshotVars
  BY <1>1, <1>3 DEF SaveRecipient, Lose, snapshotVars, rows, stored, queued, Calm, CalmNames,
                    CalmStore, CalmQueue, Used
<1>4. CASE Day
  <2>1. CalmNames
    BY <1>0, <1>4 DEF Day, CalmNames, SnapshotRow
  <2> QED BY <1>1, <1>4, <2>1 DEF Day, stored, Calm, CalmStore, CalmQueue, Used
<1> QED BY <1>2, <1>3, <1>4

\* a request ends,
LEMMA EndCalm ==
    ASSUME SnapshotsFit, NEW c \in Slot,
           Verify(c) \/ InsertBackup(c) \/ FinishBackup(c) \/ Crash(c)
           \/ (PutItem(c) /\ ~Goto(c, "itemrow")) \/ (PutManifest(c) /\ Done(c))
    PROVE  Calm
<1>1. CalmStore /\ CalmQueue
  <2>1. CASE (PutItem(c) /\ ~Goto(c, "itemrow")) \/ (PutManifest(c) /\ Done(c))
    BY <2>1 DEF PutItem, PutManifest, PutOnce, CalmStore, CalmQueue, queued, Used
  <2> QED BY <2>1, StillCalm DEF Verify, InsertBackup, FinishBackup, Crash
<1>2. CalmNames
  <2>1. CASE Verify(c)
    BY <2>1, FieldCalm DEF Verify
  <2> QED BY <2>1 DEF InsertBackup, FinishBackup, Crash, PutItem, PutManifest, rows, CalmNames
<1>3. CASE Done(c)
  BY <1>1, <1>2, <1>3, DoneCalm DEF Calm
<1>4. CASE PutItem(c) /\ Goto(c, "count")
  <2>1. reqs[c] \in CaptureReq
    BY <1>4, ReqHere, Shapes DEF PutItem
  <2>2. [reqs[c] EXCEPT !.pc = "count"] \in CaptureReq /\ [reqs[c] EXCEPT !.pc = "count"].pc = "count"
    BY <2>1 DEF CaptureReq
  <2> QED BY <1>1, <1>2, <1>4, <2>2, Going, ContinueCalm DEF Calm
<1>5. CASE (Verify(c) \/ InsertBackup(c)) /\ (Goto(c, "sweep") \/ Goto(c, "encrypt"))
  BY <1>1, <1>2, <1>5, GoCalm DEF Verify, InsertBackup, Light, Calm
<1> QED BY <1>3, <1>4, <1>5 DEF Verify, InsertBackup, FinishBackup, Crash, PutItem, PutManifest

\* or a repair reads or writes objects.
LEMMA RepairsCalm ==
    ASSUME SnapshotsFit, NEW c \in Slot,
           \/ \E s \in Snapshot : BeginRepair(c, s)
           \/ RepairNote(c) \/ Relink(c)
    PROVE  Calm
<1>0. snap \in [Snapshot -> SnapshotRow]
  BY DEF SnapshotsFit, RowsFit
<1>1. CASE \E s \in Snapshot : BeginRepair(c, s)
  <2>1. PICK s \in Snapshot : BeginRepair(c, s)
    BY <1>1
  <2>2. CalmStore /\ CalmQueue /\ CalmNames
    BY <2>1, StillCalm DEF BeginRepair, rows, CalmNames
  <2> DEFINE q == [pc |-> "fixmanifest", kind |-> "repair", snapshot |-> s,
                   recipient |-> recipient, note |-> snap[s].content, object |-> None,
                   fresh |-> None, manifest |-> snap[s].manifest, item |-> None, entry |-> None]
  <2>3. reqs' = [reqs EXCEPT ![c] = q]
    BY <2>1 DEF BeginRepair, Begin
  <2>4. q.pc \notin Busy /\ Holds(q) \subseteq {snap[s].manifest, None}
    BY DEF Busy, Holds
  <2> HIDE DEF q
  <2>5. \A k \in PartKey : k \in Holds(q) => Used(k)
    BY <2>4, SnapshotAssumption DEF Used, PartKey
  <2> QED BY <2>2, <2>3, <2>4, <2>5, PutCalm DEF Calm
<1>2. CASE RepairNote(c)
  <2> DEFINE s == reqs[c].snapshot
  <2>1. reqs[c] \in RepairReq /\ reqs[c].pc = "fixnote" /\ s \in Snapshot /\ snap[s] \in SnapshotRow
    BY <1>0, <1>2, ReqHere, Shapes DEF RepairNote, RepairReq
  <2>2. CalmStore /\ CalmQueue
    BY <1>2, StillCalm DEF RepairNote
  <2>3. CalmNames
    BY <1>2, FieldCalm DEF RepairNote, Degraded, CalmNames
  <2>4. ASSUME reqs' = [reqs EXCEPT ![c].pc = "fixitem", ![c].item = snap[s].item]
        PROVE  CalmReqs
    <3>1. PICK q : q = [reqs[c] EXCEPT !.pc = "fixitem", !.item = snap[s].item]
      OBVIOUS
    <3>2. q \in RepairReq /\ q.pc = "fixitem" /\ q.manifest = reqs[c].manifest /\ q.item = snap[s].item
      BY <2>1, <3>1 DEF RepairReq, SnapshotRow
    <3>3. reqs' = [reqs EXCEPT ![c] = q]
      BY <2>1, <2>4, <3>1 DEF SnapshotsFit, RowsFit, RepairReq
    <3> HIDE DEF s
    <3> QED BY <2>1, <3>2, <3>3, RepairCalm DEF Busy
  <2>5. ASSUME snap[s].entry # None,
               reqs' = [reqs EXCEPT ![c].pc = "create", ![c].entry = snap[s].entry,
                                    ![c].item = snap[s].item]
        PROVE  CalmReqs
    <3>1. PICK q : q = [reqs[c] EXCEPT !.pc = "create", !.entry = snap[s].entry, !.item = snap[s].item]
      OBVIOUS
    <3>2. q \in RepairReq /\ q.pc = "create" /\ q.manifest = reqs[c].manifest /\ q.item = snap[s].item
      BY <2>1, <3>1 DEF RepairReq, SnapshotRow
    <3>3. reqs' = [reqs EXCEPT ![c] = q]
      BY <2>1, <2>5, <3>1 DEF SnapshotsFit, RowsFit, RepairReq
    <3> HIDE DEF s
    <3> QED BY <2>1, <3>2, <3>3, RepairCalm DEF Busy
  <2> QED BY <1>2, <2>2, <2>3, <2>4, <2>5 DEF RepairNote, Calm
<1>3. CASE Relink(c)
  <2>1. reqs[c] \in RepairReq /\ reqs[c].pc = "relink"
    BY <1>3, ReqHere, Shapes DEF Relink
  <2>2. CalmStore /\ CalmQueue
    <3>1. queue' \subseteq queue \cup {ObjectKey(reqs[c].entry)}
      BY <1>3 DEF Relink
    <3> QED BY <1>3, <3>1, ObjectNotPart DEF Relink, stored, CalmStore, CalmQueue, Used
  <2>3. CalmNames
    <3>1. CASE snap' = [s \in Snapshot |-> IF snap[s].entry = reqs[c].entry
                          THEN [snap[s] EXCEPT !.entry = reqs[c].object] ELSE snap[s]]
      BY <1>0, <3>1 DEF CalmNames, SnapshotRow
    <3> QED BY <1>3, <3>1 DEF Relink, rows, CalmNames
  <2>4. CASE Done(c)
    BY <2>2, <2>3, <2>4, DoneCalm DEF Calm
  <2>5. CASE Goto(c, "fixitem")
    <3>1. PICK q : q = [reqs[c] EXCEPT !.pc = "fixitem"]
      OBVIOUS
    <3>2. q \in RepairReq /\ q.pc = "fixitem" /\ q.manifest = reqs[c].manifest /\ q.item = reqs[c].item
      BY <2>1, <3>1 DEF RepairReq
    <3>3. reqs' = [reqs EXCEPT ![c] = q]
      BY <2>5, <3>1, Going
    <3>4. CalmReqs
      BY <2>1, <3>2, <3>3, RepairCalm DEF Busy
    <3> QED BY <2>2, <2>3, <3>4 DEF Calm
  <2> QED BY <1>3, <2>4, <2>5 DEF Relink
<1> QED BY <1>1, <1>2, <1>3

\* Each action moves at most one request.
LEMMA CaptureOne ==
    ASSUME reqs \in [Slot -> Req], NEW c \in Slot, Capture(c)
    PROVE  OneSlot(c)
<1> USE DEF OneSlot, Goto, Done, Begin, time
<1>1. CASE BeginStart(c) \/ (\E note \in Content : Insert(c, note)) \/ Stage(c) \/ Select(c)
           \/ StageFails(c)
  BY <1>1 DEF BeginStart, Insert, Stage, Select, StageFails
<1>2. CASE (\E s \in Snapshot : BeginContinue(c, s)) \/ Find(c) \/ InsertObject(c) \/ PutObject(c)
  BY <1>2 DEF BeginContinue, Find, InsertObject, PutObject
<1>3. CASE CompleteObject(c) \/ PutFails(c) \/ Attach(c) \/ PutItem(c) \/ ItemRow(c)
  BY <1>3 DEF CompleteObject, PutFails, Attach, PutItem, ItemRow
<1>4. CASE CountItems(c) \/ CountEntries(c) \/ Progress(c) \/ PutManifest(c) \/ Finalize(c)
  BY <1>4 DEF CountItems, CountEntries, Progress, PutManifest, Finalize
<1> QED BY <1>1, <1>2, <1>3, <1>4 DEF Capture

\* So in retention,
LEMMA RetentionOne ==
    ASSUME reqs \in [Slot -> Req], NEW c \in Slot, Retention(c)
    PROVE  OneSlot(c)
<1> USE DEF OneSlot, Goto, Done, Begin, time
<1>1. CASE BeginRetention(c) \/ Retain(c) \/ QueueKeys(c) \/ DeleteSnapshot(c) \/ DeleteRows(c)
  BY <1>1 DEF BeginRetention, Retain, QueueKeys, DeleteSnapshot, DeleteRows
<1>2. CASE BeginCron(c) \/ Cleanup(c) \/ Sweep(c) \/ (\E k : Check(c, k))
  BY <1>2 DEF BeginCron, Cleanup, Sweep, Check
<1>3. CASE Erase(c) \/ EraseFails(c) \/ Dequeue(c)
  BY <1>3 DEF Erase, EraseFails, Dequeue, NextKey
<1> QED BY <1>1, <1>2, <1>3 DEF Retention

\* in repair,
LEMMA RepairOne ==
    ASSUME reqs \in [Slot -> Req], NEW c \in Slot,
           Repair(c) \/ BeginBackup(c) \/ InsertBackup(c) \/ FinishBackup(c) \/ Crash(c)
    PROVE  OneSlot(c)
<1> USE DEF OneSlot, Goto, Done, Begin, time
<1>1. CASE \/ \E s \in Snapshot : BeginRepair(c, s)
           \/ RepairManifest(c) \/ RelinkManifest(c) \/ RepairItem(c) \/ RelinkItem(c)
  BY <1>1 DEF BeginRepair, RepairManifest, RelinkManifest, RepairItem, RelinkItem, RepairPart, RelinkPart
<1>2. CASE RepairNote(c) \/ Relink(c) \/ Verify(c)
  BY <1>2 DEF RepairNote, Relink, Verify
<1>3. CASE BeginBackup(c) \/ InsertBackup(c) \/ FinishBackup(c) \/ Crash(c)
  BY <1>3 DEF BeginBackup, InsertBackup, FinishBackup, Crash
<1> QED BY <1>1, <1>2, <1>3 DEF Repair

\* and everywhere.
LEMMA OneMoves ==
    ASSUME SnapshotsFit, [SnapshotNext]_snapshotVars
    PROVE  \A c \in Slot : reqs'[c] = reqs[c] \/ OneSlot(c)
<1>0. reqs \in [Slot -> Req]
  BY DEF SnapshotsFit, RowsFit
<1>1. CASE \E c \in Slot : OneSlot(c)
  BY <1>1 DEF OneSlot
<1>2. CASE reqs' = reqs
  BY <1>2
<1>3. CASE \E c \in Slot : Capture(c) \/ Retention(c) \/ Repair(c)
                       \/ BeginBackup(c) \/ InsertBackup(c) \/ FinishBackup(c) \/ Crash(c)
  BY <1>0, <1>1, <1>3, CaptureOne, RetentionOne, RepairOne
<1>4. CASE \/ \E s \in Snapshot : Cancel(s) \/ Pin(s)
           \/ \E r \in Recipient : SaveRecipient(r)
           \/ \E s \in Frail : \E k \in r2 : Lose(s, k)
           \/ Day \/ UNCHANGED snapshotVars
  BY <1>2, <1>4 DEF Cancel, Pin, SaveRecipient, Lose, Day, snapshotVars
<1> QED BY <1>3, <1>4 DEF SnapshotNext

-----------------------------------------------------------------------------
(* Steps that name a manifest or an item *)

\* A step of one request, that writes no replacement.
LEMMA KeysOn ==
    ASSUME SnapshotsFit, KeysFit, StepFits, NEW c \in Slot, NEW q, reqs' = [reqs EXCEPT ![c] = q],
           ~Fresh(q), StoredAt(q)', ErasedAt(q)', copies' = copies,
           \A k \in PartKey : k \in Holds(q) => Used(k),
           KeysRemain, NamesNew, CalmQueue
    PROVE  KeysFit'
<1>1. reqs'[c] = q /\ OneSlot(c)
  BY DEF SnapshotsFit, RowsFit, OneSlot
<1>2. StoredAt(reqs[c])' /\ ErasedAt(reqs[c])'
  <2>1. reqs[c]' = q
    BY <1>1
  <2> QED BY <2>1 DEF StoredAt, ErasedAt
<1>3. ReqNew(c)
  BY <1>1, <1>2 DEF ReqNew
<1>4. ReqsNew
  BY <1>1, <1>3 DEF ReqsNew, OneSlot
<1>5. copies' >= copies
  BY DEF SnapshotsFit, RowsFit
<1> QED BY <1>4, <1>5, KeysStep

\* Rows that name what they did.
LEMMA NamesSame ==
    ASSUME CalmNames PROVE NamesNew
  BY DEF CalmNames, NamesNew, NameNew

\* A store that only gains.
LEMMA StoreSame ==
    ASSUME r2 \subseteq r2', gone' = gone PROVE KeysRemain
  BY DEF KeysRemain

\* A key of the store is not the fresh one, nor any waited for.
LEMMA FixedKeys ==
    ASSUME NEW s \in Snapshot
    PROVE  /\ ManifestKey(s, 0) \in PartKey /\ ManifestKey(s, 0)[3] = 0
           /\ ItemKey(s, 0) \in PartKey /\ ItemKey(s, 0)[3] = 0
           /\ \A t \in Snapshot : /\ ManifestKey(s, 0) # ItemKey(t, 0)
                                  /\ ManifestKey(s, 0) = ManifestKey(t, 0) => s = t
                                  /\ ItemKey(s, 0) = ItemKey(t, 0) => s = t
  BY DEF ManifestKey, ItemKey, PartKey

\* A fixed key is not a fresh one.
LEMMA NotFresh ==
    ASSUME SnapshotsFit, KeysFit, NEW k \in PartKey, k[3] = 0
    PROVE  ~(k[3] > copies) /\ \A d \in Slot : Fresh(reqs[d]) => k # reqs[d].fresh
<1>1. copies \in Nat
  BY DEF SnapshotsFit, RowsFit
<1>2. \A d \in Slot : Fresh(reqs[d]) => reqs[d].fresh[3] \in 1..copies
  BY DEF KeysFit, FreshOnes
<1>3. ~(k[3] > copies)
  BY <1>1
<1>4. ASSUME NEW d \in Slot, Fresh(reqs[d]), k = reqs[d].fresh PROVE FALSE
  <2>1. k[3] \in 1..copies
    BY <1>2, <1>4
  <2> QED BY <2>1
<1> QED BY <1>3, <1>4

\* The item is written under its fixed key, or under a fresh one.
LEMMA PutItemNamed ==
    ASSUME SnapshotsFit, KeysFit, StepFits, NEW c \in Slot, PutItem(c), Goto(c, "itemrow")
    PROVE  KeysFit'
<1>1. reqs[c] \in CaptureReq /\ reqs[c].pc = "item"
  BY ReqHere, Shapes DEF PutItem
<1>2. PICK q : q = [reqs[c] EXCEPT !.pc = "itemrow"]
  OBVIOUS
<1>3. q.pc = "itemrow" /\ q.snapshot = reqs[c].snapshot /\ q \in CaptureReq
  BY <1>1, <1>2 DEF CaptureReq
<1>4. reqs' = [reqs EXCEPT ![c] = q]
  BY <1>2, Going
<1>5. ~Fresh(q) /\ Holds(q) = {}
  BY <1>3 DEF Fresh, Holds, CaptureReq
<1>6. ErasedAt(q)'
  BY <1>3 DEF ErasedAt
<1>7. reqs'[c] = q /\ q # reqs[c]
  BY <1>1, <1>3, <1>4 DEF SnapshotsFit, RowsFit
<1>8. r2' = r2 \cup {ItemKey(reqs[c].snapshot, 0)}
  <2>1. ~Goto(c, "count") /\ ~Done(c)
    <3>1. CASE Goto(c, "count")
      <4>1. PICK p : p = [reqs[c] EXCEPT !.pc = "count"]
        OBVIOUS
      <4>2. p.pc = "count"
        BY <1>1, <4>1 DEF CaptureReq
      <4>3. reqs' = [reqs EXCEPT ![c] = p]
        BY <3>1, <4>1, Going
      <4>4. reqs'[c] = p
        BY <4>3 DEF SnapshotsFit, RowsFit
      <4> QED BY <4>2, <4>4, <1>3, <1>7
    <3>2. CASE Done(c)
      BY <3>2, <1>3, <1>7, IdleFits DEF SnapshotsFit, RowsFit, Done
    <3> QED BY <3>1, <3>2
  <2> QED BY <2>1 DEF PutItem, PutOnce
<1>9. StoredAt(q)'
  BY <1>3, <1>8 DEF StoredAt
<1>10. KeysRemain /\ NamesNew /\ CalmQueue /\ copies' = copies
  BY <1>8, StoreSame, NamesSame DEF PutItem, rows, queued, CalmNames, CalmQueue, Used
<1> QED BY <1>4, <1>5, <1>6, <1>9, <1>10, KeysOn

\* So is the manifest.
LEMMA PutManifestNamed ==
    ASSUME SnapshotsFit, KeysFit, StepFits, NEW c \in Slot, PutManifest(c), Goto(c, "finalize")
    PROVE  KeysFit'
<1>1. reqs[c] \in PublishReq /\ reqs[c].pc = "manifest"
  BY ReqHere, Shapes DEF PutManifest
<1>2. PICK q : q = [reqs[c] EXCEPT !.pc = "finalize"]
  OBVIOUS
<1>3. q.pc = "finalize" /\ q.snapshot = reqs[c].snapshot /\ q \in PublishReq
  BY <1>1, <1>2 DEF PublishReq
<1>4. reqs' = [reqs EXCEPT ![c] = q]
  BY <1>2, Going
<1>5. ~Fresh(q) /\ Holds(q) = {}
  BY <1>3 DEF Fresh, Holds, Copying
<1>6. ErasedAt(q)'
  BY <1>3 DEF ErasedAt
<1>7. reqs'[c] = q /\ q # reqs[c]
  BY <1>1, <1>3, <1>4 DEF SnapshotsFit, RowsFit
<1>8. r2' = r2 \cup {ManifestKey(reqs[c].snapshot, 0)}
  <2>1. ~Done(c)
    BY <1>3, <1>7, IdleFits DEF SnapshotsFit, RowsFit, Done
  <2> QED BY <2>1 DEF PutManifest, PutOnce
<1>9. StoredAt(q)'
  BY <1>3, <1>8 DEF StoredAt
<1>10. KeysRemain /\ NamesNew /\ CalmQueue /\ copies' = copies
  BY <1>8, StoreSame, NamesSame DEF PutManifest, rows, queued, CalmNames, CalmQueue, Used
<1> QED BY <1>4, <1>5, <1>6, <1>9, <1>10, KeysOn

\* A row that takes a key, in its manifest or in its item.
LEMMA OneName ==
    ASSUME NEW s \in Snapshot, \A t \in Snapshot \ {s} : snap'[t] = snap[t],
           NEW m, NEW i, m = snap'[s].manifest, i = snap'[s].item,
           NameNew(s, snap[s].manifest, m), NameNew(s, snap[s].item, i)
    PROVE  NamesNew
<1>1. SUFFICES ASSUME NEW t \in Snapshot, NEW k
               PROVE  /\ k = snap'[t].manifest => NameNew(t, snap[t].manifest, k)
                      /\ k = snap'[t].item => NameNew(t, snap[t].item, k)
  BY DEF NamesNew
<1>2. CASE t = s
  BY <1>2
<1>3. CASE t # s
  BY <1>3 DEF NameNew
<1> QED BY <1>2, <1>3

\* The row of an item takes the key just written.
LEMMA ItemRowNamed ==
    ASSUME SnapshotsFit, KeysFit, StepFits, NEW c \in Slot, ItemRow(c)
    PROVE  KeysFit'
<1>0. snap \in [Snapshot -> SnapshotRow] /\ copies \in Nat
  BY DEF SnapshotsFit, RowsFit
<1>1. CASE UNCHANGED snap /\ Done(c)
  <2>1. CalmReqs
    BY <1>1, DoneCalm
  <2>2. CalmNames /\ CalmStore /\ CalmQueue
    BY <1>1, StillCalm DEF ItemRow, CalmNames
  <2>3. reqs' = [reqs EXCEPT ![c] = Idle]
    BY <1>1 DEF Done
  <2>4. OneSlot(c)
    BY <2>3 DEF OneSlot, SnapshotsFit, RowsFit
  <2> QED BY <2>1, <2>2, <2>4, KeysCalm DEF OneSlot
<1>2. CASE Lacking(reqs[c].snapshot)
  <2>1. PICK s \in Snapshot : s = reqs[c].snapshot
    BY ReqHere, Shapes DEF ItemRow, CaptureReq
  <2>2. reqs[c] \in CaptureReq /\ reqs[c].pc = "itemrow"
    BY ReqHere, Shapes DEF ItemRow
  <2>3. snap' = [snap EXCEPT ![s].item = ItemKey(s, 0)] /\ Goto(c, "count")
    BY <1>2, <2>1 DEF ItemRow
  <2>4. PICK q : q = [reqs[c] EXCEPT !.pc = "count"]
    OBVIOUS
  <2>5. q.pc = "count" /\ q \in CaptureReq
    BY <2>2, <2>4 DEF CaptureReq
  <2>6. reqs' = [reqs EXCEPT ![c] = q]
    BY <2>3, <2>4, Going
  <2>7. ~Fresh(q) /\ Holds(q) = {} /\ StoredAt(q)' /\ ErasedAt(q)'
    BY <2>5 DEF Fresh, Holds, StoredAt, ErasedAt, CaptureReq
  <2>8. KeysRemain /\ copies' = copies /\ CalmQueue /\ r2' = r2 /\ gone' = gone
    BY StillCalm, StoreSame DEF ItemRow, stored
  <2>9. PICK k \in PartKey : k = ItemKey(s, 0) /\ k[3] = 0
    BY FixedKeys
  <2>10. /\ snap'[s].item = k /\ snap'[s].manifest = snap[s].manifest
         /\ snap'[s].status = snap[s].status
         /\ \A t \in Snapshot \ {s} : snap'[t] = snap[t]
    BY <1>0, <2>3, <2>9 DEF SnapshotRow
  <2>11. ~(k[3] > copies) /\ \A d \in Slot : Fresh(reqs[d]) => k # reqs[d].fresh
    BY <2>9, NotFresh
  <2>12. k # None
    BY SnapshotAssumption DEF PartKey
  <2>13. ~Pending(k)'
    <3>1. \A d \in Slot : Fresh(reqs'[d]) => k # reqs'[d].fresh
      BY <2>6, <2>7, <2>11 DEF SnapshotsFit, RowsFit
    <3>2. \A t \in Snapshot : k # ManifestKey(t, 0)
      BY <2>9, FixedKeys
    <3>3. \A t \in Snapshot : k = ItemKey(t, 0) => snap'[t].item # None
      BY <2>9, <2>10, <2>12, FixedKeys
    <3>4. ~(k[3] > copies')
      BY <2>8, <2>11
    <3> QED BY <3>1, <3>2, <3>3, <3>4 DEF Pending, Fresh, ManifestKey, ItemKey
  <2>14. NameNew(s, snap[s].item, k)
    <3>1. snap[s].item = None
      BY <1>2, <2>1 DEF Lacking
    <3>2. CASE Live(s)
      <4>1. k \in r2 \cup gone
        BY <2>1, <2>2, <2>9, <3>1, <3>2 DEF KeysFit, Stored, StoredAt
      <4>2. Pending(k)
        BY <2>9, <3>1, <3>2 DEF Pending, Live
      <4> QED BY <2>8, <2>13, <4>1, <4>2 DEF NameNew
    <3>3. CASE ~Live(s)
      BY <2>10, <2>13, <3>3 DEF NameNew, Live
    <3> QED BY <3>2, <3>3
  <2>15. NamesNew
    <3>1. PICK m : m = snap'[s].manifest /\ NameNew(s, snap[s].manifest, m)
      BY <2>10 DEF NameNew
    <3> QED BY <2>10, <2>14, <3>1, OneName
  <2>16. \A x \in PartKey : x \in Holds(q) => Used(x)
    BY <2>7
  <2> QED BY <2>6, <2>7, <2>8, <2>15, <2>16, KeysOn
<1> QED BY <1>1, <1>2 DEF ItemRow

\* The row of a snapshot takes its manifest's key.
LEMMA FinalizeNamed ==
    ASSUME SnapshotsFit, KeysFit, StepFits, NEW c \in Slot, Finalize(c)
    PROVE  KeysFit'
<1>0. snap \in [Snapshot -> SnapshotRow] /\ copies \in Nat
  BY DEF SnapshotsFit, RowsFit
<1>1. CASE UNCHANGED snap /\ Done(c)
  <2>1. CalmReqs
    BY <1>1, DoneCalm
  <2>2. CalmNames /\ CalmStore /\ CalmQueue
    BY <1>1, StillCalm DEF Finalize, CalmNames
  <2>3. reqs' = [reqs EXCEPT ![c] = Idle]
    BY <1>1 DEF Done
  <2>4. OneSlot(c)
    BY <2>3 DEF OneSlot, SnapshotsFit, RowsFit
  <2> QED BY <2>1, <2>2, <2>4, KeysCalm DEF OneSlot
<1>2. CASE Finalizable(reqs[c].snapshot)
  <2>1. PICK s \in Snapshot : s = reqs[c].snapshot
    BY ReqHere, Shapes DEF Finalize, PublishReq
  <2>2. reqs[c] \in PublishReq /\ reqs[c].pc = "finalize"
    BY ReqHere, Shapes DEF Finalize
  <2>3. /\ snap' = [snap EXCEPT ![s].status = "ready", ![s].integrity = "verified",
                                ![s].manifest = ManifestKey(s, 0)]
        /\ Goto(c, "retain")
    BY <1>2, <2>1 DEF Finalize
  <2>4. PICK q : q = [reqs[c] EXCEPT !.pc = "retain"]
    OBVIOUS
  <2>5. q.pc = "retain"
    BY <2>2, <2>4 DEF PublishReq
  <2>6. reqs' = [reqs EXCEPT ![c] = q]
    BY <2>3, <2>4, Going
  <2>7. ~Fresh(q) /\ Holds(q) = {} /\ StoredAt(q)' /\ ErasedAt(q)'
    BY <2>5 DEF Fresh, Holds, StoredAt, ErasedAt, Copying
  <2>8. KeysRemain /\ copies' = copies /\ CalmQueue /\ r2' = r2 /\ gone' = gone
    BY StillCalm, StoreSame DEF Finalize, stored
  <2>9. PICK k \in PartKey : k = ManifestKey(s, 0) /\ k[3] = 0
    BY FixedKeys
  <2>10. /\ snap'[s].manifest = k /\ snap'[s].item = snap[s].item
         /\ snap'[s].status = "ready"
         /\ \A t \in Snapshot \ {s} : snap'[t] = snap[t]
    BY <1>0, <2>3, <2>9 DEF SnapshotRow
  <2>11. ~(k[3] > copies) /\ \A d \in Slot : Fresh(reqs[d]) => k # reqs[d].fresh
    BY <2>9, NotFresh
  <2>12. snap[s].status = "creating"
    BY <1>2, <2>1 DEF Finalizable
  <2>13. ~Pending(k)'
    <3>1. \A d \in Slot : Fresh(reqs'[d]) => k # reqs'[d].fresh
      BY <2>6, <2>7, <2>11 DEF SnapshotsFit, RowsFit
    <3>2. \A t \in Snapshot : k # ItemKey(t, 0)
      BY <2>9, FixedKeys
    <3>3. \A t \in Snapshot : k = ManifestKey(t, 0) => snap'[t].status \notin {"none", "creating"}
      BY <2>9, <2>10, FixedKeys
    <3>4. ~(k[3] > copies')
      BY <2>8, <2>11
    <3> QED BY <3>1, <3>2, <3>3, <3>4 DEF Pending, Fresh, ManifestKey, ItemKey
  <2>14. NameNew(s, snap[s].manifest, k)
    <3>1. k \in r2 \cup gone
      BY <2>1, <2>2, <2>9, <2>12 DEF KeysFit, Stored, StoredAt
    <3>2. Pending(k)
      BY <2>9, <2>12 DEF Pending
    <3> QED BY <2>8, <2>13, <3>1, <3>2 DEF NameNew
  <2>15. NamesNew
    <3>1. PICK i : i = snap'[s].item /\ NameNew(s, snap[s].item, i)
      BY <2>10 DEF NameNew
    <3> QED BY <2>10, <2>14, <3>1, OneName
  <2>16. \A x \in PartKey : x \in Holds(q) => Used(x)
    BY <2>7
  <2> QED BY <2>6, <2>7, <2>8, <2>15, <2>16, KeysOn
<1> QED BY <1>1, <1>2 DEF Finalize

\* Nothing a live snapshot names is sent to be erased.
LEMMA CheckNamed ==
    ASSUME SnapshotsFit, KeysFit, StepFits, NEW c \in Slot, NEW k, Check(c, k), ~Referenced(k)
    PROVE  KeysFit'
<1>1. reqs[c].pc = "check" /\ k \in reqs[c].todo
  BY DEF Check
<1>2. PICK todo : todo = reqs[c].todo \ {k}
  OBVIOUS
<1>3. PICK q : q = [pc |-> "erase", key |-> k, todo |-> todo]
  OBVIOUS
<1>4. q.pc = "erase" /\ q.key = k /\ Holds(q) \subseteq reqs[c].todo
  BY <1>1, <1>2, <1>3 DEF Holds
<1>5. reqs' = [reqs EXCEPT ![c] = q]
  BY <1>2, <1>3 DEF Check
<1>6. ~Fresh(q) /\ StoredAt(q)'
  BY <1>4 DEF Fresh, StoredAt
<1>7. \A s \in Snapshot : k \notin {snap[s].manifest, snap[s].item}
  BY DEF Referenced
<1>8. snap' = snap
  BY DEF Check, rows
<1>9. ErasedAt(q)'
  BY <1>4, <1>7, <1>8 DEF ErasedAt
<1>10. \A x \in PartKey : x \in Holds(q) => Used(x)
  BY <1>1, <1>4 DEF Used, Holds
<1>11. KeysRemain /\ NamesNew /\ CalmQueue /\ copies' = copies
  BY StoreSame, NamesSame, StillCalm DEF Check, rows, stored, queued, CalmNames
<1> QED BY <1>5, <1>6, <1>9, <1>10, <1>11, KeysOn

\* Erasing takes no key away that a live snapshot names.
LEMMA EraseNamed ==
    ASSUME SnapshotsFit, KeysFit, StepFits, NEW c \in Slot, Erase(c)
    PROVE  KeysFit'
<1>1. reqs[c].pc = "erase" /\ reqs[c] \in EraseReq
  BY ReqHere, Shapes DEF Erase
<1>2. PICK q : q = [reqs[c] EXCEPT !.pc = "dequeue"]
  OBVIOUS
<1>3. q.pc = "dequeue" /\ q.key = reqs[c].key /\ q.todo = reqs[c].todo
  BY <1>1, <1>2 DEF EraseReq
<1>4. reqs' = [reqs EXCEPT ![c] = q]
  BY <1>2, Going DEF Erase
<1>5. ~Fresh(q) /\ StoredAt(q)' /\ ErasedAt(q)'
  BY <1>3 DEF Fresh, StoredAt, ErasedAt
<1>6. Holds(q) = Holds(reqs[c])
  BY <1>1, <1>3 DEF Holds
<1>7. \A x \in PartKey : x \in Holds(q) => Used(x)
  BY <1>6 DEF Used
<1>8. NamesNew /\ CalmQueue /\ copies' = copies
  BY NamesSame DEF Erase, rows, queued, CalmNames, CalmQueue, Used
<1>9. r2' = r2 \ {reqs[c].key} /\ gone' = gone
  BY DEF Erase
<1>10. KeysRemain
  <2>1. SUFFICES ASSUME NEW k \in PartKey, k = reqs[c].key,
                        Pending(k) \/ \E s \in Snapshot : Live(s) /\ k \in {snap[s].manifest, snap[s].item}
                 PROVE  FALSE
    BY <1>9 DEF KeysRemain
  <2>2. CASE Pending(k)
    <3>1. k \in Holds(reqs[c])
      BY <1>1, <2>1 DEF Holds
    <3>2. Used(k)
      BY <3>1 DEF Used
    <3> QED BY <2>2, <3>2 DEF KeysFit, PendingUnused
  <2>3. CASE \E s \in Snapshot : Live(s) /\ k \in {snap[s].manifest, snap[s].item}
    BY <1>1, <2>1, <2>3 DEF KeysFit, ErasedUnnamed, ErasedAt
  <2> QED BY <2>1, <2>2, <2>3
<1> QED BY <1>4, <1>5, <1>7, <1>8, <1>10, KeysOn

\* A repair queues the names it is about to replace.
LEMMA RepairPartNamed ==
    ASSUME SnapshotsFit, KeysFit, StepFits, NEW c \in Slot,
           NEW pc \in {"fixmanifest", "fixitem"}, NEW part \in {"manifest", "item"},
           NEW relink \in {"newmanifest", "newitem"}, NEW on \in {"fixnote", "verify"},
           RepairPart(c, pc, part, relink, on)
    PROVE  KeysFit'
<1>0. snap \in [Snapshot -> SnapshotRow] /\ copies \in Nat /\ reqs \in [Slot -> Req]
  BY DEF SnapshotsFit, RowsFit
<1>1. reqs[c] \in RepairReq /\ reqs[c].pc = pc
  BY ReqHere, Shapes DEF RepairPart
<1>2. CASE Goto(c, on) /\ UNCHANGED <<snap, r2, copies>>
  <2>1. PICK q : q = [reqs[c] EXCEPT !.pc = on]
    OBVIOUS
  <2>2. q \in RepairReq /\ q.pc = on /\ q.manifest = reqs[c].manifest /\ q.item = reqs[c].item
    BY <1>1, <2>1 DEF RepairReq
  <2>3. reqs' = [reqs EXCEPT ![c] = q]
    BY <1>2, <2>1, Going
  <2>4. CalmReqs
    BY <1>1, <2>2, <2>3, RepairCalm DEF Busy
  <2>5. CalmNames /\ CalmStore /\ CalmQueue
    BY <1>2 DEF RepairPart, queued, CalmNames, CalmStore, CalmQueue, Used
  <2>6. OneSlot(c)
    BY <1>0, <2>3 DEF OneSlot
  <2> QED BY <2>4, <2>5, <2>6, KeysCalm DEF OneSlot
<1>3. CASE ~(Goto(c, on) /\ UNCHANGED <<snap, r2, copies>>)
  <2>1. PICK s \in Snapshot : s = reqs[c].snapshot
    BY <1>1 DEF RepairReq
  <2>2. PICK n \in Nat : n = copies + 1
    BY <1>0
  <2>3. PICK k \in PartKey : k = <<part, s, n>> /\ k[3] = n
    <3>1. <<part, s, n>> \in PartKey
      BY DEF PartKey
    <3>2. <<part, s, n>>[3] = n
      OBVIOUS
    <3> QED BY <3>1, <3>2
  <2>4. /\ snap' = Degraded(s) /\ r2' = r2 \cup {k} /\ copies' = copies + 1
        /\ reqs' = [reqs EXCEPT ![c].pc = relink, ![c].fresh = k]
        /\ gone' = gone /\ queue' = queue
    BY <1>3, <2>1, <2>2, <2>3 DEF RepairPart, queued
  <2>5. PICK q : q = [reqs[c] EXCEPT !.pc = relink, !.fresh = k]
    OBVIOUS
  <2>6. /\ q.pc = relink /\ q.fresh = k /\ q.manifest = reqs[c].manifest /\ q.item = reqs[c].item
        /\ q.kind = "repair"
    BY <1>1, <2>5 DEF RepairReq
  <2>7. reqs' = [reqs EXCEPT ![c] = q]
    BY <1>0, <1>1, <2>4, <2>5 DEF RepairReq
  <2>8. reqs'[c] = q /\ OneSlot(c)
    BY <1>0, <2>7 DEF OneSlot
  <2>9. Holds(q) = Holds(reqs[c])
    BY <1>1, <2>6 DEF Holds, Copying, RepairReq
  <2>10. /\ reqs'[c].fresh \in PartKey /\ reqs'[c].fresh[3] = copies + 1 /\ copies' = copies + 1
         /\ reqs'[c].fresh \in r2' \cup gone'
    BY <2>2, <2>3, <2>4, <2>6, <2>8
  <2>11. reqs[c]' = q
    BY <2>8
  <2>12. StoredAt(reqs[c])' /\ ErasedAt(reqs[c])'
    BY <2>6, <2>11 DEF StoredAt, ErasedAt
  <2>13. \A x \in PartKey : x \in Holds(reqs'[c]) => Used(x) \/ ~Pending(x)'
    <3>1. Holds(reqs'[c]) = Holds(reqs[c])
      BY <2>8, <2>9
    <3> QED BY <3>1 DEF Used
  <2>14. ReqNew(c)
    BY <2>10, <2>12, <2>13 DEF ReqNew
  <2>15. ReqsNew
    BY <2>8, <2>14 DEF ReqsNew, OneSlot
  <2>16. NamesNew
    <3>1. CalmNames
      BY <1>0, <2>4 DEF CalmNames, Degraded, SnapshotRow
    <3> QED BY <3>1, NamesSame
  <2>17. KeysRemain /\ CalmQueue /\ copies' >= copies
    BY <1>0, <2>4, StoreSame DEF CalmQueue, Used
  <2> QED BY <2>15, <2>16, <2>17, KeysStep
<1> QED BY <1>2, <1>3

\* A row takes the fresh key in place of the old one.
LEMMA RelinkPartNamed ==
    ASSUME SnapshotsFit, KeysFit, StepFits, NEW c \in Slot,
           NEW pc, NEW part, NEW on,
           \/ pc = "newmanifest" /\ part = "manifest" /\ on = "fixnote"
           \/ pc = "newitem" /\ part = "item" /\ on = "verify",
           RelinkPart(c, pc, part, on)
    PROVE  KeysFit'
<1>0. snap \in [Snapshot -> SnapshotRow] /\ copies \in Nat /\ reqs \in [Slot -> Req]
  BY DEF SnapshotsFit, RowsFit
<1>1. reqs[c] \in RepairReq /\ reqs[c].pc = pc /\ Fresh(reqs[c])
  BY ReqHere, Shapes DEF RelinkPart, Fresh
<1>2. PICK s \in Snapshot : s = reqs[c].snapshot
  BY <1>1 DEF RepairReq
<1>3. PICK k \in PartKey : k = reqs[c].fresh /\ k[3] \in 1..copies /\ k \in r2 \cup gone
  BY <1>1 DEF KeysFit, FreshOnes
<1>4. PICK seen : seen = Seen(c, part)
  OBVIOUS
<1>5. seen \in Holds(reqs[c])
  BY <1>1, <1>4 DEF Holds, Seen, Copying, RepairReq
<1>6. UNCHANGED <<r2, gone, copies>>
  BY DEF RelinkPart, stored
<1>7. Pending(k)
  BY <1>1, <1>3 DEF Pending, Fresh
<1>8. PICK q : reqs' = [reqs EXCEPT ![c] = q]
               /\ \/ q = Idle
                  \/ q = [reqs[c] EXCEPT !.pc = on]
  <2>1. Goto(c, on) \/ Done(c)
    BY DEF RelinkPart
  <2> QED BY <2>1, Going DEF Done
<1>9. /\ ~Fresh(q) /\ StoredAt(q)' /\ ErasedAt(q)' /\ Holds(q) \subseteq Holds(reqs[c])
  <2>1. CASE q = Idle
    BY <2>1, IdleFits DEF Fresh, StoredAt, ErasedAt, Holds, Copying
  <2>2. CASE q = [reqs[c] EXCEPT !.pc = on]
    <3>1. q.pc = on /\ q.manifest = reqs[c].manifest /\ q.item = reqs[c].item /\ q.kind = "repair"
      BY <1>1, <2>2 DEF RepairReq
    <3> QED BY <1>1, <3>1 DEF Fresh, StoredAt, ErasedAt, Holds, Copying, RepairReq
  <2> QED BY <1>8, <2>1, <2>2
<1>10. ~Pending(k)'
  <2>1. \A d \in Slot : Fresh(reqs'[d]) => k # reqs'[d].fresh
    <3>1. SUFFICES ASSUME NEW d \in Slot, Fresh(reqs'[d]) PROVE k # reqs'[d].fresh
      OBVIOUS
    <3>2. d # c /\ reqs'[d] = reqs[d]
      BY <1>0, <1>8, <1>9, <3>1
    <3> QED BY <1>1, <1>3, <3>1, <3>2 DEF KeysFit, FreshOnes
  <2>2. \A t \in Snapshot : k # ItemKey(t, 0) /\ k # ManifestKey(t, 0)
    BY <1>3 DEF ItemKey, ManifestKey
  <2>3. ~(k[3] > copies')
    BY <1>3, <1>6, <1>0
  <2> QED BY <2>1, <2>2, <2>3 DEF Pending, Fresh, ManifestKey, ItemKey
<1>11. \A x \in PartKey : x \in Holds(q) => Used(x)
  BY <1>9 DEF Used
<1>12. CalmQueue
  <2>1. queue' \subseteq queue \cup {k, seen}
    BY <1>3, <1>4 DEF RelinkPart
  <2>2. ASSUME NEW x \in PartKey, x \in queue' PROVE Used(x) \/ ~Pending(x)'
    <3>1. CASE x = k
      BY <1>10, <3>1
    <3>2. CASE x = seen
      BY <1>5, <3>2 DEF Used
    <3>3. CASE x \in queue
      BY <3>3 DEF Used
    <3> QED BY <2>1, <2>2, <3>1, <3>2, <3>3
  <2> QED BY <2>2 DEF CalmQueue
<1>13. KeysRemain
  BY <1>6, StoreSame
<1>14. NamesNew
  <2>1. CASE snap' = snap
    BY <2>1, NamesSame DEF CalmNames
  <2>2. CASE snap' = Named(s, part, k)
    <3>1. \A t \in Snapshot \ {s} : snap'[t] = snap[t]
      BY <1>0, <2>2 DEF Named
    <3>2. PICK m : m = snap'[s].manifest
      OBVIOUS
    <3>3. PICK i : i = snap'[s].item
      OBVIOUS
    <3>4. m \in {k, snap[s].manifest} /\ i \in {k, snap[s].item}
      BY <1>0, <2>2, <3>2, <3>3 DEF Named, SnapshotRow
    <3>5. NameNew(s, snap[s].manifest, m) /\ NameNew(s, snap[s].item, i)
      BY <1>3, <1>6, <1>7, <1>10, <3>4 DEF NameNew
    <3> QED BY <3>1, <3>2, <3>3, <3>5, OneName
  <2> QED BY <1>2, <1>3, <2>1, <2>2 DEF RelinkPart
<1> QED BY <1>6, <1>8, <1>9, <1>11, <1>12, <1>13, <1>14, KeysOn

-----------------------------------------------------------------------------
(* Every step keeps the names *)

\* Calm steps keep KeysFit.
LEMMA CalmKeeps ==
    ASSUME SnapshotsFit, KeysFit, [SnapshotNext]_snapshotVars, Calm
    PROVE  KeysFit'
<1>1. StepFits
  BY NextKeeps
<1>2. \A c \in Slot : reqs'[c] = reqs[c] \/ OneSlot(c)
  BY OneMoves
<1> QED BY <1>1, <1>2, KeysCalm DEF Calm

\* The steps of capture do,
LEMMA CaptureNamed ==
    ASSUME SnapshotsFit, KeysFit, [SnapshotNext]_snapshotVars, NEW c \in Slot, Capture(c)
    PROVE  KeysFit'
<1>0. StepFits
  BY NextKeeps
<1>1. CASE BeginStart(c) \/ (\E note \in Content : Insert(c, note)) \/ Stage(c) \/ Select(c)
           \/ StageFails(c) \/ (\E s \in Snapshot : BeginContinue(c, s)) \/ Find(c) \/ Attach(c)
  BY <1>1, CalmKeeps, BeginCalm, InsertCalm, StageCalm, ContinuesCalm
<1>2. CASE InsertObject(c) \/ PutObject(c) \/ CompleteObject(c) \/ PutFails(c)
           \/ CountItems(c) \/ CountEntries(c) \/ Progress(c)
  BY <1>2, CalmKeeps, ObjectsCalm, CountsCalm
<1>3. CASE PutItem(c)
  <2>1. CASE Goto(c, "itemrow")
    BY <1>0, <1>3, <2>1, PutItemNamed
  <2>2. CASE ~Goto(c, "itemrow")
    BY <1>3, <2>2, EndCalm, CalmKeeps
  <2> QED BY <2>1, <2>2
<1>4. CASE PutManifest(c)
  <2>1. Goto(c, "finalize") \/ Done(c)
    BY <1>4 DEF PutManifest
  <2> QED BY <1>0, <1>4, <2>1, PutManifestNamed, EndCalm, CalmKeeps
<1>5. CASE ItemRow(c) \/ Finalize(c)
  BY <1>0, <1>5, ItemRowNamed, FinalizeNamed
<1> QED BY <1>1, <1>2, <1>3, <1>4, <1>5 DEF Capture

\* those of retention and collection,
LEMMA RetentionNamed ==
    ASSUME SnapshotsFit, KeysFit, [SnapshotNext]_snapshotVars, NEW c \in Slot, Retention(c)
    PROVE  KeysFit'
<1>0. StepFits
  BY NextKeeps
<1>1. CASE BeginRetention(c) \/ BeginCron(c) \/ Retain(c) \/ Sweep(c)
           \/ QueueKeys(c) \/ DeleteSnapshot(c) \/ DeleteRows(c) \/ Cleanup(c)
  BY <1>1, CalmKeeps, BeginCalm, RetainCalm, DeletionCalm, CleanupCalm
<1>2. CASE EraseFails(c) \/ Dequeue(c)
  BY <1>2, CalmKeeps, CollectCalm
<1>3. CASE \E k : Check(c, k)
  BY <1>0, <1>3, CalmKeeps, CollectCalm, CheckNamed
<1>4. CASE Erase(c)
  BY <1>0, <1>4, EraseNamed
<1> QED BY <1>1, <1>2, <1>3, <1>4 DEF Retention

\* those of repair,
LEMMA RepairNamed ==
    ASSUME SnapshotsFit, KeysFit, [SnapshotNext]_snapshotVars, NEW c \in Slot, Repair(c)
    PROVE  KeysFit'
<1>0. StepFits
  BY NextKeeps
<1>1. CASE (\E s \in Snapshot : BeginRepair(c, s)) \/ RepairNote(c) \/ Relink(c)
  BY <1>1, CalmKeeps, RepairsCalm
<1>2. CASE Verify(c)
  BY <1>2, CalmKeeps, EndCalm
<1>3. CASE RepairManifest(c) \/ RepairItem(c)
  BY <1>0, <1>3, RepairPartNamed DEF RepairManifest, RepairItem
<1>4. CASE RelinkManifest(c) \/ RelinkItem(c)
  BY <1>0, <1>4, RelinkPartNamed DEF RelinkManifest, RelinkItem
<1> QED BY <1>1, <1>2, <1>3, <1>4 DEF Repair

\* and so every step.
LEMMA NextNamed ==
    ASSUME SnapshotsFit, KeysFit, [SnapshotNext]_snapshotVars
    PROVE  KeysFit'
<1>1. CASE \E c \in Slot : Capture(c) \/ Retention(c) \/ Repair(c)
  BY <1>1, CaptureNamed, RetentionNamed, RepairNamed
<1>2. CASE \E c \in Slot : BeginBackup(c) \/ InsertBackup(c) \/ FinishBackup(c) \/ Crash(c)
  BY <1>2, CalmKeeps, BeginCalm, EndCalm
<1>3. CASE \/ \E s \in Snapshot : Cancel(s) \/ Pin(s)
           \/ \E r \in Recipient : SaveRecipient(r)
           \/ \E s \in Frail : \E k \in r2 : Lose(s, k)
           \/ Day \/ UNCHANGED snapshotVars
  BY <1>3, CalmKeeps, OutsideCalm
<1> QED BY <1>1, <1>2, <1>3 DEF SnapshotNext

\* KeysFit holds at first.
LEMMA InitNamed ==
    ASSUME SnapshotInit
    PROVE  KeysFit
<1> DEFINE D == DOMAIN Before
           First(note) == Min({t \in D : Before[t] = note})
<1>0. DOMAIN Before \subseteq Snapshot
  BY SnapshotAssumption
<1>1. /\ copies = 0 /\ queue = {} /\ gone = {} /\ reqs = [c \in Slot |-> Idle]
      /\ r2 = UNION {{ObjectKey(First(Before[s])), ItemKey(s, 0), ManifestKey(s, 0)} : s \in D}
  BY DEF SnapshotInit
<1>2. ASSUME NEW s \in Snapshot
      PROVE  IF s \in D
             THEN /\ snap[s].status = "ready" /\ snap[s].item = ItemKey(s, 0)
                  /\ snap[s].manifest = ManifestKey(s, 0)
             ELSE snap[s] = NoSnapshot
  <2>1. CASE s \notin D
    BY <2>1 DEF SnapshotInit
  <2>2. CASE s \in D
    <3>1. PICK initial, entry :
             snap[s] = [NoSnapshot EXCEPT !.status = "ready", !.integrity = "verified",
                      !.recipient = initial, !.content = Before[s], !.staged = TRUE, !.selected = TRUE,
                      !.entry = entry, !.item = ItemKey(s, 0),
                      !.manifest = ManifestKey(s, 0), !.processed = 1]
      BY <2>2 DEF SnapshotInit
    <3>2. snap[s].status = "ready" /\ snap[s].item = ItemKey(s, 0)
      BY <3>1 DEF NoSnapshot
    <3>3. snap[s].manifest = ManifestKey(s, 0)
      BY <3>1 DEF NoSnapshot
    <3> QED BY <2>2, <3>2, <3>3
  <2> QED BY <2>1, <2>2
<1>3. NoSnapshot.status = "none" /\ NoSnapshot.item = None /\ NoSnapshot.manifest = None
  BY DEF NoSnapshot
<1>4. \A c \in Slot : reqs[c] = Idle /\ reqs[c].pc = "idle"
  BY <1>1 DEF Idle
<1>5. PendingUnused
  <2>1. SUFFICES ASSUME NEW k \in PartKey, Pending(k), Used(k) PROVE FALSE
    BY DEF PendingUnused
  <2>2. \A c \in Slot : ~Fresh(reqs[c]) /\ Holds(reqs[c]) = {}
    BY <1>4 DEF Fresh, Holds, Copying
  <2>3. k # None
    BY SnapshotAssumption DEF PartKey
  <2>4. PICK s \in Snapshot : k \in {snap[s].manifest, snap[s].item}
    BY <1>1, <2>1, <2>2 DEF Used
  <2>5. s \in D /\ k \in {ManifestKey(s, 0), ItemKey(s, 0)}
    BY <1>2, <1>3, <2>3, <2>4
  <2>6. k[3] = 0
    BY <2>5, FixedKeys
  <2>7. ~(k[3] > copies)
    BY <1>1, <2>6
  <2>8. \A t \in Snapshot : k = ManifestKey(t, 0) => t = s
    BY <2>5, FixedKeys
  <2>9. \A t \in Snapshot : k = ItemKey(t, 0) => t = s
    BY <2>5, FixedKeys
  <2>10. snap[s].status = "ready" /\ (k = ItemKey(s, 0) => snap[s].item # None)
    BY <1>2, <2>3, <2>5
  <2> QED BY <2>1, <2>2, <2>7, <2>8, <2>9, <2>10 DEF Pending
<1>6. FreshOnes /\ Stored /\ ErasedUnnamed
  BY <1>4 DEF FreshOnes, Fresh, Stored, StoredAt, ErasedUnnamed, ErasedAt
<1>7. NamesKept
  <2>1. SUFFICES ASSUME NEW s \in Snapshot, Live(s)
                 PROVE  {snap[s].manifest, snap[s].item} \subseteq r2
    BY DEF NamesKept
  <2>2. s \in D /\ {snap[s].manifest, snap[s].item} = {ManifestKey(s, 0), ItemKey(s, 0)}
    BY <1>2, <1>3, <2>1 DEF Live
  <2>3. {ManifestKey(s, 0), ItemKey(s, 0)} \subseteq r2
    BY <1>1, <2>2
  <2> QED BY <2>2, <2>3
<1> QED BY <1>5, <1>6, <1>7 DEF KeysFit

(***************************************************************************)
(* What a ready snapshot names as its manifest or its item is never erased *)
(* by the garbage collection of snapshot-retention.ts, whatever captures,  *)
(* repairs and cleanups overlap with it.                                   *)
(***************************************************************************)
THEOREM NamesAreKept == SnapshotSpec => []NamedKept
<1>1. SnapshotInit => SnapshotsFit /\ KeysFit
  BY InitFits, InitNamed
<1>2. SnapshotsFit /\ KeysFit /\ [SnapshotNext]_snapshotVars => (SnapshotsFit /\ KeysFit)'
  BY NextKeeps, NextNamed DEF StepFits
<1>3. SnapshotsFit /\ KeysFit => NamedKept
  BY DEF KeysFit, NamesKept, NamedKept, Live, Ready
<1> QED BY <1>1, <1>2, <1>3, PTL DEF SnapshotSpec

=============================================================================
