---------------------------- MODULE VaultLibrary ----------------------------
(***************************************************************************)
(* How one vault's searchable library follows its durable state: the       *)
(* handlers that record each persisted state vector in D1, the alarm that  *)
(* runs materialization jobs, the queue of build requests, and the batches *)
(* that publish a generation.                                              *)
(*                                                                         *)
(* What is abstracted.  VaultPersistence models the save itself; here a    *)
(* save moves the vault to its next durable state, numbered from 1, and a  *)
(* state vector's hash is that number (0: no hash recorded).  A snapshot   *)
(* is the number of its note batches.  A D1 statement or batch is one      *)
(* step, a Durable Object storage call is one step with the statement      *)
(* before it (no other event is delivered while one is pending), and the   *)
(* delay of an alarm is left out: one that is set may fire.                *)
(***************************************************************************)
EXTENDS Naturals, Sequences, FiniteSets

CONSTANTS
    Handler,            \* requests and messages in flight
    Builder,            \* the save made by runQueuedMaterialization
    Alarm,              \* the alarm handler, when it waits for a build
    Profiles,           \* runtime profiles a client may report
    Unsafe,             \* states whose snapshot extraction rejects for good
    Batches,            \* note batches of a snapshot
    MaxJobAttempts,     \* MAX_JOB_ATTEMPTS
    RetryLimit,         \* AUTOMATIC_MATERIALIZATION_RETRY_LIMIT
    FaultIn,            \* which calls may fail
    MaxFaults,          \* bound: failed calls
    MaxCrashes,         \* bound: evictions
    MaxRevokes,         \* bound: revocations
    MaxState            \* bound: durable states

ASSUME LibraryAssumption ==
    /\ Builder \notin Handler /\ Alarm \notin Handler
    /\ Profiles \subseteq Nat \ {0}
    /\ Unsafe \subseteq Nat
    /\ Batches \in Nat
    /\ MaxJobAttempts \in Nat \ {0}
    /\ RetryLimit \in Nat \ {0}
    /\ FaultIn \subseteq {"save", "record", "create", "alarm", "job"}
    /\ MaxFaults \in Nat /\ MaxCrashes \in Nat /\ MaxRevokes \in Nat
    /\ MaxState \in Nat \ {0}

VARIABLES
    durable,    \* the vault's latest persisted state
    call,       \* recordPersistedState invocations and sync confirmations
    tail,       \* materializationTail: who waits for a build, in order
    build,      \* runQueuedMaterialization
    run,        \* onAlarm
    alarm,      \* the object's alarm is set
    retry,      \* automatic retry counter in Durable Object storage
    vault,      \* vaults.status
    sync,       \* the vault's vault_sync_states row
    current,    \* current_materializations: a job's index, 0 when absent
    jobs,       \* materialization_jobs with their generations, oldest first
    faults, crashes, revokes

object == <<call, tail, build, run>>
wakeup == <<alarm, retry>>
tables == <<vault, sync, current, jobs>>
budget == <<faults, crashes, revokes>>
vars == <<durable, object, wakeup, tables, budget>>

Call == Handler \cup {Builder}

NoCall == [pc |-> "idle", op |-> "none", hash |-> 0, profile |-> 0, changed |-> FALSE]

NoBuild == [pc |-> "idle", by |-> Alarm, src |-> 0, job |-> 0]

NoRun == [pc |-> "idle", job |-> 0, hash |-> 0]

Active(j) == jobs[j].status \in {"queued", "running"}

ActiveJobs == {j \in 1..Len(jobs) : Active(j)}

\* current_materializations JOIN a published generation: its source.
PublishedSource ==
    IF current # 0 /\ jobs[current].generation = "published"
    THEN jobs[current].src
    ELSE 0

Fault(where) ==
    /\ where \in FaultIn /\ faults < MaxFaults
    /\ faults' = faults + 1
    /\ UNCHANGED <<crashes, revokes>>

-----------------------------------------------------------------------------
(* recordPersistedState *)

At(c, pc) == call' = [call EXCEPT ![c].pc = pc]

\* Captures the hash of the state just persisted.
Recording(op, hash, profile) ==
    [pc |-> "read", op |-> op, hash |-> hash, profile |-> profile, changed |-> FALSE]

\* A message, RPC or web write was saved; it changed the vault, or the save
\* found nothing new.
Change(c) ==
    /\ call[c].pc = "idle"
    /\ durable' \in {durable, durable + 1} /\ durable' <= MaxState
    /\ call' = [call EXCEPT ![c] = Recording("change", durable', 0)]
    /\ UNCHANGED <<tail, build, run, wakeup, tables, budget>>

\* POST sync-confirmation: currentStateVector saves whatever is there; the
\* request may report a runtime profile (0: none).
ConfirmRequested(c, profile) ==
    /\ call[c].pc = "idle" /\ vault = "active"
    /\ call' = [call EXCEPT ![c] = Recording("confirm", durable, profile)]
    /\ UNCHANGED <<durable, tail, build, run, wakeup, tables, budget>>

RecordRead(c) ==
    /\ call[c].pc = "read"
    /\ call' = [call EXCEPT ![c].pc = "write", ![c].changed = sync.hash # call[c].hash]
    /\ UNCHANGED <<durable, tail, build, run, wakeup, tables, budget>>

\* INSERT ... ON CONFLICT DO UPDATE, for an active vault.
RecordWrite(c) ==
    /\ call[c].pc = "write"
    /\ sync' = IF vault = "active" /\ sync.hash # call[c].hash
               THEN [sync EXCEPT !.hash = call[c].hash, !.stale = TRUE, !.error = "none"]
               ELSE sync
    /\ At(c, "wake")
    /\ UNCHANGED <<durable, tail, build, run, wakeup, vault, current, jobs, budget>>

\* (mutant) the alarm is for the first build only
NeedsFirstBuild ==
    vault = "active" /\ sync.confirmed /\ sync.stale /\ sync.error = "none" /\ current = 0

NeedsBuild ==
    vault = "active" /\ sync.confirmed /\ sync.stale /\ sync.error = "none"

RecordDone(c) ==
    /\ call[c].pc = "wake"
    /\ retry' = IF call[c].changed THEN 0 ELSE retry
    /\ alarm' = (alarm \/ NeedsBuild)
    /\ CASE call[c].op = "change" -> call' = [call EXCEPT ![c] = NoCall]
         [] call[c].op \in {"confirm", "denied"} ->
              call' = [call EXCEPT ![c].pc = "confirm", ![c].hash = durable]
         [] call[c].op = "build"   -> At(c, "done")
    /\ UNCHANGED <<durable, tail, build, run, tables, budget>>

\* The request is answered when its build is.
AskBuild(c) ==
    /\ tail' = Append(tail, c)
    /\ call' = [call EXCEPT ![c] = [NoCall EXCEPT !.pc = "building"]]

\* confirmVaultSync with the state vector it was given.  The row is written
\* even when the credential has been revoked since; the build is requested
\* only when it has not.
Confirm(c) ==
    /\ call[c].pc = "confirm"
    /\ LET reported == call[c].profile # 0 /\ call[c].profile # sync.profile
           unchanged == sync.hash = call[c].hash /\ ~sync.stale
       IN  sync' = [sync EXCEPT !.confirmed = TRUE, !.hash = call[c].hash,
                                !.error = "none",
                                !.profile = IF reported THEN call[c].profile ELSE @,
                                !.stale = reported \/ ~unchanged]
    /\ IF call[c].op = "confirm"
       THEN AskBuild(c)
       ELSE call' = [call EXCEPT ![c] = NoCall] /\ UNCHANGED tail
    /\ UNCHANGED <<durable, build, run, wakeup, vault, current, jobs, budget>>

\* A D1 call of a handler rejects: the message or request fails.
RecordFailed(c) ==
    /\ c \in Handler /\ call[c].pc \notin {"idle", "building"}
    /\ Fault("record")
    /\ call' = [call EXCEPT ![c] = NoCall]
    /\ UNCHANGED <<durable, tail, build, run, wakeup, tables>>

-----------------------------------------------------------------------------
(* queueMaterialization and runQueuedMaterialization *)

\* The web editor, restores and the owner ask for builds too.
BuildRequested(c) ==
    /\ call[c].pc = "idle" /\ vault = "active"
    /\ AskBuild(c)
    /\ UNCHANGED <<durable, build, run, wakeup, tables, budget>>

BuildAt(pc) == build' = [build EXCEPT !.pc = pc]

\* The build is over, and the request it was for.
BuildEnds ==
    /\ build' = NoBuild
    /\ call' = [c \in Call |-> IF c \in {Builder, build.by} THEN NoCall ELSE call[c]]

\* Answer whoever waits for this build.
BuildAnswers(answer, hash) ==
    /\ BuildEnds
    /\ run' = IF build.by = Alarm
              THEN [run EXCEPT !.pc = answer, !.hash = hash]
              ELSE run

\* capturePersistedSnapshot saves, and records like any other save.
BuildStarts ==
    /\ build.pc = "idle" /\ tail # <<>>
    /\ build' = [NoBuild EXCEPT !.pc = "capture", !.by = Head(tail)]
    /\ tail' = Tail(tail)
    /\ call' = [call EXCEPT ![Builder] = Recording("build", durable, 0)]
    /\ UNCHANGED <<durable, run, wakeup, tables, budget>>

\* The save failed, or the document kept moving.
CaptureGivesUp ==
    /\ build.pc = "capture" /\ call[Builder].pc = "read"
    /\ Fault("save")
    /\ BuildAnswers("unavailable", 0)
    /\ UNCHANGED <<durable, tail, wakeup, tables>>

\* recordPersistedState rejects, and the build with it: a request fails, an alarm
\* that waits for it is set again.
CaptureRejects ==
    /\ build.pc = "capture" /\ call[Builder].pc \in {"read", "write", "wake"}
    /\ Fault("record")
    /\ BuildEnds
    /\ IF build.by = Alarm THEN run' = NoRun /\ alarm' = TRUE ELSE UNCHANGED <<run, alarm>>
    /\ UNCHANGED <<durable, tail, retry, tables>>

\* The captured state is the one persisted when the capture ends.
Captured ==
    /\ build.pc = "capture" /\ call[Builder].pc = "done"
    /\ IF durable \in Unsafe
       THEN BuildAnswers("unsafe", 0)
       ELSE /\ build' = [build EXCEPT !.pc = "current", !.src = durable]
            /\ call' = [call EXCEPT ![Builder] = NoCall]
            /\ UNCHANGED run
    /\ UNCHANGED <<durable, tail, wakeup, tables, budget>>

\* createMaterializationJob: the current generation is of this source.
LookForCurrent ==
    /\ build.pc = "current"
    /\ IF PublishedSource = build.src
       THEN BuildAnswers("completed", build.src)
       ELSE BuildAt("active") /\ UNCHANGED <<call, run>>
    /\ UNCHANGED <<durable, tail, wakeup, tables, budget>>

\* Or a job for it is queued or running.
LookForActive ==
    /\ build.pc = "active"
    /\ LET same == {j \in ActiveJobs : jobs[j].src = build.src}
       IN  IF same = {}
           THEN BuildAt("create")
           ELSE build' = [build EXCEPT !.pc = "wake", !.job = CHOOSE j \in same : TRUE]
    /\ UNCHANGED <<durable, call, tail, run, wakeup, tables, budget>>

Superseded ==
    [j \in 1..Len(jobs) |->
        IF jobs[j].status = "queued"
        THEN [jobs[j] EXCEPT !.status = "failed", !.generation = "failed"]
        ELSE jobs[j]]

NewJob(staged) ==
    [src |-> build.src, status |-> "queued", generation |-> "staging",
     left |-> Batches, attempts |-> 0, staged |-> staged]

\* One batch: supersede the queued jobs, insert generation and job.
CreateJob ==
    /\ build.pc = "create"
    /\ IF vault = "active"
       THEN /\ jobs' = Append(Superseded, NewJob(TRUE))
            /\ build' = [build EXCEPT !.pc = "wake", !.job = Len(jobs')]
            /\ UNCHANGED <<call, run>>
       ELSE /\ jobs' = Superseded
            /\ BuildAnswers("unavailable", 0)
    /\ UNCHANGED <<durable, tail, wakeup, vault, sync, current, budget>>

\* The batch was rejected, or committed without an answer; either way the
\* staging object is deleted again.
CreateJobFailed(committed) ==
    /\ build.pc = "create" /\ vault = "active"
    /\ Fault("create")
    /\ IF committed
       THEN jobs' = Append(Superseded, NewJob(FALSE))
       ELSE UNCHANGED jobs
    /\ BuildAnswers("unavailable", 0)
    /\ UNCHANGED <<durable, tail, wakeup, vault, sync, current>>

\* (mutant) a job is only woken when it is running already
WakeIfRunning(j) == jobs[j].status = "running"

HasWorkLeft(j) == Active(j)

\* The job is read back; the alarm is set for one that has work left.
WakeForJob ==
    /\ build.pc = "wake"
    /\ alarm' = (alarm \/ HasWorkLeft(build.job))
    /\ BuildAnswers(CASE jobs[build.job].status = "completed"
                           /\ jobs[build.job].generation = "published" -> "completed"
                      [] OTHER -> "queued",
                    build.src)
    /\ UNCHANGED <<durable, tail, retry, tables, budget>>

-----------------------------------------------------------------------------
(* onAlarm: continueNextMaterializationJob *)

RunAt(pc) == run' = [run EXCEPT !.pc = pc]

AlarmFires ==
    /\ alarm /\ run.pc = "idle"
    /\ alarm' = FALSE
    /\ RunAt("claim")
    /\ UNCHANGED <<durable, call, tail, build, retry, tables, budget>>

\* (mutant) the newest job is claimed first
NewestFirst(S) == CHOOSE j \in S : \A i \in S : i <= j

\* The running job, else the oldest queued one.
NextJob(S) ==
    CHOOSE j \in S :
        \A i \in S : \/ jobs[j].status = "running" /\ jobs[i].status = "queued"
                     \/ jobs[j].status = jobs[i].status /\ j <= i

ClaimJob ==
    /\ run.pc = "claim"
    /\ IF ActiveJobs = {}
       THEN RunAt("state") /\ UNCHANGED jobs
       ELSE LET j == NextJob(ActiveJobs)
            IN  /\ jobs' = [jobs EXCEPT ![j].status = "running"]
                /\ run' = [run EXCEPT !.pc = "work", !.job = j]
    /\ UNCHANGED <<durable, call, tail, build, wakeup, vault, sync, current, budget>>

NotesLeft(j) == jobs[j].left > 0

\* One batch of notes; another alarm continues unless it was the last.
ProjectBatch ==
    /\ run.pc = "work" /\ NotesLeft(run.job) /\ jobs[run.job].staged
    /\ jobs' = [jobs EXCEPT ![run.job].left = @ - 1, ![run.job].attempts = 0]
    /\ IF jobs'[run.job].left > 0
       THEN run' = NoRun /\ alarm' = TRUE
       ELSE UNCHANGED <<run, alarm>>
    /\ UNCHANGED <<durable, call, tail, build, retry, vault, sync, current, budget>>

StaleAfter(j) == sync.hash # jobs[j].src

\* (mutant) the pointer moves whether or not the generation was published
PublishedAnyway(j) == j

CurrentAfter(j) == IF vault = "active" /\ jobs[j].generation = "staging" THEN j ELSE current

\* finalizeJob's batch: a revoked vault's generation is not published, but
\* its job is completed.
Publish(j) ==
    /\ jobs' = [jobs EXCEPT
                  ![j].generation = IF @ = "staging" /\ vault = "active" THEN "published" ELSE @,
                  ![j].status = IF @ = "running" THEN "completed" ELSE @,
                  ![j].attempts = 0]
    /\ current' = CurrentAfter(j)
    /\ sync' = [sync EXCEPT !.stale = StaleAfter(j), !.error = "none"]

FinalizeJob ==
    /\ run.pc = "work" /\ ~NotesLeft(run.job)
    /\ Publish(run.job)
    /\ RunAt("more")
    /\ UNCHANGED <<durable, call, tail, build, wakeup, vault, budget>>

\* failJob: whatever the vault's state is by now, the error is recorded.
FailJob(table, j, code) ==
    /\ jobs' = [table EXCEPT
                  ![j].generation = IF @ = "staging" THEN "failed" ELSE @,
                  ![j].status = IF @ \in {"queued", "running"} THEN "failed" ELSE @]
    /\ sync' = [sync EXCEPT !.stale = TRUE, !.error = code]

\* The batch committed but the answer was lost: the job is no longer running,
\* so its attempt counts as the last.
FinalizeAnswerLost ==
    /\ run.pc = "work" /\ ~NotesLeft(run.job)
    /\ Fault("job")
    /\ RunAt("fail")
    /\ Publish(run.job)
    /\ UNCHANGED <<durable, call, tail, build, wakeup, vault>>

FailFinalized ==
    /\ run.pc = "fail"
    /\ FailJob(jobs, run.job, "unavailable")
    /\ RunAt("more")
    /\ UNCHANGED <<durable, call, tail, build, wakeup, vault, current, budget>>

\* A transient failure: try again in a minute, give up after the last attempt.
JobFailed ==
    /\ run.pc = "work"
    /\ Fault("job")
    /\ LET counted == [jobs EXCEPT ![run.job].attempts = @ + 1]
       IN  IF counted[run.job].attempts >= MaxJobAttempts
           THEN /\ FailJob(counted, run.job, "unavailable")
                /\ RunAt("more")
                /\ UNCHANGED alarm
           ELSE /\ jobs' = counted
                /\ run' = NoRun /\ alarm' = TRUE
                /\ UNCHANGED sync
    /\ UNCHANGED <<durable, call, tail, build, retry, vault, current>>

\* The staging object is gone: snapshot_invalid, for good.
StagingMissing ==
    /\ run.pc = "work" /\ NotesLeft(run.job) /\ ~jobs[run.job].staged
    /\ FailJob(jobs, run.job, "unsafe")
    /\ RunAt("more")
    /\ UNCHANGED <<durable, call, tail, build, wakeup, vault, current, budget>>

MoreJobs ==
    /\ run.pc = "more"
    /\ IF ActiveJobs # {}
       THEN run' = NoRun /\ alarm' = TRUE
       ELSE run' = [NoRun EXCEPT !.pc = "state"] /\ UNCHANGED alarm
    /\ UNCHANGED <<durable, call, tail, build, retry, tables, budget>>

-----------------------------------------------------------------------------
(* onAlarm: automatic successor *)

ReadState ==
    /\ run.pc = "state"
    /\ LET idle == vault # "active" \/ ~sync.confirmed \/ sync.hash = 0 \/ ~sync.stale
       IN  IF idle
           THEN run' = NoRun /\ retry' = 0 /\ UNCHANGED tail
           ELSE /\ UNCHANGED retry
                /\ CASE PublishedSource = sync.hash ->
                          /\ run' = [run EXCEPT !.pc = "ready", !.hash = sync.hash]
                          /\ UNCHANGED tail
                     [] PublishedSource # sync.hash /\ sync.error = "unavailable" ->
                          RunAt("retry") /\ UNCHANGED tail
                     [] PublishedSource # sync.hash /\ sync.error = "unsafe" ->
                          run' = NoRun /\ UNCHANGED tail
                     [] PublishedSource # sync.hash /\ sync.error = "none" ->
                          RunAt("waiting") /\ tail' = Append(tail, Alarm)
    /\ UNCHANGED <<durable, call, build, alarm, tables, budget>>

\* (mutant) the library is ready for whatever state is recorded
ReadyWhenPublished(h) == current # 0

ReadyFor(h) == sync.hash = h /\ PublishedSource = h

\* markCurrentLibraryReady compares and sets.
MarkReady ==
    /\ run.pc \in {"ready", "completed"}
    /\ sync' = IF ReadyFor(run.hash)
               THEN [sync EXCEPT !.stale = FALSE, !.error = "none"]
               ELSE sync
    /\ retry' = 0
    /\ run' = NoRun
    /\ UNCHANGED <<durable, call, tail, build, alarm, vault, current, jobs, budget>>

LastAttempt == retry + 1 >= RetryLimit

\* scheduleAutomaticMaterializationRetry(vaultId, true): a job had failed.
RetryAfterError ==
    /\ run.pc = "retry"
    /\ IF LastAttempt
       THEN retry' = 0 /\ UNCHANGED <<alarm, sync>>
       ELSE /\ retry' = retry + 1
            /\ sync' = [sync EXCEPT !.error = IF @ = "unavailable" THEN "none" ELSE @]
            /\ alarm' = TRUE
    /\ run' = NoRun
    /\ UNCHANGED <<durable, call, tail, build, vault, current, jobs, budget>>

\* scheduleAutomaticMaterializationRetry(vaultId, false): the request failed;
\* after the last retry the failure is recorded.
RetryBuild ==
    /\ run.pc = "unavailable"
    /\ IF LastAttempt
       THEN /\ retry' = 0
            /\ sync' = [sync EXCEPT !.stale = TRUE, !.error = "unavailable"]
            /\ UNCHANGED alarm
       ELSE retry' = retry + 1 /\ alarm' = TRUE /\ UNCHANGED sync
    /\ run' = NoRun
    /\ UNCHANGED <<durable, call, tail, build, vault, current, jobs, budget>>

\* recordAutomaticMaterializationFailure: the snapshot cannot be built.
RecordUnsafe ==
    /\ run.pc = "unsafe"
    /\ sync' = [sync EXCEPT !.stale = TRUE, !.error = "unsafe"]
    /\ run' = NoRun
    /\ UNCHANGED <<durable, call, tail, build, wakeup, vault, current, jobs, budget>>

\* The job was queued: the alarm it set continues.
BuildQueued ==
    /\ run.pc = "queued"
    /\ run' = NoRun
    /\ UNCHANGED <<durable, call, tail, build, wakeup, tables, budget>>

\* Any other rejection is caught: the alarm is set again.
AlarmFailed ==
    /\ run.pc \notin {"idle", "waiting", "work", "fail"}
    /\ Fault("alarm")
    /\ run' = NoRun /\ alarm' = TRUE
    /\ UNCHANGED <<durable, call, tail, build, retry, tables>>

-----------------------------------------------------------------------------
(* The surroundings *)

\* Eviction: an alarm whose handler did not finish is delivered again.
Evict ==
    /\ crashes < MaxCrashes
    /\ crashes' = crashes + 1 /\ UNCHANGED <<faults, revokes>>
    /\ call' = [c \in Call |-> NoCall]
    /\ tail' = <<>> /\ build' = NoBuild /\ run' = NoRun
    /\ alarm' = (alarm \/ run.pc # "idle")
    /\ UNCHANGED <<durable, retry, tables>>

\* Every credential of the vault is revoked with it.
Revoke ==
    /\ vault = "active" /\ revokes < MaxRevokes
    /\ vault' = "revoked" /\ revokes' = revokes + 1
    /\ call' = [c \in Call |-> [call[c] EXCEPT !.op = IF @ = "confirm" THEN "denied" ELSE @]]
    /\ UNCHANGED <<durable, tail, build, run, wakeup, sync, current, jobs, faults, crashes>>

\* exchangePairingGrant on an existing vault resets its sync state.
Unsynced(profile) ==
    [hash |-> 0, stale |-> TRUE, error |-> "none", confirmed |-> FALSE, profile |-> profile]

Pair ==
    /\ vault' = "active"
    /\ sync' = Unsynced(sync.profile)
    /\ UNCHANGED <<durable, object, wakeup, current, jobs, budget>>

Init ==
    /\ durable = 1
    /\ call = [c \in Call |-> NoCall]
    /\ tail = <<>> /\ build = NoBuild /\ run = NoRun
    /\ alarm = FALSE /\ retry = 0
    /\ vault = "active" /\ sync = Unsynced(0)
    /\ current = 0 /\ jobs = <<>>
    /\ faults = 0 /\ crashes = 0 /\ revokes = 0

Record(c) == RecordRead(c) \/ RecordWrite(c) \/ RecordDone(c) \/ Confirm(c)

Build ==
    \/ BuildStarts \/ Captured \/ LookForCurrent \/ LookForActive
    \/ CreateJob \/ WakeForJob

Run ==
    \/ ClaimJob \/ ProjectBatch \/ FinalizeJob \/ FailFinalized
    \/ StagingMissing \/ MoreJobs \/ ReadState \/ MarkReady
    \/ RetryAfterError \/ RetryBuild \/ RecordUnsafe \/ BuildQueued

Faulty ==
    \/ \E c \in Handler : RecordFailed(c)
    \/ CaptureGivesUp \/ CaptureRejects
    \/ \E committed \in BOOLEAN : CreateJobFailed(committed)
    \/ FinalizeAnswerLost \/ JobFailed \/ AlarmFailed

Environment ==
    \/ \E c \in Handler :
           \/ Change(c) \/ BuildRequested(c)
           \/ \E profile \in {0} \cup Profiles : ConfirmRequested(c, profile)
    \/ Evict \/ Revoke \/ Pair

Next ==
    \/ Environment \/ Faulty \/ AlarmFires \/ Build \/ Run
    \/ \E c \in Call : Record(c)

Spec == Init /\ [][Next]_vars

\* Handlers and the build queue keep running, and an alarm that is set fires.
Fairness ==
    /\ \A c \in Call : WF_vars(Record(c))
    /\ WF_vars(Build) /\ WF_vars(Run) /\ WF_vars(AlarmFires)

FairSpec == Spec /\ Fairness

-----------------------------------------------------------------------------
(* Properties *)

TypeOK ==
    /\ durable \in 1..MaxState
    /\ call \in [Call ->
         [pc : {"idle", "read", "write", "wake", "confirm", "done", "building"},
          op : {"none", "change", "confirm", "denied", "build"},
          hash : 0..MaxState, profile : Nat, changed : BOOLEAN]]
    /\ tail \in Seq(Handler \cup {Alarm})
    /\ build \in [pc : {"idle", "capture", "current", "active", "create", "wake"},
                  by : Handler \cup {Alarm},
                  src : 0..MaxState, job : 0..Len(jobs)]
    /\ run \in [pc : {"idle", "claim", "work", "fail", "more", "state", "waiting",
                     "ready", "completed", "queued", "retry", "unavailable", "unsafe"},
                job : 0..Len(jobs), hash : 0..MaxState]
    /\ alarm \in BOOLEAN /\ retry \in 0..RetryLimit - 1
    /\ vault \in {"active", "revoked"}
    /\ sync \in [hash : 0..MaxState, stale : BOOLEAN,
                 error : {"none", "unavailable", "unsafe"},
                 confirmed : BOOLEAN, profile : Nat]
    /\ current \in 0..Len(jobs)
    /\ jobs \in Seq([src : 1..MaxState,
                    status : {"queued", "running", "completed", "failed"},
                    generation : {"staging", "published", "failed"},
                    left : 0..Batches, attempts : 0..MaxJobAttempts,
                    staged : BOOLEAN])
    /\ faults \in 0..MaxFaults /\ crashes \in 0..MaxCrashes /\ revokes \in 0..MaxRevokes

(***************************************************************************)
(* What readers resolve is a complete, published generation, whatever the  *)
(* vault's status, the retries and the lost answers of the finalizing      *)
(* batch.                                                                  *)
(***************************************************************************)
CurrentIsPublished ==
    current # 0 =>
        /\ jobs[current].generation = "published"
        /\ jobs[current].status = "completed"
        /\ jobs[current].left = 0

(***************************************************************************)
(* A published generation is never replaced by one of an older state:      *)
(* builds are serialized, a newer one supersedes those still queued and    *)
(* the running job is always continued before a queued one.                *)
(***************************************************************************)
CurrentNeverGoesBack ==
    [][current # 0 => current' # 0 /\ jobs'[current'].src >= jobs[current].src]_vars

(***************************************************************************)
(* The stale flag, written by saves, confirmations, finished and failed    *)
(* jobs and the alarm in any order, is down only while the published       *)
(* generation is of the state D1 records: what the diagnostics, the        *)
(* readiness checks and the owner's pages, which read the flag alone, show *)
(* as fresh is what agents may use.                                        *)
(***************************************************************************)
NotStaleMeansCurrent ==
    vault = "active" /\ ~sync.stale => PublishedSource = sync.hash

(***************************************************************************)
(* A vault has at most one job being projected and one waiting, so the     *)
(* alarm never works through a backlog of states nobody wants.             *)
(***************************************************************************)
NoBacklog ==
    /\ Cardinality({j \in ActiveJobs : jobs[j].status = "running"}) <= 1
    /\ Cardinality({j \in ActiveJobs : jobs[j].status = "queued"}) <= 1

(***************************************************************************)
(* A confirmed vault whose library is stale does not stay so without an    *)
(* error to show: the alarm rebuilds it, or records why it cannot.         *)
(***************************************************************************)
Outdated == vault = "active" /\ sync.confirmed /\ sync.stale /\ sync.error = "none"

StaleIsRebuilt == Outdated ~> ~Outdated

(***************************************************************************)
(* Every job ends.                                                         *)
(***************************************************************************)
JobsEnd == ActiveJobs # {} ~> ActiveJobs = {}

(***************************************************************************)
(* The state invariant of the library: rows are well formed, what readers  *)
(* resolve is a complete published generation however saves, failed jobs,  *)
(* revocations and evictions interleave, and no backlog of jobs builds up  *)
(* (createMaterializationJob supersedes, the alarm continues the running   *)
(* job first).                                                             *)
(***************************************************************************)
LibraryInv == TypeOK /\ CurrentIsPublished /\ NoBacklog

=============================================================================
