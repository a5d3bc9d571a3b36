# MDevolved: verification

TLA+ models of the parts of MDevolved that keep people's notes and what agents
do with them: the live Yjs document of a vault and its save path, the store
below it, the searchable library derived from it, web and restore writes into
it, the recovery restore, recovery snapshots; and the coordination of agents:
creating a project, the authority of its clients, what they submit, the lead of
a project, its runs and their actors. TLC checks the models on small instances;
TLAPS proves their safety properties and refinements for all values of the
constants. Paths below are relative to the repository.

Contents: [the system](#the-system), [modules](#modules), [runs](#runs),
[proofs](#proofs), [disagreements](#disagreements-with-the-documentation),
[not modelled](#what-is-not-modelled), [plan](#plan).

## The system

MDevolved synchronises folders of Markdown notes ("vaults") between devices and
serves them to agents. One Cloudflare Worker (`apps/worker`) answers all
requests. Each vault has one Durable Object, `VaultCoordinator`, that holds the
vault's Yjs document in memory and persists it in the object's key-value
storage. D1 (SQLite) holds every table; R2 holds notes' content, snapshots and
staging objects. Nothing is shared in memory between Worker requests, so two
requests interleave at every `await`; the Durable Object runs one event at a
time but other events run while one awaits D1, R2 or a digest.

| Component | State it keeps | Operations | Talks to |
|---|---|---|---|
| Save chain, `yaos-core/persistenceCoordinator.ts` | `lastPersistedStateVector`, consecutive failures, health, the promise chain | `enqueueSave`, append, checkpoint fallback, compaction | called by the coordinator; writes the document store |
| Chunked document store, `yaos-core/chunkedDocStore.ts` | checkpoint pointer, manifests, chunks, state vectors; journal meta, entries, chunks | `loadState`, `appendUpdate`, `rewriteCheckpoint` | Durable Object storage, one transaction each |
| Vault coordinator, `vault-coordinator.ts` | the live document, `materializationTail`, the alarm, a retry counter | messages, `applyUpdate`, web and restore writes, `capturePersistedSnapshot`, `queueMaterialization`, `onAlarm` | save chain, D1 sync row, materialization jobs |
| Materialization, `materialization-*.ts` | jobs, generations, the current pointer, staged snapshots in R2 | create or reuse a job, one batch at a time, finalize, fail | called from the alarm; reads are the agents' library |
| Pairing and devices, `pairing-store.ts` | vaults, credentials, the sync row | exchange a grant, confirm a sync, revoke | sync row shared with the coordinator |
| Recovery restore, `restore-*.ts` | a job, its entries, staging objects, lineage | create, upload, preview, confirm, apply, hourly reaper | coordinator (`restoreMarkdownNote`, materializations), R2 |
| Snapshots and backups, `snapshot-*.ts`, `backup-store.ts` | snapshot rows, shared encrypted objects, a deletion queue, the recovery recipient | capture and continue, finalize, retention, cleanup, collection, repair, portable backup | R2 and D1; collection runs from the hourly cron |
| Content retention, `materialization-retention.ts` | object references | sweep | R2 and D1 |
| Project creation, `project-initialization-*.ts`, `prepared-project-handoff-*.ts` | requests, approval claims with deadlines, name reservations, handoffs | ask, approve, create, bind, reject, supersede | collaboration service creates the project |
| Collaboration, `collaboration-*.ts`, `agent-access-*.ts` | vault grants, collaboration grants, versions of the brief, work packets, records with visibility and disposition, bodies in R2 | approve, revoke, submit, share, accept, rotate a packet, edit the brief, collect bodies | pairing revokes grants; MCP tools submit |
| Lead continuity and policy, `continuity-*.ts`, `policy-operation-*.ts` | the lease of a lead with its token, continuity points, receipts, schedules and requests | claim, renew, checkpoint, drill, hourly policy run | every lead operation repeats the lease's fence |
| Lead runs and actors, `lead-operation-*.ts`, `elastic-operation-*.ts` | a run, bundles, budget, exceptions, decisions; actors in bounded slots | start, register, submit, review, recover, decide, complete | fence, policy |
| Compounding drafts, working profile, agent memory | drafts, versioned documents | claim, act, publish | D1, R2 |
| Folder client, `folderReconciliation.ts`, `sourceBoundary.ts`, CLI, desktop | a baseline, a local folder, credentials | reconcile, start, stop, revoke | the Worker's HTTP API |
| Access and presentation: auth, OAuth grants, MCP server, web application | sessions, grants | check and forward | all of the above |

What is hard, and for which component it decides correctness:

- **Saves overlap with edits.** A save awaits storage while the document moves.
  A receipt must name only what its own or an earlier save stored; a failed
  save must neither block the ones behind it nor move the baseline the next
  delta is computed from.
- **Evictions.** Memory, queues and handlers vanish at any await. What was
  acknowledged must be in storage, and what is derived must be scheduled again.
- **The library follows asynchronously.** Every save, confirmation, job and
  alarm writes one sync row in an order nobody controls. Readers must see a
  complete generation, never an older one after a newer one, and "not stale"
  must be true.
- **Optimistic writes.** A web edit or a restore reads a note, awaits, and
  writes; what somebody typed meanwhile must not disappear unseen.
- **Overlapping requests.** Browsers retry and tabs are opened twice. Each
  request read its row once; the reaper deletes rows meanwhile. A restore
  reported complete must be complete.
- **Read, put, commit.** Nearly every operation of projects reads D1 in several
  queries, puts a body in R2, and commits in one batch that repeats some of what
  was read. Leases expire, claims lapse, grants are revoked and rows move in
  between; what the batch does not repeat is stale. And the same request is
  delivered twice, or its answer is lost although it committed.
- **Deletion beside reuse.** Collectors decide that an object is garbage from a
  list read earlier, while captures and packets come to name it.
- **Chunk arithmetic.** Payloads are cut with a chunk size that a deployment may
  change; a rewrite must delete exactly the keys it no longer needs.

`PROJECT.json` lists each hazard at its line, with the properties that guard it
or the reason there is none yet.

## Modules

| Module | Models | Kind |
|---|---|---|
| `DurableVault` | what a vault promises about durability | abstract specification |
| `VaultPersistence` | live document, save chain, handlers around a save | detailed; implements `DurableVault` |
| `DocStore` | a checkpoint and a journal | abstract specification |
| `ChunkedDocStore` | their keys and chunks | detailed; implements `DocStore` |
| `VaultLibrary` | sync row, build queue, jobs, alarm | detailed |
| `NoteWrites` | web edits, creations and restore writes to one path | detailed |
| `RestoreJob` | one recovery restore from creation to reaper | detailed |
| `SnapshotStore` | recovery snapshots, retention, collection, repair, backups | detailed |
| `ProjectCreation` | requests for a project name, approvals, handoffs | detailed |
| `Collaboration` | authority, submissions, brief, packets, bodies of one project | detailed |
| `LeadContinuity` | lease and fence, checkpoints, drills, schedules | detailed |
| `LeadRun` | one run: bundles, budget, exceptions, decisions, completion | detailed |
| `RunActors` | actors of a run in bounded slots | detailed |
| `...Proofs` | the theorems about the module of that name; three hold those of a second module too, see [proofs](#proofs) | proofs |
| `MC...` | instances for TLC | model checking |

They meet where the code calls across. `VaultPersistence` uses the store through
`JournalAppend` and `CheckpointRewrite`, each one atomic transaction, and
`ChunkedDocStore` shows those two operations behave so. `VaultLibrary` takes a
finished save as one step to the next durable state. `NoteWrites` stops where its
transaction queues a save. `RestoreJob` takes `restoreMarkdownNote` as one step
that writes or refuses, which is what `NoteWrites` establishes about its awaits
(`NothingUnseenLost`). `ProjectCreation` ends with a project and its first packet,
where `Collaboration` begins. `LeadContinuity` has the fence, which `LeadRun` and
`RunActors` take as a request that may fail at its commit (`Fail`); `RunActors`
takes the completion of a run, whose reads are in `LeadRun`, as one step.

### VaultPersistence

A Yjs document is the set of structs inserted into it and the set of structs
deleted from it. A state vector is the set of inserted structs: it says nothing
about deletions, as in Yjs. Updates are pairs of such sets and merge by union.

| Code | Model |
|---|---|
| `Y.Doc`, `documentLoaded` | `doc`, `loaded` |
| `lastPersistedStateVector`, `consecutiveSaveFailures`, `health` | `lastSV`, `failures`, `status`, `pending` |
| `saveChain` | `queue` (waiting handlers in order), `save` (the one under way) |
| handlers | `caller`: idle, queued, recording in D1, about to reply |
| storage | `ckpt`, `journal` |
| `enqueueSave` | `EnqueueSave`, `FinishSave` |
| `executeSave` to its first await | `SaveSkipped`, `SaveStarted` |
| `executeAppend` | `AppendSucceeded`, `AppendFailed` (with or without the entry committed) |
| the three checkpoint functions | `CheckpointSucceeded`, `CheckpointFailed`, `CheckpointStatsFailed` |
| `loadDocument` | `LoadDocument` |
| messages, `applyUpdate`, `capturePersistedSnapshot` | `ApplyAndSave`, `SaveOnly`, `CaptureSnapshot`, then `Record`, `Reply`, `CaptureDone`, `CaptureRetry` |
| eviction | `Evict` |

`acked` is a history variable: the union of everything reported durable after a
save, quoting the state vector the code quotes.

### ChunkedDocStore

Each family of keys is a function from the keys present. A byte string is a short
sequence and its SHA-256 the sequence itself, so a hash check fails exactly when
the bytes differ. `AppendUpdate` and `RewriteCheckpoint` are whole transactions,
with the checks that make them throw and the manifests they write
(`EntryManifest`, `CheckpointManifest`); `Restart` changes `chunkSizeBytes`. The
readers (`CheckpointReadable`, `JournalReadable`, `LoadJournal`) are the checks
and the reassembly of `loadCheckpoint`, `loadJournal` and `readChunkedPayload`.

### VaultLibrary

Durable states are numbered; a state vector's hash is its number. `call` holds the
`recordPersistedState` invocations and sync confirmations by the await they are
at; `tail` and `build` are `materializationTail` and `runQueuedMaterialization`;
`run` is `onAlarm`; `sync`, `current` and `jobs` are the D1 rows. A job and its
generation are one record. Anything that may be rejected has its own action
(`RecordFailed`, `CaptureRejects`, `CaptureGivesUp`, `CreateJobFailed`, `JobFailed`,
`FinalizeAnswerLost`, `AlarmFailed`), taken only where `FaultIn` allows.

### NoteWrites

One path and its file identities: none, active or deleted, with a modification
time and a set of passages. A request holds what it read and a flag raised by any
transaction that inserts structs, which is what comparing state vectors
detects; `Erase` does not raise it. Both retry loops (`captureStableLiveNote`
inside the write loop) are counted as in the code.

### RestoreJob

`job`, `entry` and `target` are the rows, `object` the staging objects in R2.
Uploads, previews, applies and the reaper are processes, each at one of its
awaits; `Abandon` ends any of them anywhere. `builds` are materializations, which
finish or fail when they like. Histories: `restored` (notes the vault wrote) and
the notes each materialization contains.

### SnapshotStore

`snap` are the rows of `workspace_snapshots` with one note's entry and one
intelligence item; `sealed` the encrypted objects captures share; `r2` the keys
present, `gone` those R2 lost; `copies` how many manifests and items were written
again, each under a key of its own; `queue` and `aged` the deletion queue and what has
waited its day. A request is a call in a slot of `reqs`, at one of its awaits.

| Code | Model |
|---|---|
| `startWorkspaceSnapshot` | `BeginStart`, `Insert`, `Stage` (the entries), `Select` (the intelligence, in later statements), `StageFails` |
| `continueWorkspaceSnapshot` | `BeginContinue` to `Progress`: one action per R2 put or D1 batch; items and entries are counted in two queries (`CountItems`, `CountEntries`) |
| `finalizeWorkspaceSnapshot` | `PutManifest` (guard `Publishable`), `Finalize` (guard `Finalizable`) |
| `enforceSnapshotRetention`, `queueSnapshotDeletion` | `Retain`, `QueueKeys`, `DeleteSnapshot`, `DeleteRows` |
| hourly cron | `BeginCron`, `Cleanup`, `Sweep`, `Check`, `Erase`, `Dequeue` |
| `repairWorkspaceSnapshot` | `BeginRepair` to `Verify` |
| recipient and portable backup | `SaveRecipient`, `BeginBackup`, `InsertBackup`, `FinishBackup` |
| a request lost, an object lost by R2, a day | `Crash`, `Lose`, `Day` |

Three things are simpler than the code. A repair degrades the snapshot in the step that puts
the part again. A search for a shared object reads the rows at each try, where the code walks
five rows it read once. And a verification looks at everything, where the code takes the
client's word for the cursor it begins at.

### ProjectCreation

Requests of agents for one name in one vault. `claim` are the approval claims,
`reservation` the row of the name, `project` the projects created with it,
`handoff` the latest prepared handoff. An approval is a call that takes the
claim, the reservation, creates, binds, reads the status and commits in separate steps, any of
which may throw, the consumption of the handoff included; the claim
and the handoff's claim lapse while it works, and it remembers which had lapsed when
it began, as the code compares with the time it started. Answers are lost, grants
revoked, requests rejected, superseded and overdue within `MaxTroubles`.

### Collaboration

| Code | Model |
|---|---|
| `vaults`, `agent_grants`, `collaboration_grants`, approved `project_initialization_requests` | `vault` with the number of its pairings, `agents`, `grants`, `approvals` |
| `POST /api/agent/oauth/approve` for a vault | `CreateAgent`, `ActivateAgent` |
| `approveInitializationWithProjectGrant`, `supersedeInitializationForFreshApproval` | `Approve`, `Supersede` |
| `resolveApprovedProjectAuthorization`, `repairApprovedProjectAuthorization` | `BeginRepair`, `CommitRepair` (its INSERT selects on `Unmoved`) |
| the consent to an approval of an older release | `AskGrant`, `CreateGrant`, `ActivateGrant`, `CompleteGrant` |
| expiry of a connection | `Lapse` |
| revocation of a connection, a vault grant, all of them, a vault; pairing | `RevokeGrant`, `RevokeAgent`, `BeginRevokeAll` with `RevokeConnections`, `RevokeVault`, `Pair` |
| project archived, hidden; work item closed, reopened | `SetArchived`, `SetVisible`, `SetOpen` |
| `updateCollaborationProjectBrief` | `BeginBrief`, `CommitBrief` (its guard INSERT is `Guarded`) |
| `createContinuationWorkPacket` | `BeginRotation`, or `BeginRefresh` for a client that reads an outdated packet; `SelectRecords`, `CommitRotation` (primary key `NotContinued`) |
| `submitCollaborationRecord` | `BeginSubmit`, `ReadReceipt`, `CommitSubmit`, `SubmitAgain` |
| `applyOwnerRecordAction`, `createOwnerDecision` | `BeginAction`, `CommitAction`; `Decide` |
| `runCollaborationGarbageCollection` | `BeginCollection`, `Collect`; its minute of grace is left out, so it collects earlier than the code would |

`answers` is a history variable: the receipts clients were given. `events` keeps
what the owner did to each record. A batch may commit while the worker is told that
it failed (`lost`): the code then queues the bodies of what it has just recorded.

Three ways lead to a connection. An approval makes one in its own batch. A repair gives an
approval a new one when the old one lapsed, or when its vault grant ended and the client has
another. A consent to an approval of an older release makes one in three batches. A request
appears in the model when it is approved, under any active vault grant, so pending requests
and their rebinding to a successor are that choice. When several approvals of a client can
be repaired, the one the code takes is left open. Pairing a vault that is active replaces its
credential and no grant, and is no step here. The owner's own import is left out, as it needs
no connection; a batch refused because two first submissions of one client insert the same
participant ends as `Abandon`. Only bodies with a random identity are ever queued: the
objects named by content that retention queues (`collaboration-retention.ts:124`), and that a
later record finds by HEAD, are outside.

### LeadContinuity

`lease` is the row of `project_lead_leases`; a claim makes a new token. `log` are the
committed checkpoints and drills with their receipts. A request reads the clock
once, is authorised (`BeginCheckpoint`, `BeginDrill`, `BeginClaim`, `BeginRenew`)
and commits later under the fence (`CommitCheckpoint`, `CommitDrill`...), which D1
evaluates at its own time. `schedule` and `due` are the policy's schedules and
requests; `cron` the invocations of the hourly handler, which overlap and crash
between the batch that records a request and the one that advances the schedule.

### LeadRun

One run. A bundle, a budget entry, a policy evaluation and a completion each read
what the code reads, in its queries, and commit in a batch that repeats the
receipt, the version of the budget, the number of bundles and the binding, and
nothing else. `exceptions` and `decisions` are rows; `receipt` what each request
was answered. Two things are simpler: the gates leave out that the request must not name an
action only the owner may take, which is in its input, and `CommitComplete` refuses a run that
has ended, where the code accepts a second completion of the same second and outcome.

### RunActors

`slot` and `record` are the two unique slots of an actor, `plane` and `account` the
two counters the code keeps. Every request first retires the actors whose lifetime
is over (`reconcileExpiredElasticActors`, select and batch), then reads counts and
free slots, then commits; `lapsed` stands for time.

## Runs

Deadlock is checked in the runs of the vault modules and the restore, where clients,
evictions or restarts can always act. In `lead_continuity`, `lead_run`, `run_actors`,
`project_creation`, `snapshots` and `collaboration` it is not: requests, keys and time
are bounded there, and when they are used up nothing more happens. Between them the
runs take every action of every module.

| Run | Instance | Shows |
|---|---|---|
| `vault_save_safety` | 2 structs, one deletable, 2 handlers; thresholds 1 or 2 so that appends, fallbacks and compactions all happen; 2 failures | `ReceiptsDurable`: no receipt is ahead of storage; `NotPendingMeansStored`: health is honest; `StoredOnlyGrows`: no rewrite drops stored state; `ImplementsDurableVault`; `EveryCallAnswered` |
| `doc_store` | payloads of 0 to 3 bytes, chunks of 1 or 2 bytes, 3 checkpoints, 3 journal entries | `AlwaysLoads`, `NoOrphanKeys`, `ImplementsDocStore` |
| `library_safety` | 1 handler beside the builder and the alarm, 2 states, one fault of any kind, one eviction, one revocation, re-pairing | `LibraryInv` (a current generation is complete and published, no backlog of jobs), `CurrentNeverGoesBack`, `NotStaleMeansCurrent` |
| `library_progress` | 3 states, the third not extractable, one runtime profile, one failed job step or alarm | `StaleIsRebuilt`, `JobsEnd` |
| `restore_safety` | 2 notes, one edited by others, 1 preview, 2 applies, batches of 2, 2 materializations | `RestoreInv` (applied is complete and tagged, verified after the last write), `Resumable`, `NoneStranded` |
| `note_writes` | 2 file identities, 1 passage, one editor, creator and restorer, 2 rounds, 2 in flight | `NothingUnseenLost`, `EveryStepCounts` |
| `lead_continuity` | 2 leads, 2 keys, 2 requests and 2 cron invocations with 2 in flight, 2 tokens, leases of one tick, 3 commits | `OnlyTheHolderCommits`: the fence; `NoSecondAppend`: a request commits once; `ContinuityInv`: one chain of points, drills by a replacement, one pending request; `WindowsAreAsked`: no window is skipped |
| `lead_run` | 2 actors, 4 bundles (two results that may differ, a review and its request), a budget of 3, 2 bindings, 2 in flight | `RunInv` (one outcome per request, independent reviews), `ConflictsRecorded`, `AccountsExact`, `SoloConsentStands` |
| `run_actors` | 3 actors, 2 slots, 3 records, batches of 2, 2 in flight | `ActorsInv` (an active actor has a slot of its own, records are dense), `NoCapacityLost`, `NeverRevived` |
| `project_creation` | 2 requests of one agent for one name, 2 context policies, 2 calls, 2 claims, 1 handoff, 1 trouble | `CreationInv` (one project, approved as defined), `OutcomesFinal`, `HandoffSpent` |
| `snapshots` | 3 snapshots and a fourth captured, 4 objects, 2 contents, 2 recipients, 4 requests, 2 at a time, 1 day, 1 trouble, 1 choice of the owner | `SnapshotInv` (ready is complete, of one recipient, which stays), `NamedKept` (no manifest or item in use is erased), `KnownGoodKept` |
| `collaboration` | 1 client with two approvals (one of an older release) and an attempt begun, 1 more submission, 2 calls of 3, 2 turns of authority, project or clock, 3 grants of each kind, 2 pairings, 3 packets, 1 lost answer | `CollaborationInv` (one history of the brief, one current packet, bodies kept), `SubmittedOnce`, `AuthorityEnds` (no use of what was approved before the vault was revoked), `RevocationFinal` (a revoked connection and its approval stay so), `SharedByOwner` |

Why the bounds are enough for what the runs ask:

- *Two handlers, two structs* put a second save behind one that fails, falls back
  or compacts, with the document moved between. Deleting needs one struct; the
  other tells a full checkpoint from a delta. The theorems remove these bounds
  for the safety properties.
- *Three-byte payloads* with chunks of one or two have no chunk, one, an exact
  multiple and a partial last chunk; three checkpoints replace one of another
  chunk size twice.
- *Two states and one handler* with the builder, which records too, put two
  recordings and a job of each state in flight. A third state in the progress run
  gives a job running, one queued and one superseding it.
- *Two notes and two applies* let one request work through a batch while the other
  completes, fails or expires the job. One note is edited, one is untouched.
- *Two requests in flight* suffice in `NoteWrites`: everything a third could do to
  a note, a client's actions do. One clock value makes all modification times tie,
  so identity decides and either file can become the path's live note. With one
  passage the texts are empty and non-empty, which is enough for a text to be
  unseen, erased, and restored.
- *Two leads and two tokens* are a late request of the former lead beside the
  successor's claim; three commits are a chain that two requests race to extend. A
  lease of one tick expires and one interval passes before the clock stops.
- *Three actors in two slots* are a full run, a third that must wait or succeed
  another, and two requests that read the same free slot.
- *Four requests, two at a time,* are a capture continued twice, or a collection beside a capture or
  a repair.
- *Two calls and two claims* are a holder whose claim lapsed and its successor.
- *Three calls* of a project are enough for a handoff to be submitted, shared and
  carried by a packet, for an approval under way across a revocation and a second
  pairing (two turns), for a repair beside a revocation, and for two edits of the brief
  with a rotation between. One submission delivered twice is what `SubmittedOnce` is
  about, and a handoff refers to the attempt that is there at first.
  Mutants of each guard are found within them.
- `MaxFaults`, `MaxCrashes`, `MaxRevokes`, `MaxTroubles`, `MaxLost` count external
  events; every await may be the one that is hit.
- Each bound on a counter (`MaxFailures`, `MaxJournal`, `MaxState`, `MaxBuilds`,
  `MaxVersion`, `MaxSeq`, `MaxLog`, `MaxRows`...) is a guard named in its module's
  CONSTANTS. `MaxJournal` exceeds what compaction leaves.
- Symmetry is used where requests, slots, agents and submissions are
  interchangeable, in runs without liveness properties.

Fairness:

- `VaultPersistence`: weak fairness of `SaveStep` and of each handler's steps. A
  storage transaction settles one way or the other, and a promise whose result is
  there is continued. Nothing is assumed of clients or evictions.
- `VaultLibrary`: weak fairness of each recording, of the build queue, of the alarm
  handler and of `AlarmFires`, which Durable Objects guarantee for an alarm that is
  set. Failures are not fair: after `MaxFaults` they stop, so the retries must
  succeed or record an error, and nothing is said of a call that fails for ever.
- `NoteWrites` needs none: instead of assuming that clients pause,
  `EveryStepCounts` says that every step of a request decreases a natural number.
- The other modules have no liveness property: a restore, a capture, an approval or a
  run proceeds when its owner or agent calls again, and nothing in the code makes
  them.

## Proofs

The proof modules prove, for every value of the constants, every safety property that the
runs check, both refinements, and the types of `NoteWrites` and `VaultPersistence`, on which
their properties rest. They hold no model: each extends the modules it is about.

| Module | Theorem | States `Spec =>` |
|---|---|---|
| `VaultPersistenceProofs` | `TypeCorrect`, `ReceiptsAreDurable`, `NotPendingIsStored` | `[]TypeOK`, `[]ReceiptsDurable`, `[]NotPendingMeansStored` |
| | `StorageGrows`, `Implements` | `StoredOnlyGrows`, `Durable!Spec` (the refinement) |
| | `StoreInvariance`, `StoreLoads`, `NothingLeftBehind`, `StoreImplements` (of `ChunkedDocStore`) | `[]StoreIInv`, `[]AlwaysLoads`, `[]NoOrphanKeys`, `ImplementsDocStore` (the refinement) |
| `VaultLibraryProofs` | `LibraryStands`, `FreshIsCurrent`, `NeverGoesBack` | `[]LibraryInv`, `[]NotStaleMeansCurrent`, `CurrentNeverGoesBack` |
| | `SnapshotInvariance`, `NamesAreKept`, `KnownGoodIsKept` (of `SnapshotStore`) | `[]SnapshotInv`, `[]NamedKept`, `KnownGoodKept` |
| `NoteWritesProofs` | `TypeCorrect`, `UnseenIsKept`, `StepsCount` | `[]TypeOK`, `NothingUnseenLost`, `EveryStepCounts` |
| `RestoreJobProofs` | `RestoreStands`, `StaysResumable`, `NoJobStranded` | `[]RestoreInv`, `[]Resumable`, `NoneStranded` |
| | `CreationInvariance`, `OutcomesAreFinal`, `HandoffsStaySpent` (of `ProjectCreation`) | `[]CreationInv`, `OutcomesFinal`, `HandoffSpent` |
| `CollaborationProofs` | `RecordsStand`, `RecordedOnce`, `OwnerShares` | `[]CollaborationInv`, `[]SubmittedOnce`, `[]SharedByOwner` |
| | `AuthorityIsOver`, `RevokedForGood` | `[]AuthorityEnds`, `RevocationFinal` |
| `LeadContinuityProofs` | `ContinuityStands`, `AppendedOnce`, `HolderCommits`, `AskedBeforeLeft` | `[]ContinuityInv`, `[]NoSecondAppend`, `OnlyTheHolderCommits`, `WindowsAreAsked` |
| `LeadRunProofs` | `RunStands`, `ConflictsAreRecorded`, `AccountsAreExact`, `SoloConsent` | `[]RunInv`, `[]ConflictsRecorded`, `[]AccountsExact`, `SoloConsentStands` |
| `RunActorsProofs` | `ActorsStand`, `CapacityKept`, `RetiredForGood` | `[]ActorsInv`, `[]NoCapacityLost`, `NeverRevived` |

Each module also has `Invariance`, that the conjunction `IInv` of its inductive invariant
holds, from which the others follow; for the stores and for project creation it is
`StoreIInv`, `SnapshotsFit` with `KeysFit`, and `CreationFits`. The assumptions are the modules' own, named after
them (`ThresholdsAssumption`, `RunAssumption`, ...): bounds are naturals, sets that are
counted are finite, and identities of different kinds differ. Some of them say what the
proofs showed to be needed. `LeadRun`: the identity of a bundle is not that of a budget
entry, an evaluation or a completion, as the primary key of the receipts contains the
operation (`src/migrations/0031_hands_off_lead_r2.sql:207`). `RunActors`: actors are
finitely many. `Collaboration`: so are clients, a submission is not named as decisions are,
and there is a first pairing. `ChunkedDocStore`: payloads are sequences of bytes. `SnapshotStore`:
NULL is neither a number nor a key, and the snapshots there at first are among those counted.
`IInv` was checked by TLC on the instance of the module's run
before it was proved.

All proofs have one shape: the initial states satisfy `IInv`, a lemma for each action, `NextInv`, and temporal
theorems that combine them. What `IInv` adds to the property is, in every module, what
a request in flight knows of the rows it read, and why that is still so when it commits.
Where many requests run, a relation says how steps move the rows (`Onward`, `Forward`), and
one lemma shows that what a request knows survives such a move; an action's own lemma then
only treats the request that moved.

**VaultPersistence.** `ReceiptsDurable` says nothing of a handler that is about to
reply, of a save under way or of the document a checkpoint is taken from. `IInv` adds:

- `StoreInv`: the live document contains all that is stored, and `lastSV` is stored.
  So a full checkpoint cannot lose anything.
- `QueueInv`: the chain holds exactly the waiting handlers, once each. So finishing
  a save answers the handler it was made for, and it alone.
- `SaveInv`: the captured update lies between what its handler submitted and the
  document; a delta together with `lastSV` covers the captured state vector; a
  rewrite covers all that is stored, deletions included, at every later moment
  of that save, because storage does not change under it.
- `CallInv`: what a handler submitted is in the document while it waits and in
  storage once its save succeeded.
- `PendingInv`: any struct not persisted is the business of a handler still in the
  chain, or the status is degraded. This is what makes `pending` honest.

The refinement follows: each step stores, reports, or leaves both alone.

**ChunkedDocStore.** `Faithful` says that a manifest describes its chunks: as many as its
length asks for, each the right part of the bytes. `StoreIInv` has it of the checkpoint and of
every journal entry, with consecutive numbers from 1 (`JournalFits`), a total that is the length
of all updates (`TotalFits`), and no key besides (`NoOrphanKeys`). `FaithfulReassembles` is the
lemma about data: joining the parts gives back the bytes. The community modules define
`FlattenSeq` by a recursive function; the lemma names the function that satisfies the
recursion, `FlattenIs` shows with a least counterexample that there is no other, and the
joined prefix of length `i` is then the first `i * size` bytes. A rewrite under another chunk
size is right because the keys of two versions differ and the old ones are computed from the
old manifest. With that, every step is a step of `DocStore` under the mapping that loads.

**VaultLibrary.** `JobsInv`: jobs are in the order of the states they project, at most one
runs and one waits after it (`JobsOrdered`), and a job with work left is staging and younger
than the current generation (`ActiveFits`); so what is published next is younger, whichever
was superseded meanwhile. `BuildInv`: builds are serialized, nothing newer than what is being
built has a job, which keeps the order when the job is created. `RunInv`: the job the alarm
works on is running until it is finished or failed. `CallsInv`: each request knows what it is
about. `VaultInv` holds the types of the recorded row and `NotStaleMeansCurrent`, `RestInv`
those of the counters.

**SnapshotStore.** `SnapshotsFit` is about rows: a ready snapshot has what it needs, an entry
has an object of its snapshot's recipient and content, and a request knows the recipient and the
content it works for while its snapshot is not deleted (`CopyFits`, `ObjectFits`,
`ReplaceFits`), and that nothing is missing when it finalizes (`FinalFits`). Every step of a
snapshot's row begins, deletes or keeps it (`SnapStep`), which gives `KnownGoodKept`.

`KeysFit` is the argument about manifests and items. A key is *pending* when some row may still
come to name it: the first key of a part not recorded yet, a replacement still to be made, or
the one a repair is about to record. Pending keys are used by no row, no queue and no
collector (`PendingUnused`); a request erases what no live snapshot names (`ErasedUnnamed`); so a
name, once taken, is safe, since what is queued was used and what was used is never taken anew.
`Calm` collects the steps that have no part in this, most of them.

For shared objects there is no such argument: an object in the queue can be taken up again,
and be erased while it is in use (see *shared while collected* below), so `NamedKept` is about
manifests and items alone.

**NoteWrites.** A lemma first: `NoteId` chooses the newest active file, as the order on files
is total, and stays the same while no file changes. `Staged`: a request is only where its own
handler is. `Undisturbed`: while the state vector a request holds has not moved, the note it
read is the path's note still, with nothing in it that the request has not seen; so a write
that finds the vector unmoved loses nothing unseen. `RestoreChecked`: a restore goes on past
its comparison only with what it compared. `EveryStepCounts` needs of this little more than
the types: a measure over both retry loops falls with every step of a request.

**RestoreJob.** `RowsInv`: entries are listed first, applied only once the job is confirmed,
and deleted only once it has ended, and an applied entry is a restored note (`EntriesFit`); a
build that the job names while it is applied, or was verified by, holds every note
(`BuildsFit`); an entry still to be applied has its object until the job expires
(`ObjectsFit`). `UploadInv`, `PreviewsInv`, `AppliesInv`, `ReapInv`: what each kind of request
relies on at its awaits. A request that applies the job holds a list of notes it has yet to
restore, which others may have restored since; entries only move forward, so marking them
again is harmless, and it goes on to the build only when every entry is applied.

**ProjectCreation.** `NameFits`: there is one project of the name at most, the receipts and the
reservation name it, and a reservation with a project has its creator's receipt. `CallsKnow`: a
call at its check or its approval knows the reserved project, which is bound for good, and at
its approval that its policy is the one asked for; so it does not matter which of two holders of a
lapsed claim creates, binds or approves. `RequestsFit`: a handoff is claimed while its claim is
live. The outcomes and the handoff are then steps of single actions.

**Collaboration.** `AccessInv`: a vault grant that has not ended is of the present pairing,
so approvals under way when a vault is revoked end with it and cannot be activated under
the next pairing. Its part `ApprovalsInv`: while the connection an approval names is live, the
vault is active and the approval is of the present pairing. A repair needs it, because it
trusts a connection that is active although its vault grant ended; and it hands it on, because
it names the new connection in the place of one that was live. It fails for approvals of an
older release, whose consent names a connection whatever became of its vault grant;
`AuthorityEnds` therefore excepts them in its second part, and only there. `RevokedForGood`
is then a step of single actions: the batch of a repair compares the approval and the old
connection with what was read, so one revoked in between is not replaced. `VersionsInv`: the
active version of a kind is the one end of its chain, so a batch whose guard finds the versions
it read extends the chain and never forks it.
`PacketsInv`: the packets are one line, so only the last can be rotated. `RecordsInv` and
`CallFits`: a state read as shared, or a record selected for a packet, has the owner's event
behind it, which stays. `StoreInv` is the argument about bodies: a random body is held by
one request at most, and is then neither queued nor about to be erased; it is queued only
in the step that ends that request; so what the collector read as unnamed is never
named afterwards, although it decides on an old read.

**LeadContinuity.** `LeaseFits`: tokens only grow, no committed leaf has a token above the
lease's, and the claims in flight stay within the bound. `DrillsFit`: a drill in flight
restores a point of an earlier lease. `DueFits`: a scheduled request has its window for itself,
in a window the schedule has reached, and a drill has a point to restore. `RowsFit`, about the
cron handler between its statements: the windows it read are those of now, or were asked for
before the schedule left them; what it counts as made was made; and when it is about to
insert, nothing that waits is older. The last two give `WindowsAreAsked`, though several
invocations overlap.

**LeadRun.** `Rows`: what is counted is finite, and an entry in the budget has a receipt.
`NothingYet`: nothing is accepted before the run begins. `CallsFit`: in an elastic run, while
the version a request read is still the budget's, the conflict it computed is the one there
is now; and the decision it completes on is one of the binding it read. This is why comparing
the version, which the code does for the sake of the account, also makes `ConflictsRecorded`
true in elastic runs; in others it is not claimed.

**RunActors.** `CallsFit`: the record number a request read is not ahead of the count, the
slots it chose differ from one another, and an actor that had no slot when a recovery read it
has none since. `SuccessorFits`: recoveries are one to one, and the actors they replaced have
left their slots.

Only model-checked:

- liveness (`EveryCallAnswered`, `StaleIsRebuilt`, `JobsEnd`), which is outside what the
  prover supports, as is ENABLED.

## Disagreements with the documentation

These follow from the code. The models contain each of these behaviours unless
stated otherwise; no property says they cannot happen.

The vault and its library:

- *Acknowledged deletion* (`persistenceCoordinator.ts:173`). `executeSave` compares
  state vectors and skips the save when they are equal. Deleting moves no state
  vector, so an update that only deletes is acknowledged and not stored; after an
  eviction the text is back. `docs/ARCHITECTURE.md:130` has updates persisted before
  they are acknowledged. The next insertion stores the deletion with it. With
  `acked.del \subseteq Stored.del` as an invariant of `vault_save_safety`, TLC gives
  the trace.
- *Recorded in the wrong order* (`vault-coordinator.ts:821`). Two handlers record their
  hashes in D1 newest first. The older hash stays, its generation is built and marked
  ready, and nothing is scheduled for the newer state although
  `docs/ONBOARDING-CONTRACT.md:93` promises an exact-current successor.
- *Replaced preview* (`restore-store.ts:429`). Two overlapping `/complete` requests
  with different generations: the second writes the target hashes after the first
  has set the preview, possibly after the owner confirmed it.
- *Baseline echo* (`vault-coordinator.ts:240`, not in the model). A connecting client
  is echoed the live document's state vector. If the save behind a peer's update
  fails or the object is evicted, the client was told of state that storage never
  had; `docs/ARCHITECTURE.md:136` has echoes only after a persisted save.
- *Stale without an alarm* (`vault-coordinator.ts:889`). The D1 write that marks the
  library stale commits, the object is evicted, and the alarm is never set. No build
  happens until the next save, confirmation or request. `library_progress`
  therefore has `MaxCrashes = 0`.
- *Failure of an older state* (`vault-coordinator.ts:952`). The alarm waits for the
  build of state n, state n+1 is recorded and clears the error, the extraction of n is
  rejected, `RecordUnsafe` writes the error to the row of n+1. Its build does not
  start until another change or request.
- *Refused confirmation* (`pairing-store.ts:1156`). A credential passes its check and is
  revoked; the batch's first statement does nothing, its second confirms the vault
  all the same. If the vault is paired again in between, the new pairing starts
  confirmed.
- *Profile change* (`materialization-job.ts:553`). A confirmation reports a new profile
  and marks the library stale while a job of the same state, begun under the old
  profile, is running. Finalizing compares state vectors only and clears the mark;
  `docs/ARCHITECTURE.md:228` keeps it stale until the new projection completes.
- *Late staging object* (`restore-store.ts:323`). An upload reads its entry, the deadline
  passes, the reaper deletes objects and entries, the upload puts its object. No row
  names it any more; `docs/SECURITY-MODEL.md:497` has abandoned objects deleted.
- *Untagged note* (`restore-store.ts:582`). The vault has written a note; another request
  fails the job before the lineage batch, whose INSERT requires an applying job. The
  note stays without the tag of `docs/ONBOARDING-CONTRACT.md:175`.
- *Apply goes on* (`restore-store.ts:533`). A request that read the job as applying works
  through its batch after another request failed it, where
  `docs/BACKUP-RECOVERY.md:367` has apply fail closed.
- *Erased text returns* (`vault-coordinator.ts:535`). A web edit replaces the text of the
  version it names. If a client only erased passages meanwhile the state vector
  did not move, so the edit is accepted and the passages are back, although
  `docs/ARCHITECTURE.md:191` rejects stale editors. `NothingUnseenLost` states what
  does hold: nothing the editor has not seen is lost.
- *Degraded after success* (`persistenceCoordinator.ts:238`). The checkpoint committed
  and reading the stats back failed: the handler is told of a failure and health is
  degraded though everything is stored. Harmless; `CheckpointStatsFailed`.
- *Jobs without entries* (`restore-store.ts:720`). The reaper finds jobs by their
  entries; one whose creation ended before the first entry stays `staging`.

Snapshots and backups:

- *A capture that cannot resume* (`snapshot-store.ts:1341`). The item and the manifest
  are put with `onlyIf` absent; after a crash behind such a put, or a continue before
  staging finished (944), every later request fails, where
  `docs/BACKUP-RECOVERY.md:119` has captures resume.
- *Shared while collected* (`snapshot-retention.ts:476`). A retention run is lost after the
  snapshot's row is deleted and before its object rows: the row of a queued object stays. A
  day later the collector finds the object unreferenced, a capture finds its row and attaches
  it, is published, and the collector deletes the object, where `docs/BACKUP-RECOVERY.md:210`
  says "Shared ciphertext is deleted only after no retained manifest references it". With
  `\A s \in Ready : ObjectKey(snap[s].entry) \in r2 \cup gone` as an invariant of
  `snapshots`, `MaxCalls = 5` and `MaxChoices = 0`, TLC gives the trace.
- *Published without its intelligence* (`snapshot-store.ts:731`). The start stages entries first
  and the items of the intelligence in later statements. It is lost, or still running, and the
  owner continues the capture: no item is pending, and the snapshot is published, where
  `migrations/README.md:254` says "Snapshot intelligence is published only after every selected
  object is owner-key encrypted and verified". With `\A s \in Ready : snap[s].item # None` as an
  invariant of `snapshots`, TLC gives the trace.
- *Fewer than two* (`snapshot-retention.ts:245`). Overlapping retention runs with a pin
  and an unpin between can leave one ready snapshot, where
  `docs/BACKUP-RECOVERY.md:204` keeps two.
- *Backup for ever in creation* (`backup-store.ts:369`). A crashed portable backup stays
  `creating` and blocks every change of the recipient (178);
  `docs/BACKUP-RECOVERY.md:135`.

Creating projects:

- *Handoff given back* (`prepared-project-handoff-store.ts:405`). A handoff's claim of a
  minute lapses, a second call claims it; the first approves; the second's release sets
  it back to `prepared` before the first consumes it
  (`docs/ONBOARDING-CONTRACT.md:128`).
- *A name stuck* (`project-initialization-store.ts:1232`). A claim lapses, a second
  approval with another context policy takes the reservation, the first creates the
  project: the reservation's contract is not the project's, and no approval of that
  name can finish (`docs/ONBOARDING-CONTRACT.md:137`).

Collaboration:

- *After a revocation* (`collaboration-service.ts:2271`). The batch of a submission does
  not repeat the checks of the grant and the packet, so a submission under way lands
  after a revocation or a rotation (`docs/COLLABORATION-CONTRACTS.md:334`).
- *Owner actions lose each other* (`collaboration-service.ts:2626`). Each writes the
  visibility and disposition it read before its awaits: a share and a quarantine that
  overlap leave one of the two undone. And a handoff that was shared and later
  quarantined stays `shared` and is carried by the next packet (2903).
- *Second work item* (`collaboration-service.ts:1694`, not in the model). The guard of a
  brief update joins every work item of the project; with a second one it always
  conflicts.
- *Consent across a revocation* (`project-initialization-store.ts:2139`). The consent to an
  approval of an older release makes and activates its connection without reading its vault
  grant again, and then names it in the approval. When the vault is revoked while the consent
  is under way, that connection is active under a revoked vault grant: nobody can use it, but
  it is what a repair takes for a grant that was replaced (2310). Once the vault is paired
  again and the client has a new vault grant, the repair gives it the project, where
  `docs/COLLABORATION-CONTRACTS.md:316` says of this repair that "it can never restore revoked
  authority". With the second part of `AuthorityEnds` for every approval that names a connection as
  an invariant of `collaboration`, TLC gives the trace.
- *Revoked with its replacement* (`agent-access-store.ts:311`). A new vault grant of a client
  replaces the earlier one and leaves the connection made under it, which a repair is meant to
  carry over. If the owner revokes the new vault grant before that, only its own connections
  end (579); likewise when a request to revoke everything is lost between its two steps. The
  earlier connection stays active, and the client's next approval of the vault alone, with the
  repair, brings the project back, where `docs/AGENT-FIRST-QUICKSTART.md:407` has an explicit
  revocation final and "a new deliberate owner authorization" required. `RevocationFinal` is about the
  connections that were themselves revoked.

The lead, its policy and its runs:

- *Requests nobody completes* (`policy-operation-service.ts:296`). Scheduled requests for
  a continuity point stay pending, and the overlap check then blocks the later
  windows (`docs/POLICY-AUTOPILOT.md:69`).
- *Conflicts of a lead's bundles* (`lead-operation-service.ts:1829`). Outside elastic
  runs, two bundles that disagree each compare their claims before either commits, and
  no exception is recorded (`docs/COLLABORATION-CONTRACTS.md:542`). And a gate reads
  the conflicts before it counts the bundles (`policy-operation-service.ts:887`).
- *Low count* (`elastic-operation-service.ts`, `recoverRunActor`). A recovery that read its
  slot before an expiry can leave the count of active actors low; `NoCapacityLost`
  states the side that holds. Registration and recovery do not check the run's status
  again, nor does completion check exceptions and reviews again.
- *Unstable pages* (`elastic-operation-service.ts:474`, not in the model). A delta page
  reads counters and rows in separate queries (`docs/COLLABORATION-CONTRACTS.md:595`).

## What is not modelled

Each component of the repository is in `PROJECT.json` with its status. Left out for
good: the Zod contracts, client packs, marketing site and user interface (no
behaviour over time of their own, and a large part of the lines of the repository
with the generated type declarations); the MCP server and HTTP routing (no state
between calls); the vendored plugin; migrations and scripts. Within modelled
components: legacy storage formats, traces and timestamps of health, tickets and
sockets, size limits, audit rows, dashboards, timelines, portable bundles, and the
counts shown to owners, except the upload count, which is a guard. The delay before
an alarm fires is left out, so an alarm may fire as soon as it is set. Not yet
modelled: the components in the plan.

## Plan

Done, in this order: the save path and its abstract specification; the store and
its own; proofs of the save path; the library; restores; note writes; the lead's
lease and schedules; its runs and their actors; project creation; snapshots;
collaboration.

Then the proofs: every safety property of every module, and both refinements.

Proofs worth having next: that a capture which is continued without troubles comes to its end,
as a measure that falls like `EveryStepCounts`; the same of an approval.

Modules worth having, most important first:

1. `ContentObjects`: a materialization job that skips the put of an object its HEAD saw,
   and the retention sweep. To show: a published generation names objects that exist.
2. `FolderReconciliation`: scan, fetch, merge and write back with a baseline, against an
   editor, crashes and lost receipts. To show: no version that anybody saved is lost.
3. `CollaborationRestore`, of the shape of `RestoreJob`; `CompoundingDraft`, of the
   shape of `ProjectCreation`; `SourceLifecycle`.
