--------------------------- MODULE SnapshotStore ---------------------------
(***************************************************************************)
(* Recovery snapshots of the workspace: captured by repeated requests of   *)
(* the browser, encrypted to the owner's recovery recipient, sharing       *)
(* ciphertext between snapshots, removed by retention, their objects       *)
(* deleted after a day of grace, and repaired when an object is missing.   *)
(*                                                                         *)
(* A request is a call in a slot; each step is one D1 statement or batch   *)
(* or one R2 operation, with the reads before it that nothing disturbs.    *)
(* Everything between two steps may interleave, and a call may be lost at  *)
(* any of them.                                                            *)
(*                                                                         *)
(* What is abstracted.  A snapshot has one note, with a content, and one   *)
(* intelligence item; the larger ones differ in how many objects a request *)
(* handles.  An R2 object is its key; the receipt of a put (size, etag and *)
(* version) stands for the object being there.  Snapshots are numbered in  *)
(* the order they were captured.  A day of grace passes when no request is *)
(* running: no request lasts a day.  The byte limit of retention lets it   *)
(* select as many of the oldest snapshots as the code would at most.       *)
(* Downloads, archiving and imports are left out.                          *)
(***************************************************************************)
EXTENDS Naturals, FiniteSets, FiniteSetsExt

CONSTANTS
    Content,      \* contents of the note at a capture
    Recipient,    \* recovery recipients
    Slot,         \* requests in flight
    Before,       \* snapshots captured before, by content
    Frail,        \* bound: snapshots whose objects R2 may lose
    KeepReady,    \* keep_ready_count of the retention policy
    None,         \* NULL
    MaxSnapshots, \* bound: snapshots
    MaxObjects,   \* bound: recovery objects
    MaxDays,      \* bound: days that pass
    MaxTroubles,  \* bound: requests lost, calls that fail and objects that vanish
    MaxCalls,     \* bound: requests and what goes wrong
    MaxChoices    \* bound: cancellations, pins and changes of the recipient

Snapshot == 1..MaxSnapshots
Object == 1..MaxObjects

ASSUME SnapshotAssumption ==
    /\ KeepReady \in Nat \ {0, 1} /\ MaxSnapshots \in Nat /\ MaxObjects \in Nat
    /\ MaxDays \in Nat /\ MaxTroubles \in Nat /\ MaxCalls \in Nat /\ MaxChoices \in Nat
    /\ Recipient # {} /\ None \notin Recipient \cup Nat
    /\ None \notin ({"object"} \X Nat) \cup ({"manifest", "item"} \X Snapshot \X Nat)
    /\ Frail \subseteq Snapshot /\ DOMAIN Before \subseteq Snapshot \cap Object

VARIABLES
    snap,      \* rows of workspace_snapshots with their entry and item
    sealed,    \* rows of snapshot_objects
    r2,        \* keys of the objects in R2
    gone,      \* keys of objects R2 lost
    copies,    \* manifests and items written again so far
    queue,     \* rows of snapshot_gc_objects
    aged,      \* those queued for more than a day
    recipient, \* the row of backup_recipients
    backup,    \* a row of backup_artifacts
    reqs,      \* requests in flight
    days,      \* days passed
    troubles,  \* what went wrong so far
    calls,     \* requests so far
    choices    \* choices of the owner so far

rows == <<snap, sealed>>
stored == <<r2, gone, copies>>
queued == <<queue, aged>>
keys == <<recipient, backup>>
time == <<days, troubles, calls, choices>>
snapshotVars == <<rows, stored, queued, keys, reqs, time>>

Idle == [pc |-> "idle"]
NoSnapshot == [status |-> "none", integrity |-> "pending", pinned |-> FALSE,
               recipient |-> None, content |-> None, staged |-> FALSE,
               selected |-> FALSE, entry |-> None, item |-> None, manifest |-> None,
               processed |-> 0, old |-> FALSE, cleaned |-> FALSE]

\* Object keys: of a recovery object, and the fixed key and the replacements of
\* a manifest and an intelligence item.
ObjectKey(o) == <<"object", o>>
ManifestKey(s, n) == <<"manifest", s, n>>
ItemKey(s, n) == <<"item", s, n>>

Row == {o \in Object : sealed[o].status \in {"creating", "ready", "failed"}}
Ready == {s \in Snapshot : snap[s].status = "ready"}
Good == {s \in Ready : snap[s].integrity = "verified"}
Building == {s \in Snapshot : snap[s].status = "creating"}

\* The newest verified snapshot, none being 0.
LatestGood == Max(Good \cup {0})

Attached(o) == {s \in Snapshot : snap[s].entry = o}

Trouble ==
    /\ troubles < MaxTroubles /\ calls + troubles < MaxCalls
    /\ troubles' = troubles + 1 /\ UNCHANGED <<days, calls, choices>>

Choice == choices < MaxChoices /\ choices' = choices + 1 /\ UNCHANGED <<days, troubles, calls>>

\* A request comes in.
Begin(c, row) ==
    /\ reqs[c] = Idle /\ calls + troubles < MaxCalls
    /\ calls' = calls + 1 /\ reqs' = [reqs EXCEPT ![c] = row]
    /\ UNCHANGED <<days, troubles, choices>>

Goto(c, pc) == reqs' = [reqs EXCEPT ![c].pc = pc]

\* A request that fails, unless it has more to say, just ends.
Done(c) == reqs' = [reqs EXCEPT ![c] = Idle]

-----------------------------------------------------------------------------
(* Starting a snapshot *)

\* startWorkspaceSnapshot reads the recipient, and that no snapshot is built.
BeginStart(c) ==
    /\ Building = {}
    /\ Begin(c, [pc |-> "insert", recipient |-> recipient])
    /\ UNCHANGED <<rows, stored, queued, keys>>

\* (mutant) the recipient is not read again
InsertableAnyway(r) == Building = {}

\* The WHERE clause of the insert, with the unique index on builds.
Insertable(r) == Building = {} /\ recipient = r

Insert(c, note) ==
    LET s == Max({t \in Snapshot : snap[t].status # "none"} \cup {0}) + 1
    IN  /\ reqs[c].pc = "insert"
        /\ \/ /\ Insertable(reqs[c].recipient) /\ s \in Snapshot
              /\ snap' = [snap EXCEPT ![s] = [NoSnapshot EXCEPT !.status = "creating",
                                                 !.recipient = reqs[c].recipient,
                                                 !.content = note]]
              /\ reqs' = [reqs EXCEPT ![c] = [pc |-> "stage", snapshot |-> s]]
           \/ /\ ~Insertable(reqs[c].recipient) \/ s \notin Snapshot
              /\ Done(c) /\ UNCHANGED snap
        /\ UNCHANGED <<sealed, stored, queued, keys, time>>

\* Its entries follow, and then the items of the collaboration records selected for
\* it; both refer to a snapshot that is there.
Stage(c) ==
    LET s == reqs[c].snapshot
    IN  /\ reqs[c].pc = "stage"
        /\ IF snap[s].status # "deleted"
           THEN snap' = [snap EXCEPT ![s].staged = TRUE] /\ Goto(c, "select")
           ELSE Done(c) /\ UNCHANGED snap
        /\ UNCHANGED <<sealed, stored, queued, keys, time>>

Select(c) ==
    LET s == reqs[c].snapshot
    IN  /\ reqs[c].pc = "select"
        /\ snap' = IF snap[s].status # "deleted" THEN [snap EXCEPT ![s].selected = TRUE] ELSE snap
        /\ Done(c)
        /\ UNCHANGED <<sealed, stored, queued, keys, time>>

\* The catch block of startWorkspaceSnapshot.
StageFails(c) ==
    LET s == reqs[c].snapshot
    IN  /\ reqs[c].pc \in {"stage", "select"} /\ Trouble
        /\ snap' = [snap EXCEPT ![s].status = IF @ = "creating" THEN "failed" ELSE @]
        /\ Done(c)
        /\ UNCHANGED <<sealed, stored, queued, keys>>

\* cancelWorkspaceSnapshot
Cancel(s) ==
    /\ snap[s].status = "creating" /\ Choice
    /\ snap' = [snap EXCEPT ![s].status = "failed"]
    /\ UNCHANGED <<sealed, stored, queued, keys, reqs>>

\* setWorkspaceSnapshotPinned
Pin(s) ==
    /\ snap[s].status = "ready" /\ Choice
    /\ snap' = [snap EXCEPT ![s].pinned = ~@]
    /\ UNCHANGED <<sealed, stored, queued, keys, reqs>>

-----------------------------------------------------------------------------
(* Recovery objects, for a capture and for a repair *)

\* The rows findReusableObject reads.
Reusable(o, r, note) ==
    /\ sealed[o].status = "ready" /\ sealed[o].content = note /\ sealed[o].recipient = r

\* createRecoveryObject: the row, which refers to its snapshot, the put, and the row
\* made ready.
InsertObject(c) ==
    LET s == reqs[c].snapshot
        o == Max({p \in Object : sealed[p].status # "none"} \cup {0}) + 1
    IN  /\ reqs[c].pc = "create"
        /\ \/ /\ snap[s].status # "deleted" /\ o \in Object
              /\ sealed' = [sealed EXCEPT ![o] = [status |-> "creating", content |-> reqs[c].note,
                                                  recipient |-> reqs[c].recipient, by |-> s]]
              /\ reqs' = [reqs EXCEPT ![c].pc = "put", ![c].object = o]
           \/ snap[s].status = "deleted" /\ Done(c) /\ UNCHANGED sealed
        /\ UNCHANGED <<snap, stored, queued, keys, time>>

PutObject(c) ==
    /\ reqs[c].pc = "put"
    /\ r2' = r2 \cup {ObjectKey(reqs[c].object)}
    /\ Goto(c, "complete")
    /\ UNCHANGED <<rows, gone, copies, queued, keys, time>>

CompleteObject(c) ==
    LET o == reqs[c].object
        creating == sealed[o].status = "creating"
    IN  /\ reqs[c].pc = "complete"
        /\ sealed' = IF creating THEN [sealed EXCEPT ![o].status = "ready"] ELSE sealed
        /\ IF ~creating THEN Done(c)
           ELSE Goto(c, IF reqs[c].kind = "repair" THEN "relink" ELSE "attach")
        /\ UNCHANGED <<snap, stored, queued, keys, time>>

\* The catch block of createRecoveryObject.
PutFails(c) ==
    LET o == reqs[c].object
    IN  /\ reqs[c].pc \in {"put", "complete"} /\ Trouble
        /\ sealed' = [sealed EXCEPT ![o].status = IF @ = "creating" THEN "failed" ELSE @]
        /\ Done(c)
        /\ UNCHANGED <<snap, stored, queued, keys>>

-----------------------------------------------------------------------------
(* A request to continue the capture *)

\* continueWorkspaceSnapshot: the recipient is checked, which RecipientFixed shows is
\* still the snapshot's, and the pending entry read.
BeginContinue(c, s) ==
    LET pending == snap[s].staged /\ snap[s].entry = None
    IN  /\ snap[s].status = "creating" /\ recipient = snap[s].recipient
        /\ Begin(c, [pc |-> IF pending THEN "find" ELSE "item", kind |-> "continue",
                     snapshot |-> s, recipient |-> recipient, note |-> snap[s].content,
                     object |-> None])
        /\ UNCHANGED <<rows, stored, queued, keys>>

\* findReusableObject: a row whose object is there is used; one whose object is
\* not is marked failed and the next is tried.  The code tries the five rows it
\* read first; here each try reads again, and may stop before it tried them all
\* only by finding one.
Find(c) ==
    LET found == {o \in Object : Reusable(o, reqs[c].recipient, reqs[c].note)}
    IN  /\ reqs[c].pc = "find"
        /\ \/ found = {} /\ Goto(c, "create") /\ UNCHANGED sealed
           \/ \E o \in found :
                 /\ ObjectKey(o) \in r2
                 /\ reqs' = [reqs EXCEPT ![c].pc = "attach", ![c].object = o]
                 /\ UNCHANGED sealed
           \/ \E o \in found :
                 /\ ObjectKey(o) \notin r2
                 /\ sealed' = [sealed EXCEPT ![o].status = "failed"]
                 /\ UNCHANGED reqs
        /\ UNCHANGED <<snap, stored, queued, keys, time>>

\* The entry takes the object if it has none; the foreign key wants the row.
Attach(c) ==
    LET s == reqs[c].snapshot
        pending == snap[s].staged /\ snap[s].entry = None
    IN  /\ reqs[c].pc = "attach"
        /\ IF reqs[c].object \in Row \/ ~pending
           THEN /\ snap' = IF pending THEN [snap EXCEPT ![s].entry = reqs[c].object] ELSE snap
                /\ Goto(c, "item")
           ELSE Done(c) /\ UNCHANGED snap
        /\ UNCHANGED <<sealed, stored, queued, keys, time>>

\* A put with onlyIf: an object is never overwritten.
PutOnce(k) == k \notin r2 /\ r2' = r2 \cup {k}

\* processPendingIntelligence takes up a selected item without an object:
Lacking(s) == snap[s].selected /\ snap[s].item = None

\* the put under the item's key, then its row.
PutItem(c) ==
    LET s == reqs[c].snapshot
        k == ItemKey(s, 0)
    IN  /\ reqs[c].pc = "item"
        /\ \/ ~Lacking(s) /\ Goto(c, "count") /\ UNCHANGED r2
           \/ Lacking(s) /\ PutOnce(k) /\ Goto(c, "itemrow")
           \/ Lacking(s) /\ k \in r2 /\ Done(c) /\ UNCHANGED r2
        /\ UNCHANGED <<rows, gone, copies, queued, keys, time>>

ItemRow(c) ==
    LET s == reqs[c].snapshot
    IN  /\ reqs[c].pc = "itemrow"
        /\ IF Lacking(s)
           THEN snap' = [snap EXCEPT ![s].item = ItemKey(s, 0)] /\ Goto(c, "count")
           ELSE Done(c) /\ UNCHANGED snap
        /\ UNCHANGED <<sealed, stored, queued, keys, time>>

\* The items that remain are counted, then the entries: none staged counts as all
\* processed.
CountItems(c) ==
    LET s == reqs[c].snapshot
    IN  /\ reqs[c].pc = "count"
        /\ reqs' = [reqs EXCEPT ![c] = [pc |-> "tally", snapshot |-> s, lacking |-> Lacking(s)]]
        /\ UNCHANGED <<rows, stored, queued, keys, time>>

CountEntries(c) ==
    LET s == reqs[c].snapshot
        has == snap[s].entry # None
    IN  /\ reqs[c].pc = "tally"
        /\ reqs' = [reqs EXCEPT ![c] =
               [pc |-> "progress", snapshot |-> s, processed |-> IF has THEN 1 ELSE 0,
                all |-> (snap[s].staged => has) /\ ~reqs[c].lacking]]
        /\ UNCHANGED <<rows, stored, queued, keys, time>>

Progress(c) ==
    LET s == reqs[c].snapshot
    IN  /\ reqs[c].pc = "progress"
        /\ snap' = [snap EXCEPT ![s].processed =
                       IF snap[s].status = "creating" THEN reqs[c].processed ELSE @]
        /\ IF reqs[c].all /\ snap[s].status = "creating" THEN Goto(c, "manifest") ELSE Done(c)
        /\ UNCHANGED <<sealed, stored, queued, keys, time>>

\* buildWorkspaceSnapshotManifest wants every planned entry, with its object.
Publishable(s) == snap[s].status = "creating" /\ snap[s].staged /\ snap[s].entry # None

\* finalizeWorkspaceSnapshot: the manifest under its fixed key, then the row.
PutManifest(c) ==
    LET s == reqs[c].snapshot
        k == ManifestKey(s, 0)
    IN  /\ reqs[c].pc = "manifest"
        /\ \/ Publishable(s) /\ PutOnce(k) /\ Goto(c, "finalize")
           \/ (~Publishable(s) \/ k \in r2) /\ Done(c) /\ UNCHANGED r2
        /\ UNCHANGED <<rows, gone, copies, queued, keys, time>>

\* The WHERE clause of the update; one object was planned.
Finalizable(s) == snap[s].status = "creating" /\ snap[s].processed = 1

Finalize(c) ==
    LET s == reqs[c].snapshot
    IN  /\ reqs[c].pc = "finalize"
        /\ IF Finalizable(s)
           THEN /\ snap' = [snap EXCEPT ![s].status = "ready", ![s].integrity = "verified",
                                        ![s].manifest = ManifestKey(s, 0)]
                /\ Goto(c, "retain")
           ELSE Done(c) /\ UNCHANGED snap
        /\ UNCHANGED <<sealed, stored, queued, keys, time>>

-----------------------------------------------------------------------------
(* Retention *)

\* The request to run retention begins where a finished capture goes on.
BeginRetention(c) ==
    /\ Begin(c, [pc |-> "retain"])
    /\ UNCHANGED <<rows, stored, queued, keys>>

Protected(s) == snap[s].pinned \/ s = LatestGood

\* Beyond the newest KeepReady, and for the byte limit more of the oldest, as
\* long as two remain.
Excess == {s \in Ready : Cardinality({t \in Ready : t > s}) >= KeepReady /\ ~Protected(s)}

Selections ==
    {Excess \cup more : more \in
       {m \in SUBSET {s \in Ready \ Excess : ~Protected(s)} :
          /\ \A s \in m, t \in Ready \ (Excess \cup m) : Protected(t) \/ s < t
          /\ m = {} \/ Cardinality(Ready \ (Excess \cup m)) >= 2}}

\* enforceSnapshotRetention
Retain(c) ==
    /\ reqs[c].pc = "retain"
    /\ \E chosen \in Selections :
          reqs' = [reqs EXCEPT ![c] = [pc |-> IF chosen = {} THEN "sweep" ELSE "queue",
                                       todo |-> chosen]]
    /\ UNCHANGED <<rows, stored, queued, keys, time>>

\* (mutant) the choice made by enforceSnapshotRetention is final
DeletableAsChosen(s) == snap[s].status = "ready"

\* The guard queueSnapshotDeletion repeats in its DELETE.
Deletable(s) == snap[s].status = "ready" /\ ~Protected(s)

OwnKeys(s) ==
    {snap[s].manifest, snap[s].item} \cup
    {ObjectKey(o) : o \in {p \in Row : Attached(p) = {s}}}

\* queueSnapshotDeletion: first the keys are recorded, the oldest snapshot first,
QueueKeys(c) ==
    LET s == Min(reqs[c].todo)
    IN  /\ reqs[c].pc = "queue"
        /\ IF Deletable(s)
           THEN queue' = queue \cup (OwnKeys(s) \ {None}) /\ Goto(c, "delete")
           ELSE /\ reqs' = [reqs EXCEPT ![c].todo = @ \ {s},
                              ![c].pc = IF reqs[c].todo = {s} THEN "sweep" ELSE "queue"]
                /\ UNCHANGED queue
        /\ UNCHANGED <<rows, stored, aged, keys, time>>

\* then its membership removed, with its entry and item,
DeleteSnapshot(c) ==
    LET s == Min(reqs[c].todo)
        on == IF reqs[c].todo = {s} THEN "sweep" ELSE "queue"
    IN  /\ reqs[c].pc = "delete"
        /\ IF Deletable(s)
           THEN /\ snap' = [snap EXCEPT ![s] = [NoSnapshot EXCEPT !.status = "deleted"]]
                /\ sealed' = [o \in Object |-> IF sealed[o].by = s
                                               THEN [sealed[o] EXCEPT !.by = None] ELSE sealed[o]]
                /\ Goto(c, "rows")
           ELSE UNCHANGED rows /\ reqs' = [reqs EXCEPT ![c].todo = @ \ {s}, ![c].pc = on]
        /\ UNCHANGED <<stored, queued, keys, time>>

\* The rows of queued objects no entry has.
Unused(snaps, q) ==
    {o \in Row : ObjectKey(o) \in q /\ \A s \in Snapshot : snaps[s].entry # o}

Without(objects) ==
    [o \in Object |-> IF o \in objects THEN [sealed[o] EXCEPT !.status = "deleted"] ELSE sealed[o]]

\* then the rows of objects nobody uses.
DeleteRows(c) ==
    LET s == Min(reqs[c].todo)
    IN  /\ reqs[c].pc = "rows"
        /\ sealed' = Without(Unused(snap, queue))
        /\ reqs' = [reqs EXCEPT ![c].todo = @ \ {s},
                                ![c].pc = IF reqs[c].todo = {s} THEN "sweep" ELSE "queue"]
        /\ UNCHANGED <<snap, stored, queued, keys, time>>

-----------------------------------------------------------------------------
(* Garbage *)

\* queueFailedSnapshotCleanup, hourly, a batch for each snapshot that failed more
\* than a day ago: all its objects are queued, shared or not.
BeginCron(c) ==
    /\ Begin(c, [pc |-> "cleanup"])
    /\ UNCHANGED <<rows, stored, queued, keys>>

FailedKeys(s) ==
    {ManifestKey(s, 0)} \cup (IF snap[s].selected THEN {ItemKey(s, 0)} ELSE {}) \cup
    {ObjectKey(o) : o \in {p \in Row : sealed[p].by = s \/ s \in Attached(p)}}

Cleanup(c) ==
    LET old == {s \in Snapshot : snap[s].status = "failed" /\ snap[s].old /\ ~snap[s].cleaned}
    IN  /\ reqs[c].pc = "cleanup"
        /\ \/ \E s \in old :
                LET released == [snap EXCEPT ![s].staged = FALSE, ![s].selected = FALSE,
                                             ![s].entry = None, ![s].item = None,
                                             ![s].cleaned = TRUE]
                IN  /\ queue' = queue \cup FailedKeys(s)
                    /\ snap' = released
                    /\ sealed' = Without(Unused(released, queue \cup FailedKeys(s)))
                    /\ UNCHANGED reqs
           \/ old = {} /\ Goto(c, "sweep") /\ UNCHANGED <<snap, sealed, queue>>
        /\ UNCHANGED <<stored, aged, keys, time>>

\* runSnapshotGarbageCollection reads what has been queued for a day.
Sweep(c) ==
    /\ reqs[c].pc = "sweep"
    /\ reqs' = [reqs EXCEPT ![c] = IF aged = {} THEN Idle ELSE [pc |-> "check", todo |-> aged]]
    /\ UNCHANGED <<rows, stored, queued, keys, time>>

\* (mutant) the names of manifests and items not looked at
ReferencedByEntry(k) == \E o \in Row : k = ObjectKey(o) /\ Attached(o) # {}

\* The final reference check.
Referenced(k) ==
    \/ \E s \in Snapshot : k \in {snap[s].manifest, snap[s].item}
    \/ \E o \in Row : k = ObjectKey(o) /\ Attached(o) # {}

Check(c, k) ==
    /\ reqs[c].pc = "check" /\ k \in reqs[c].todo
    /\ reqs' = [reqs EXCEPT ![c] = [pc |-> IF Referenced(k) THEN "dequeue" ELSE "erase",
                                    key |-> k, todo |-> reqs[c].todo \ {k}]]
    /\ UNCHANGED <<rows, stored, queued, keys, time>>

NextKey(c) ==
    reqs' = [reqs EXCEPT ![c] = IF reqs[c].todo = {} THEN Idle
                                ELSE [pc |-> "check", todo |-> reqs[c].todo]]

\* The object is deleted, or that fails and its entry stays queued.
Erase(c) ==
    /\ reqs[c].pc = "erase"
    /\ r2' = r2 \ {reqs[c].key}
    /\ Goto(c, "dequeue")
    /\ UNCHANGED <<rows, gone, copies, queued, keys, time>>

EraseFails(c) ==
    /\ reqs[c].pc = "erase" /\ Trouble
    /\ NextKey(c)
    /\ UNCHANGED <<rows, stored, queued, keys>>

Dequeue(c) ==
    /\ reqs[c].pc = "dequeue"
    /\ queue' = queue \ {reqs[c].key} /\ aged' = aged \ {reqs[c].key}
    /\ NextKey(c)
    /\ UNCHANGED <<rows, stored, keys, time>>

-----------------------------------------------------------------------------
(* Repair *)

Degraded(s) == [snap EXCEPT ![s].integrity = IF snap[s].status = "ready" THEN "degraded" ELSE @]

\* repairWorkspaceSnapshot reads the snapshot and the recipient.
BeginRepair(c, s) ==
    /\ snap[s].status = "ready" /\ recipient = snap[s].recipient
    /\ Begin(c, [pc |-> "fixmanifest", kind |-> "repair", snapshot |-> s,
                 recipient |-> recipient, note |-> snap[s].content, object |-> None,
                 fresh |-> None, manifest |-> snap[s].manifest, item |-> None, entry |-> None])
    /\ UNCHANGED <<rows, stored, queued, keys>>

\* What the request saw of a part, and the rows with the part under another key.
Seen(c, part) == IF part = "item" THEN reqs[c].item ELSE reqs[c].manifest

Named(s, part, k) ==
    IF part = "item" THEN [snap EXCEPT ![s].item = k] ELSE [snap EXCEPT ![s].manifest = k]

\* repairWorkspaceSnapshotManifest and repairSnapshotIntelligenceObject: when the
\* object is missing the snapshot is degraded and another written, under a key
\* no other has.  The UPDATE that degrades and the put are one step: between them
\* only the integrity has changed, which no deletion goes by without reading it
\* again.
RepairPart(c, pc, part, relink, on) ==
    LET s == reqs[c].snapshot
        k == Seen(c, part)
        fresh == <<part, s, copies + 1>>
    IN  /\ reqs[c].pc = pc
        /\ \/ k \in r2 \cup {None} /\ Goto(c, on) /\ UNCHANGED <<snap, r2, copies>>
           \/ /\ k \notin r2 \cup {None}
              /\ snap' = Degraded(s) /\ r2' = r2 \cup {fresh} /\ copies' = copies + 1
              /\ reqs' = [reqs EXCEPT ![c].pc = relink, ![c].fresh = fresh]
        /\ UNCHANGED <<sealed, gone, queued, keys, time>>

\* The row takes the fresh object: the manifest of a ready snapshot, the item if it
\* is still the one found missing.  Otherwise the fresh object is queued.
RelinkPart(c, pc, part, on) ==
    LET s == reqs[c].snapshot
        same == IF part = "item" THEN snap[s].item = reqs[c].item
                ELSE snap[s].status = "ready"
    IN  /\ reqs[c].pc = pc
        /\ IF same
           THEN /\ snap' = Named(s, part, reqs[c].fresh)
                /\ queue' = queue \cup {Seen(c, part)}
                /\ Goto(c, on)
           ELSE /\ queue' = queue \cup {reqs[c].fresh, Seen(c, part)}
                /\ Done(c) /\ UNCHANGED snap
        /\ UNCHANGED <<sealed, stored, aged, keys, time>>

RepairManifest(c) == RepairPart(c, "fixmanifest", "manifest", "newmanifest", "fixnote")
RelinkManifest(c) == RelinkPart(c, "newmanifest", "manifest", "fixnote")
RepairItem(c) == RepairPart(c, "fixitem", "item", "newitem", "verify")
RelinkItem(c) == RelinkPart(c, "newitem", "item", "verify")

\* The entry and the item are read, and a missing object of the note made again.
RepairNote(c) ==
    LET s == reqs[c].snapshot
        o == snap[s].entry
    IN  /\ reqs[c].pc = "fixnote"
        /\ \/ /\ o = None \/ ObjectKey(o) \in r2
              /\ reqs' = [reqs EXCEPT ![c].pc = "fixitem", ![c].item = snap[s].item]
              /\ UNCHANGED snap
           \/ /\ o # None /\ ObjectKey(o) \notin r2
              /\ snap' = Degraded(s)
              /\ reqs' = [reqs EXCEPT ![c].pc = "create", ![c].entry = o,
                                      ![c].item = snap[s].item]
        /\ UNCHANGED <<sealed, stored, queued, keys, time>>

\* Every entry that had the old object takes the fresh one, if its row is there.
Relink(c) ==
    LET old == reqs[c].entry
        fresh == reqs[c].object
    IN  /\ reqs[c].pc = "relink"
        /\ IF fresh \in Row
           THEN /\ snap' = [s \in Snapshot |-> IF snap[s].entry = old
                                               THEN [snap[s] EXCEPT !.entry = fresh] ELSE snap[s]]
                /\ queue' = queue \cup {ObjectKey(old)}
                /\ sealed' = Without({old} \cap Row)
                /\ Goto(c, "fixitem")
           ELSE Done(c) /\ UNCHANGED <<rows, queue>>
        /\ UNCHANGED <<stored, aged, keys, time>>

\* A complete scan: verified again.  Collection follows.  (The code takes the
\* scan for complete when the cursor the client sent has reached the end; the
\* client is taken to start at the beginning.)
Verify(c) ==
    LET s == reqs[c].snapshot
    IN  /\ reqs[c].pc = "verify"
        /\ IF snap[s].status = "ready"
           THEN snap' = [snap EXCEPT ![s].integrity = "verified"] /\ Goto(c, "sweep")
           ELSE Done(c) /\ UNCHANGED snap
        /\ UNCHANGED <<sealed, stored, queued, keys, time>>

-----------------------------------------------------------------------------
(* Recipient and portable backups *)

\* saveBackupRecipient
Savable(r) ==
    /\ \A s \in Building : snap[s].recipient = r
    /\ backup.status = "creating" => backup.recipient = r

SaveRecipient(r) ==
    /\ r # recipient /\ Savable(r) /\ Choice
    /\ recipient' = r
    /\ UNCHANGED <<rows, stored, queued, backup, reqs>>

\* createEncryptedBackup reads the recipient, stages its row when the recipient is
\* still that one, and writes the object; a failure is recorded.  One backup is made.
BeginBackup(c) ==
    /\ backup.status = "none"
    /\ Begin(c, [pc |-> "backup", recipient |-> recipient])
    /\ UNCHANGED <<rows, stored, queued, keys>>

InsertBackup(c) ==
    /\ reqs[c].pc = "backup"
    /\ IF recipient = reqs[c].recipient /\ backup.status = "none"
       THEN backup' = [status |-> "creating", recipient |-> recipient] /\ Goto(c, "encrypt")
       ELSE Done(c) /\ UNCHANGED backup
    /\ UNCHANGED <<rows, stored, queued, recipient, time>>

FinishBackup(c) ==
    /\ reqs[c].pc = "encrypt"
    /\ \E result \in {"ready", "failed"} : backup' = [backup EXCEPT !.status = result]
    /\ Done(c)
    /\ UNCHANGED <<rows, stored, queued, recipient, time>>

-----------------------------------------------------------------------------

\* The worker is evicted, or a D1 or R2 call fails outside a catch block.
Crash(c) ==
    /\ reqs[c] # Idle /\ Trouble
    /\ Done(c)
    /\ UNCHANGED <<rows, stored, queued, keys>>

\* R2 loses an object a snapshot needs.
Lose(s, k) ==
    /\ k \in r2 \cap {snap[s].manifest, snap[s].item, ObjectKey(snap[s].entry)} /\ Trouble
    /\ r2' = r2 \ {k} /\ gone' = gone \cup {k}
    /\ UNCHANGED <<rows, copies, queued, keys, reqs>>

Day ==
    /\ days < MaxDays /\ \A c \in Slot : reqs[c] = Idle
    /\ days' = days + 1 /\ aged' = queue
    /\ snap' = [s \in Snapshot |-> IF snap[s].status = "failed"
                                   THEN [snap[s] EXCEPT !.old = TRUE] ELSE snap[s]]
    /\ UNCHANGED <<sealed, stored, queue, keys, reqs, troubles, calls, choices>>

\* Some snapshots are there already, each content encrypted once.
SnapshotInit ==
    LET contents == {Before[s] : s \in DOMAIN Before}
        first(note) == Min({s \in DOMAIN Before : Before[s] = note})
        initial == CHOOSE r \in Recipient : TRUE
    IN  /\ recipient = initial
        /\ snap = [s \in Snapshot |->
              IF s \in DOMAIN Before
              THEN [NoSnapshot EXCEPT !.status = "ready", !.integrity = "verified",
                      !.recipient = initial, !.content = Before[s], !.staged = TRUE,
                      !.selected = TRUE, !.entry = first(Before[s]), !.item = ItemKey(s, 0),
                      !.manifest = ManifestKey(s, 0), !.processed = 1]
              ELSE NoSnapshot]
        /\ sealed = [o \in Object |->
              IF o \in {first(note) : note \in contents}
              THEN [status |-> "ready", content |-> Before[o], recipient |-> initial, by |-> o]
              ELSE [status |-> "none", content |-> None, recipient |-> None, by |-> None]]
        /\ r2 = UNION {{ObjectKey(first(Before[s])), ItemKey(s, 0), ManifestKey(s, 0)} :
                       s \in DOMAIN Before}
        /\ gone = {} /\ copies = 0 /\ queue = {} /\ aged = {}
        /\ backup = [status |-> "none", recipient |-> None]
        /\ reqs = [c \in Slot |-> Idle]
        /\ days = 0 /\ troubles = 0 /\ calls = 0 /\ choices = 0

Capture(c) ==
    \/ BeginStart(c) \/ (\E note \in Content : Insert(c, note)) \/ Stage(c) \/ Select(c)
    \/ StageFails(c)
    \/ (\E s \in Snapshot : BeginContinue(c, s)) \/ Find(c) \/ InsertObject(c) \/ PutObject(c)
    \/ CompleteObject(c) \/ PutFails(c) \/ Attach(c) \/ PutItem(c) \/ ItemRow(c)
    \/ CountItems(c) \/ CountEntries(c) \/ Progress(c) \/ PutManifest(c) \/ Finalize(c)

Retention(c) ==
    \/ BeginRetention(c) \/ Retain(c) \/ QueueKeys(c) \/ DeleteSnapshot(c) \/ DeleteRows(c)
    \/ BeginCron(c) \/ Cleanup(c)
    \/ Sweep(c) \/ (reqs[c].pc = "check" /\ \E k \in reqs[c].todo : Check(c, k))
    \/ Erase(c) \/ EraseFails(c) \/ Dequeue(c)

Repair(c) ==
    \/ \E s \in Snapshot : BeginRepair(c, s)
    \/ RepairManifest(c) \/ RelinkManifest(c) \/ RepairNote(c) \/ Relink(c)
    \/ RepairItem(c) \/ RelinkItem(c) \/ Verify(c)

SnapshotNext ==
    \/ \E c \in Slot : Capture(c) \/ Retention(c) \/ Repair(c)
                       \/ BeginBackup(c) \/ InsertBackup(c) \/ FinishBackup(c) \/ Crash(c)
    \/ \E s \in Snapshot : Cancel(s) \/ Pin(s)
    \/ \E r \in Recipient : SaveRecipient(r)
    \/ \E s \in Frail : \E k \in r2 : Lose(s, k)
    \/ Day

SnapshotSpec == SnapshotInit /\ [][SnapshotNext]_snapshotVars

-----------------------------------------------------------------------------
(* Properties *)

\* Rows keep the values their tables allow, and what is aged is queued.
RowsOK ==
    /\ \A s \in Snapshot : snap[s].status \in {"none", "creating", "ready", "failed", "deleted"}
                           /\ snap[s].processed \in 0..1
    /\ \A o \in Object : sealed[o].status \in {"none", "creating", "ready", "failed", "deleted"}
    /\ aged \subseteq queue /\ None \notin queue

\* A snapshot is ready only when its note is stored and its manifest written: its
\* entry has the row of a recovery object, whatever requests continued the capture,
\* cancelled and cleaned others or deleted rows meanwhile.
ReadyComplete ==
    \A s \in Ready : snap[s].staged /\ snap[s].entry \in Row /\ snap[s].manifest # None

\* What a ready snapshot shares was encrypted to its own recipient, though the owner
\* may change the recipient between captures.
SameRecipient ==
    \A s \in Snapshot : snap[s].entry # None =>
        /\ sealed[snap[s].entry].recipient = snap[s].recipient
        /\ sealed[snap[s].entry].content = snap[s].content

\* While a snapshot or a portable backup is being made, the recipient it was begun
\* for stays the owner's recipient.
RecipientFixed ==
    /\ \A s \in Building : snap[s].recipient = recipient
    /\ backup.status = "creating" => backup.recipient = recipient

\* The manifest and the item that a ready snapshot names are not erased by retention,
\* cleanup, repair or garbage collection, however they overlap with the requests that
\* write them: only R2 loses one.  Nothing is said of objects that snapshots share.
NamedKept == \A s \in Ready : {snap[s].manifest, snap[s].item} \ {None} \subseteq r2 \cup gone

\* Retention never deletes a pinned snapshot nor the newest verified one, however
\* long ago it chose.
KnownGoodKept ==
    [][\A s \in Snapshot : s \in Ready /\ Protected(s) => snap'[s].status = "ready"]_snapshotVars

\* The state invariant of snapshots: a ready snapshot has its entries and its
\* manifest, all of them encrypted to the recipient it was started for, which
\* does not change while a capture or a backup is under way.
SnapshotInv == RowsOK /\ ReadyComplete /\ SameRecipient /\ RecipientFixed

=============================================================================
