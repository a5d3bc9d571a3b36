-------------------------- MODULE VaultPersistence --------------------------
(***************************************************************************)
(* The save path of one vault Durable Object: the live Yjs document, the   *)
(* PersistenceCoordinator that serialises saves through its saveChain, the *)
(* checkpoint + journal it writes, and the VaultCoordinator handlers that  *)
(* turn a finished save into a durability receipt.                         *)
(*                                                                         *)
(* What is abstracted.  A Yjs document is the set of structs inserted into *)
(* it and the set of structs deleted from it.  A state vector says which   *)
(* structs a document holds and nothing about deletions, so it is the set  *)
(* of inserted structs.  An update is a pair of such sets; applying one is *)
(* a union (updates commute and are idempotent).  A storage transaction    *)
(* commits or has no effect; ChunkedDocStore refines what it writes.       *)
(*                                                                         *)
(* Every await that other handlers can observe is a boundary between two   *)
(* actions: while a save waits for storage, further messages change the    *)
(* document and queue more saves, and the object may be evicted, losing    *)
(* everything in memory.  Reading the journal's stats back after a commit  *)
(* is one step with it: nothing it sets is read by the other handlers.     *)
(***************************************************************************)
EXTENDS Naturals, Sequences, FiniteSets

CONSTANTS
    Struct,                 \* the structs clients may insert
    Deletable,              \* bound: the structs clients may delete
    Caller,                 \* handler invocations that may be in flight
    FallbackDelta,          \* checkpointFallbackDeltaBytes
    FallbackAfterFailures,  \* checkpointFallbackAfterFailures
    CompactMaxEntries,      \* journalCompactMaxEntries
    CompactMaxBytes,        \* journalCompactMaxBytes
    CaptureAttempts,        \* attempts of capturePersistedSnapshot
    MaxFailures,            \* bound: consecutive failures explored
    MaxJournal              \* bound: journal entries explored

ASSUME ThresholdsAssumption ==
    /\ FallbackDelta \in Nat
    /\ FallbackAfterFailures \in Nat
    /\ CompactMaxEntries \in Nat
    /\ CompactMaxBytes \in Nat
    /\ CaptureAttempts \in Nat \ {0}
    /\ MaxFailures \in Nat
    /\ MaxJournal \in Nat

VARIABLES
    doc,        \* the live Y.Doc: [ins, del]
    loaded,     \* documentLoaded
    lastSV,     \* lastPersistedStateVector
    failures,   \* consecutiveSaveFailures
    status,     \* health.status
    pending,    \* health.pendingPersistence
    queue,      \* saveChain: callers whose save has not finished, in order
    save,       \* the save at the head of the chain
    caller,     \* the handlers waiting for a save
    ckpt,       \* stored checkpoint: update and its state vector
    journal,    \* stored journal entries
    acked       \* history: all that was reported durable after a save

memory == <<doc, loaded, lastSV, failures, status, pending, queue, save>>
stored == <<ckpt, journal>>
vars == <<memory, caller, stored, acked>>

-----------------------------------------------------------------------------
(* Yjs, as this code uses it. *)

Update == [ins : SUBSET Struct, del : SUBSET Struct]

Empty == [ins |-> {}, del |-> {}]

\* Y.applyUpdate and Y.mergeUpdates.
Merge(u, v) == [ins |-> u.ins \cup v.ins, del |-> u.del \cup v.del]

\* Y.encodeStateVector: deletions leave no trace in it.
EncodeStateVector(d) == d.ins

\* Y.encodeStateAsUpdate(doc, sv): the structs sv lacks, every deletion.
EncodeStateAsUpdate(d, sv) == [ins |-> d.ins \ sv, del |-> d.del]

\* byteLength, counted in structs and delete-set entries.
ByteLength(u) == Cardinality(u.ins) + Cardinality(u.del)

-----------------------------------------------------------------------------
(* The document store, one storage transaction per operation. *)

\* Everything loadState would give back to the document.
Stored ==
    [ins |-> ckpt.update.ins \cup UNION {journal[i].ins : i \in 1..Len(journal)},
     del |-> ckpt.update.del \cup UNION {journal[i].del : i \in 1..Len(journal)}]

JournalBytes(j) ==
    LET bytes[n \in 0..Len(j)] ==
            IF n = 0 THEN 0 ELSE bytes[n - 1] + ByteLength(j[n])
    IN  bytes[Len(j)]

JournalAppend(u) ==
    /\ Len(journal) < MaxJournal
    /\ journal' = Append(journal, u)
    /\ UNCHANGED ckpt

CheckpointRewrite(u, sv) ==
    /\ ckpt' = [update |-> u, sv |-> sv]
    /\ journal' = <<>>

-----------------------------------------------------------------------------
(* PersistenceCoordinator *)

Phase == {"idle", "append", "fallback", "immediate", "compact"}

NoSave == [phase |-> "idle", update |-> Empty, sv |-> {}]

Saving(phase, u) ==
    [phase |-> phase, update |-> u, sv |-> EncodeStateVector(doc)]

\* (mutant) a checkpoint written from the delta only
CheckpointingDelta(phase) == Saving(phase, EncodeStateAsUpdate(doc, lastSV))

\* Every checkpoint encodes the document as it is when the rewrite starts.
Checkpointing(phase) == Saving(phase, doc)

NoCall == [pc |-> "idle", op |-> "none", update |-> Empty, attempt |-> 0]

\* A handler that has queued its save.
Awaiting(op, u, attempt) ==
    [pc |-> "queued", op |-> op, update |-> u, attempt |-> attempt]

At(call, pc) == [call EXCEPT !.pc = pc]

EnqueueSave(c) ==
    /\ queue' = Append(queue, c)
    /\ pending' = TRUE

\* (mutant) a failed save is not pending any more
PendingWhileQueued(waiting, health) == waiting > 0

StillPending(waiting, health) == waiting > 0 \/ health = "degraded"

\* The promise of enqueueSave settles for the caller at the head.
FinishSave(success) ==
    /\ queue' = Tail(queue)
    /\ save' = NoSave
    /\ pending' = StillPending(Len(queue) - 1, status')
    /\ caller' = [caller EXCEPT ![Head(queue)] =
                     IF success THEN At(@, "record") ELSE NoCall]

\* (mutant) a rejected save rejects the rest of the chain
ChainReadyIfHealthy == save.phase = "idle" /\ queue # <<>> /\ status = "healthy"

\* The chain runs its next save whatever became of the one before.
ChainReady == save.phase = "idle" /\ queue # <<>>

UseCheckpointFallback(delta) ==
    \/ ByteLength(delta) > FallbackDelta
    \/ failures >= FallbackAfterFailures

\* executeSave, up to its first await.
SaveSkipped ==
    /\ ChainReady
    /\ lastSV = EncodeStateVector(doc)
    /\ UNCHANGED <<doc, loaded, lastSV, failures, status>>
    /\ FinishSave(TRUE)
    /\ UNCHANGED <<stored, acked>>

SaveStarted ==
    /\ ChainReady
    /\ lastSV # EncodeStateVector(doc)
    /\ LET delta == EncodeStateAsUpdate(doc, lastSV)
       IN  save' = IF UseCheckpointFallback(delta)
                   THEN Checkpointing("fallback")
                   ELSE Saving("append", delta)
    /\ UNCHANGED <<doc, loaded, lastSV, failures, status, pending, queue>>
    /\ UNCHANGED <<caller, stored, acked>>

NeedsCompaction(j) ==
    \/ Len(j) > CompactMaxEntries
    \/ JournalBytes(j) > CompactMaxBytes

\* executeAppend, success; a journal past its limits is compacted before
\* the save finishes.
AppendSucceeded ==
    /\ save.phase = "append"
    /\ JournalAppend(save.update)
    /\ lastSV' = save.sv
    /\ failures' = 0
    /\ status' = "healthy"
    /\ IF NeedsCompaction(journal')
       THEN /\ save' = Checkpointing("compact")
            /\ UNCHANGED <<queue, pending, caller>>
       ELSE FinishSave(TRUE)
    /\ UNCHANGED <<doc, loaded, acked>>

\* executeAppend, failure: with or without the entry committed (the stats
\* are read back after the transaction and that read may fail too).
AppendFailed(committed) ==
    /\ save.phase = "append"
    /\ failures < MaxFailures
    /\ IF committed THEN JournalAppend(save.update) ELSE UNCHANGED stored
    /\ failures' = failures + 1
    /\ status' = "degraded"
    /\ IF failures + 1 >= FallbackAfterFailures
       THEN /\ save' = Checkpointing("immediate")
            /\ UNCHANGED <<queue, pending, caller>>
       ELSE FinishSave(FALSE)
    /\ UNCHANGED <<doc, loaded, lastSV, acked>>

\* executeCheckpointFallback, executeImmediateFallback, executeCompaction:
\* rewriteCheckpoint committed and the stats were read back.
CheckpointSucceeded ==
    /\ save.phase \in {"fallback", "immediate", "compact"}
    /\ CheckpointRewrite(save.update, save.sv)
    /\ lastSV' = save.sv
    /\ IF save.phase = "compact"
       THEN UNCHANGED <<failures, status>>
       ELSE failures' = 0 /\ status' = "healthy"
    /\ FinishSave(TRUE)
    /\ UNCHANGED <<doc, loaded, acked>>

\* rewriteCheckpoint rejected: nothing was written.
CheckpointFailed ==
    /\ save.phase \in {"fallback", "immediate", "compact"}
    /\ IF save.phase = "fallback"
       THEN failures < MaxFailures /\ failures' = failures + 1 /\ status' = "degraded"
       ELSE UNCHANGED <<failures, status>>
    /\ FinishSave(save.phase = "compact")
    /\ UNCHANGED <<doc, loaded, lastSV, stored, acked>>

\* rewriteCheckpoint committed but getJournalStats, inside the same try
\* block, rejected.
CheckpointStatsFailed ==
    /\ save.phase \in {"fallback", "immediate", "compact"}
    /\ CheckpointRewrite(save.update, save.sv)
    /\ lastSV' = save.sv
    /\ CASE save.phase = "fallback"  -> failures' = 1 /\ status' = "degraded"
         [] save.phase = "immediate" -> failures' = 0 /\ status' = "healthy"
         [] save.phase = "compact"   -> UNCHANGED <<failures, status>>
    /\ FinishSave(save.phase = "compact")
    /\ UNCHANGED <<doc, loaded, acked>>

-----------------------------------------------------------------------------
(* VaultCoordinator: the handlers around a save *)

\* (mutant) the journal is not replayed
CheckpointOnly == ckpt.update

LoadedState == Stored

\* ensureDocumentLoaded / loadDocument.
LoadDocument ==
    /\ ~loaded
    /\ loaded' = TRUE
    /\ doc' = LoadedState
    /\ lastSV' = IF journal = <<>> THEN ckpt.sv ELSE EncodeStateVector(doc')
    /\ UNCHANGED <<failures, status, pending, queue, save>>
    /\ UNCHANGED <<caller, stored, acked>>

\* Updates a client or an RPC can submit: deletions name structs the
\* document will hold.
Submittable ==
    {u \in Update : /\ u # Empty
                    /\ u.del \subseteq Deletable \cap (doc.ins \cup u.ins)}

\* onMessage (update-bearing), applyUpdate, writeMarkdownNote and
\* restoreMarkdownNote: apply synchronously, then queue a save.
ApplyAndSave(c, u) ==
    /\ loaded /\ caller[c].pc = "idle"
    /\ doc' = Merge(doc, u)
    /\ EnqueueSave(c)
    /\ caller' = [caller EXCEPT ![c] = Awaiting("write", u, 0)]
    /\ UNCHANGED <<loaded, lastSV, failures, status, save, stored, acked>>

\* onSave, currentStateVector: a save with nothing applied.
SaveOnly(c) ==
    /\ loaded /\ caller[c].pc = "idle"
    /\ EnqueueSave(c)
    /\ caller' = [caller EXCEPT ![c] = Awaiting("save", Empty, 0)]
    /\ UNCHANGED <<doc, loaded, lastSV, failures, status, save, stored, acked>>

\* capturePersistedSnapshot: one round of its retry loop.
CaptureSnapshot(c) ==
    /\ loaded /\ caller[c].pc = "idle"
    /\ EnqueueSave(c)
    /\ caller' = [caller EXCEPT ![c] = Awaiting("capture", Empty, 1)]
    /\ UNCHANGED <<doc, loaded, lastSV, failures, status, save, stored, acked>>

\* recordPersistedState awaits D1; it may reject, and then the handler
\* throws before it replies.
Record(c) ==
    /\ caller[c].pc = "record"
    /\ caller' = [caller EXCEPT ![c] = At(@, "reply")]
    /\ UNCHANGED <<memory, stored, acked>>

RecordFailed(c) ==
    /\ caller[c].pc = "record"
    /\ caller' = [caller EXCEPT ![c] = NoCall]
    /\ UNCHANGED <<memory, stored, acked>>

\* (mutant) the receipt quotes the live document
LiveStateVector == EncodeStateVector(doc)

PersistedStateVector == lastSV

\* trySendSvEchoStateVector, VaultReceipt, `durable: true`.
Reply(c) ==
    /\ caller[c].pc = "reply" /\ caller[c].op \in {"write", "save"}
    /\ acked' = Merge(acked, Merge([ins |-> PersistedStateVector, del |-> {}], caller[c].update))
    /\ caller' = [caller EXCEPT ![c] = NoCall]
    /\ UNCHANGED <<memory, stored>>

\* The document still is what was persisted: clone it for materialization.
CaptureDone(c) ==
    /\ caller[c].pc = "reply" /\ caller[c].op = "capture"
    /\ EncodeStateVector(doc) = lastSV
    /\ acked' = Merge(acked, doc)
    /\ caller' = [caller EXCEPT ![c] = NoCall]
    /\ UNCHANGED <<memory, stored>>

\* It moved on while the save waited: try again, or give up.
CaptureRetry(c) ==
    /\ caller[c].pc = "reply" /\ caller[c].op = "capture"
    /\ EncodeStateVector(doc) # lastSV
    /\ IF caller[c].attempt < CaptureAttempts
       THEN /\ EnqueueSave(c)
            /\ caller' = [caller EXCEPT ![c] = Awaiting("capture", Empty, @.attempt + 1)]
       ELSE /\ caller' = [caller EXCEPT ![c] = NoCall]
            /\ UNCHANGED <<queue, pending>>
    /\ UNCHANGED <<doc, loaded, lastSV, failures, status, save, stored, acked>>

\* Eviction or crash: memory and every handler in flight are lost.
Evict ==
    /\ loaded
    /\ doc' = Empty /\ loaded' = FALSE /\ lastSV' = {}
    /\ failures' = 0 /\ status' = "healthy" /\ pending' = FALSE
    /\ queue' = <<>> /\ save' = NoSave
    /\ caller' = [c \in Caller |-> NoCall]
    /\ UNCHANGED <<stored, acked>>

-----------------------------------------------------------------------------
Init ==
    /\ doc = Empty /\ loaded = FALSE /\ lastSV = {}
    /\ failures = 0 /\ status = "healthy" /\ pending = FALSE
    /\ queue = <<>> /\ save = NoSave
    /\ caller = [c \in Caller |-> NoCall]
    /\ ckpt = [update |-> Empty, sv |-> {}] /\ journal = <<>>
    /\ acked = Empty

SaveStep ==
    \/ SaveSkipped \/ SaveStarted
    \/ AppendSucceeded \/ \E committed \in BOOLEAN : AppendFailed(committed)
    \/ CheckpointSucceeded \/ CheckpointFailed \/ CheckpointStatsFailed

HandlerStep(c) ==
    \/ Record(c) \/ RecordFailed(c)
    \/ Reply(c) \/ CaptureDone(c) \/ CaptureRetry(c)

Next ==
    \/ LoadDocument \/ Evict
    \/ SaveStep
    \/ \E c \in Caller :
         \/ \E u \in Submittable : ApplyAndSave(c, u)
         \/ SaveOnly(c) \/ CaptureSnapshot(c)
         \/ HandlerStep(c)

Spec == Init /\ [][Next]_vars

\* A handler that is running keeps running, and storage answers every
\* transaction, one way or the other.
Fairness == WF_vars(SaveStep) /\ \A c \in Caller : WF_vars(HandlerStep(c))

FairSpec == Spec /\ Fairness

-----------------------------------------------------------------------------
(* Properties *)

\* Every variable has its type: the in-memory coordinator, the handlers, the
\* stored checkpoint and journal, and what was acknowledged.
TypeOK ==
    /\ doc \in Update /\ loaded \in BOOLEAN /\ lastSV \in SUBSET Struct
    /\ failures \in Nat /\ status \in {"healthy", "degraded"}
    /\ pending \in BOOLEAN /\ queue \in Seq(Caller)
    /\ save \in [phase : Phase, update : Update, sv : SUBSET Struct]
    /\ caller \in [Caller -> [pc : {"idle", "queued", "record", "reply"},
                              op : {"none", "write", "save", "capture"},
                              update : Update, attempt : Nat]]
    /\ ckpt \in [update : Update, sv : SUBSET Struct]
    /\ journal \in Seq(Update)
    /\ acked \in Update

\* A receipt is never ahead of storage: every struct covered by a state
\* vector returned after a save, of an update whose author was told it is
\* durable, or of a snapshot handed to materialization would survive an
\* eviction at any later moment (onMessage, applyUpdate,
\* persistMarkdownMutation, capturePersistedSnapshot).
ReceiptsDurable == acked.ins \subseteq Stored.ins

\* No save ever takes stored state away: appends add to it, and a checkpoint
\* that replaces the journal contains all that the journal held, deletions
\* included (rewriteCheckpoint drops the old checkpoint and every entry).
StoredOnlyGrows ==
    [][/\ Stored.ins \subseteq Stored'.ins
       /\ Stored.del \subseteq Stored'.del]_vars

\* health.pendingPersistence = false is honest: every struct of the live
\* document is stored, whatever saves failed or were overtaken before.
NotPendingMeansStored == loaded /\ ~pending => doc.ins \subseteq Stored.ins

\* Every handler that queued a save is answered: a failed save does not block
\* the saveChain and the capture loop gives up after its attempts.
EveryCallAnswered == \A c \in Caller : caller[c].pc # "idle" ~> caller[c].pc = "idle"

-----------------------------------------------------------------------------
Durable == INSTANCE DurableVault WITH
    inserted <- Stored.ins, deleted <- Stored.del, reported <- acked.ins

\* The save path implements DurableVault: each of its steps stores, reports or
\* leaves both alone, whatever fails or is evicted on the way.
ImplementsDurableVault == Durable!Spec

=============================================================================
