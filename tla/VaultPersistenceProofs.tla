----------------------- MODULE VaultPersistenceProofs -----------------------
(***************************************************************************)
(* Proofs about VaultPersistence, for every set of structs and callers and *)
(* every threshold, and about ChunkedDocStore, for all byte strings, chunk *)
(* sizes and numbers of checkpoints.                                       *)
(***************************************************************************)
EXTENDS VaultPersistence, ChunkedDocStore, SequenceTheorems, FiniteSetTheorems,
        NaturalsInduction, WellFoundedInduction, TLAPS

CallRecord ==
    [pc : {"idle", "queued", "record", "reply"},
     op : {"none", "write", "save", "capture"},
     update : Update, attempt : Nat]

\* The type invariant of the handlers, under a name of its own.
LEMMA CallerType == TypeOK <=> TypeOK /\ caller \in [Caller -> CallRecord]
  BY DEF TypeOK, CallRecord

\* The coordinator's idle values have their types.
LEMMA EmptyTypes ==
    /\ Empty \in Update
    /\ NoSave \in [phase : Phase, update : Update, sv : SUBSET Struct]
    /\ NoCall \in CallRecord
<1>1. Empty \in Update
  BY DEF Empty, Update
<1> QED BY <1>1 DEF NoSave, NoCall, CallRecord, Phase

\* A handler that queues a save or moves on is a handler still.
LEMMA CallTypes ==
    /\ \A r \in CallRecord : /\ At(r, "record") \in CallRecord
                             /\ At(r, "reply") \in CallRecord
    /\ \A op \in {"write", "save", "capture"}, u \in Update, n \in Nat :
           Awaiting(op, u, n) \in CallRecord
  BY DEF At, Awaiting, CallRecord

\* Merging two updates gives an update.
LEMMA MergeType == \A u, v \in Update : Merge(u, v) \in Update
  BY DEF Merge, Update

\* What loadState returns is a document.
LEMMA StoredType == TypeOK => Stored \in Update
<1> SUFFICES ASSUME TypeOK PROVE Stored \in Update
  OBVIOUS
<1>1. \A i \in 1..Len(journal) : journal[i] \in Update
  BY DEF TypeOK
<1>2. ckpt.update \in Update
  BY DEF TypeOK
<1> QED BY <1>1, <1>2 DEF Stored, Update

\* The same after a step.
LEMMA StoredTypeNext == (TypeOK => Stored \in Update)'
  BY StoredType, PTL

\* A Durable Object that has just been created is well typed.
LEMMA TypeInit == Init => TypeOK
<1> SUFFICES ASSUME Init PROVE TypeOK
  OBVIOUS
<1> USE EmptyTypes DEF Init
<1>1. /\ doc \in Update /\ loaded \in BOOLEAN /\ lastSV \in SUBSET Struct
      /\ acked \in Update
  OBVIOUS
<1>2. failures \in Nat /\ status \in {"healthy", "degraded"} /\ pending \in BOOLEAN
  OBVIOUS
<1>3. queue \in Seq(Caller) /\ journal \in Seq(Update)
  OBVIOUS
<1>4. save \in [phase : Phase, update : Update, sv : SUBSET Struct]
  OBVIOUS
<1>5. caller \in [Caller -> CallRecord]
  OBVIOUS
<1>6. ckpt \in [update : Update, sv : SUBSET Struct]
  OBVIOUS
<1> QED BY <1>1, <1>2, <1>3, <1>4, <1>5, <1>6 DEF TypeOK, CallRecord
\* Dequeuing the head keeps the types of what FinishSave touches.
LEMMA FinishSaveType ==
    ASSUME TypeOK, queue # <<>>, NEW b \in BOOLEAN, FinishSave(b),
           status' \in {"healthy", "degraded"}
    PROVE  /\ queue' \in Seq(Caller) /\ pending' \in BOOLEAN
           /\ save' \in [phase : Phase, update : Update, sv : SUBSET Struct]
           /\ caller' \in [Caller -> CallRecord]
<1>1. queue' \in Seq(Caller) /\ Head(queue) \in Caller
  BY DEF TypeOK, FinishSave
<1>2. pending' \in BOOLEAN
  BY DEF FinishSave, StillPending
<1>3. save' \in [phase : Phase, update : Update, sv : SUBSET Struct]
  BY EmptyTypes DEF FinishSave
<1>4. caller' \in [Caller -> CallRecord]
  <2>1. caller \in [Caller -> CallRecord]
    BY DEF TypeOK, CallRecord
  <2> QED BY <1>1, <2>1, CallTypes, EmptyTypes DEF FinishSave
<1> QED BY <1>1, <1>2, <1>3, <1>4

\* What a save captures of the document is well typed, a delta or a checkpoint.
LEMMA CaptureTypes ==
    ASSUME TypeOK, NEW p \in Phase
    PROVE  /\ Checkpointing(p) \in [phase : Phase, update : Update, sv : SUBSET Struct]
           /\ Saving(p, EncodeStateAsUpdate(doc, lastSV)) \in
                  [phase : Phase, update : Update, sv : SUBSET Struct]
<1>1. doc \in Update /\ doc.ins \in SUBSET Struct
  BY DEF TypeOK, Update
<1>2. EncodeStateAsUpdate(doc, lastSV) \in Update
  BY <1>1 DEF EncodeStateAsUpdate, Update, TypeOK
<1> QED BY <1>1, <1>2 DEF Checkpointing, Saving, EncodeStateVector

\* A save under way belongs to the handler at the head of the chain.  Types
\* alone are not inductive without it: FinishSave takes the tail of the chain.
ChainBusy == save.phase # "idle" => queue # <<>>

\* Every step of the coordinator and its handlers keeps the types.
LEMMA TypeStep == TypeOK /\ ChainBusy /\ [Next]_vars => TypeOK'
<1> SUFFICES ASSUME TypeOK, ChainBusy, [Next]_vars PROVE TypeOK'
  OBVIOUS
<1> DEFINE SaveRecord == [phase : Phase, update : Update, sv : SUBSET Struct]
<1>0. /\ doc \in Update /\ loaded \in BOOLEAN /\ lastSV \in SUBSET Struct
      /\ failures \in Nat /\ status \in {"healthy", "degraded"}
      /\ pending \in BOOLEAN /\ queue \in Seq(Caller)
      /\ save \in SaveRecord /\ save.update \in Update /\ save.sv \in SUBSET Struct
      /\ caller \in [Caller -> CallRecord]
      /\ ckpt \in [update : Update, sv : SUBSET Struct]
      /\ journal \in Seq(Update)
      /\ acked \in Update
  BY DEF TypeOK, CallRecord
<1>p. {"idle", "append", "fallback", "immediate", "compact"} \subseteq Phase
  BY DEF Phase
<1>t. ASSUME doc' \in Update /\ loaded' \in BOOLEAN /\ lastSV' \in SUBSET Struct,
             failures' \in Nat /\ status' \in {"healthy", "degraded"},
             pending' \in BOOLEAN /\ queue' \in Seq(Caller),
             save' \in SaveRecord, caller' \in [Caller -> CallRecord],
             ckpt' \in [update : Update, sv : SUBSET Struct],
             journal' \in Seq(Update),
             acked' \in Update
      PROVE  TypeOK'
  BY <1>t DEF TypeOK, CallRecord
<1>1. CASE LoadDocument
  <2>1. Stored \in Update /\ Stored.ins \in SUBSET Struct
    BY StoredType DEF Update
  <2>2. doc' \in Update /\ lastSV' \in SUBSET Struct
    BY <1>1, <2>1, <1>0 DEF LoadDocument, LoadedState, EncodeStateVector
  <2> QED BY <1>1, <2>2, <1>0, <1>t DEF LoadDocument, stored
<1>2. CASE Evict
  <2>1. doc' \in Update /\ save' \in SaveRecord /\ caller' \in [Caller -> CallRecord]
    BY <1>2, EmptyTypes DEF Evict
  <2>2. queue' \in Seq(Caller)
    BY <1>2 DEF Evict
  <2>3. /\ lastSV' \in SUBSET Struct /\ failures' \in Nat /\ pending' \in BOOLEAN
        /\ loaded' \in BOOLEAN /\ status' \in {"healthy", "degraded"}
    BY <1>2 DEF Evict
  <2>4. UNCHANGED <<ckpt, journal, acked>>
    BY <1>2 DEF Evict, stored
  <2> QED BY <2>1, <2>2, <2>3, <2>4, <1>0, <1>t
<1>3. CASE SaveSkipped
  <2>1. queue # <<>> /\ FinishSave(TRUE) /\ status' = status
    BY <1>3 DEF SaveSkipped, ChainReady
  <2>2. /\ queue' \in Seq(Caller) /\ pending' \in BOOLEAN
        /\ save' \in SaveRecord /\ caller' \in [Caller -> CallRecord]
    BY <2>1, <1>0, FinishSaveType
  <2> QED BY <1>3, <2>2, <1>0, <1>t DEF SaveSkipped, stored
<1>4. CASE SaveStarted
  <2>1. save' \in SaveRecord
    BY <1>4, <1>p, CaptureTypes DEF SaveStarted
  <2> QED BY <1>4, <2>1, <1>0, <1>t DEF SaveStarted, stored
<1>5. CASE AppendSucceeded
  <2>1. /\ journal' \in Seq(Update) /\ ckpt' = ckpt /\ lastSV' \in SUBSET Struct
        /\ failures' \in Nat /\ status' \in {"healthy", "degraded"}
    BY <1>5, <1>0 DEF AppendSucceeded, JournalAppend
  <2>2. CASE NeedsCompaction(journal')
    <3>1. save' \in SaveRecord
      BY <1>5, <2>2, <1>p, CaptureTypes DEF AppendSucceeded
    <3> QED BY <1>5, <2>1, <2>2, <3>1, <1>0, <1>t DEF AppendSucceeded
  <2>3. CASE ~NeedsCompaction(journal')
    <3>1. FinishSave(TRUE) /\ queue # <<>>
      BY <1>5, <2>3 DEF AppendSucceeded, ChainBusy
    <3>2. /\ queue' \in Seq(Caller) /\ pending' \in BOOLEAN
          /\ save' \in SaveRecord /\ caller' \in [Caller -> CallRecord]
      BY <2>1, <3>1, FinishSaveType
    <3> QED BY <1>5, <2>1, <3>2, <1>0, <1>t DEF AppendSucceeded
  <2> QED BY <2>2, <2>3
<1>6. ASSUME NEW committed \in BOOLEAN, AppendFailed(committed) PROVE TypeOK'
  <2>0. /\ failures' = failures + 1 /\ status' = "degraded"
        /\ JournalAppend(save.update) \/ UNCHANGED stored
    BY <1>6 DEF AppendFailed
  <2>1. /\ journal' \in Seq(Update) /\ ckpt' = ckpt
        /\ failures' \in Nat /\ status' \in {"healthy", "degraded"}
    BY <2>0, <1>0 DEF JournalAppend, stored
  <2>2. CASE failures + 1 >= FallbackAfterFailures
    <3>1. save' \in SaveRecord
      BY <1>6, <2>2, <1>p, CaptureTypes DEF AppendFailed
    <3> QED BY <1>6, <2>1, <2>2, <3>1, <1>0, <1>t DEF AppendFailed
  <2>3. CASE ~(failures + 1 >= FallbackAfterFailures)
    <3>1. FinishSave(FALSE) /\ queue # <<>>
      BY <1>6, <2>3 DEF AppendFailed, ChainBusy
    <3>2. /\ queue' \in Seq(Caller) /\ pending' \in BOOLEAN
          /\ save' \in SaveRecord /\ caller' \in [Caller -> CallRecord]
      BY <2>1, <3>1, FinishSaveType
    <3> QED BY <1>6, <2>1, <3>2, <1>0, <1>t DEF AppendFailed
  <2> QED BY <2>2, <2>3
<1>7. ASSUME CheckpointSucceeded \/ CheckpointStatsFailed PROVE TypeOK'
  <2>1. /\ CheckpointRewrite(save.update, save.sv) /\ lastSV' = save.sv
        /\ queue # <<>> /\ UNCHANGED <<doc, loaded, acked>>
    BY <1>7 DEF CheckpointSucceeded, CheckpointStatsFailed, ChainBusy
  <2>2. /\ journal' \in Seq(Update) /\ lastSV' \in SUBSET Struct
        /\ ckpt' \in [update : Update, sv : SUBSET Struct]
    BY <2>1, <1>0 DEF CheckpointRewrite
  <2>3. failures' \in Nat /\ status' \in {"healthy", "degraded"}
    <3>1. CASE CheckpointSucceeded
      BY <3>1, <1>0 DEF CheckpointSucceeded
    <3>2. CASE CheckpointStatsFailed
      <4>1. \/ failures' = 1 /\ status' = "degraded"
            \/ failures' = 0 /\ status' = "healthy"
            \/ UNCHANGED <<failures, status>>
        BY <3>2 DEF CheckpointStatsFailed
      <4> QED BY <4>1, <1>0
    <3> QED BY <1>7, <3>1, <3>2
  <2>4. PICK b \in BOOLEAN : FinishSave(b)
    BY <1>7 DEF CheckpointSucceeded, CheckpointStatsFailed
  <2>5. /\ queue' \in Seq(Caller) /\ pending' \in BOOLEAN
        /\ save' \in SaveRecord /\ caller' \in [Caller -> CallRecord]
    BY <2>1, <2>3, <2>4, FinishSaveType
  <2> QED BY <2>1, <2>2, <2>3, <2>5, <1>0, <1>t 
<1>8. CASE CheckpointFailed
  <2>1. failures' \in Nat /\ status' \in {"healthy", "degraded"} /\ queue # <<>>
    BY <1>8, <1>0 DEF CheckpointFailed, ChainBusy
  <2>2. PICK b \in BOOLEAN : FinishSave(b)
    BY <1>8 DEF CheckpointFailed
  <2>3. /\ queue' \in Seq(Caller) /\ pending' \in BOOLEAN
        /\ save' \in SaveRecord /\ caller' \in [Caller -> CallRecord]
    BY <2>1, <2>2, FinishSaveType
  <2> QED BY <1>8, <2>1, <2>3, <1>0, <1>t DEF CheckpointFailed, stored
<1>9. ASSUME NEW c \in Caller, NEW u \in Submittable, ApplyAndSave(c, u) PROVE TypeOK'
  <2>1. u \in Update
    BY DEF Submittable
  <2>2. doc' \in Update
    BY <1>9, <2>1, <1>0, MergeType DEF ApplyAndSave
  <2>3. queue' \in Seq(Caller) /\ pending' \in BOOLEAN
    BY <1>9, <1>0 DEF ApplyAndSave, EnqueueSave
  <2>4. caller' \in [Caller -> CallRecord]
    BY <1>9, <2>1, <1>0, CallTypes DEF ApplyAndSave
  <2> QED BY <1>9, <2>2, <2>3, <2>4, <1>0, <1>t DEF ApplyAndSave, stored
<1>10. ASSUME NEW c \in Caller, SaveOnly(c) \/ CaptureSnapshot(c) PROVE TypeOK'
  <2>0. EnqueueSave(c)
    BY <1>10 DEF SaveOnly, CaptureSnapshot
  <2>1. queue' \in Seq(Caller) /\ pending' \in BOOLEAN
    BY <2>0, <1>0 DEF EnqueueSave
  <2>2. caller' \in [Caller -> CallRecord]
    BY <1>10, <1>0, EmptyTypes, CallTypes DEF SaveOnly, CaptureSnapshot
  <2> QED BY <1>10, <2>1, <2>2, <1>0, <1>t DEF SaveOnly, CaptureSnapshot, stored
<1>11. ASSUME NEW c \in Caller, HandlerStep(c) PROVE TypeOK'
  <2>0. caller[c] \in CallRecord
    BY <1>0
  <2>1. ASSUME Record(c) \/ RecordFailed(c) PROVE TypeOK'
    <3>1. caller' \in [Caller -> CallRecord]
      BY <2>0, <2>1, <1>0, EmptyTypes, CallTypes DEF Record, RecordFailed
    <3> QED BY <2>1, <3>1, <1>0, <1>t DEF Record, RecordFailed, memory, stored
  <2>2. ASSUME Reply(c) \/ CaptureDone(c) PROVE TypeOK'
    <3>1. caller' \in [Caller -> CallRecord]
      BY <2>2, <1>0, EmptyTypes DEF Reply, CaptureDone
    <3>2. caller[c].update \in Update /\ [ins |-> lastSV, del |-> {}] \in Update
      BY <2>0, <1>0 DEF CallRecord, Update
    <3>3. acked' \in Update
      BY <2>2, <3>2, <1>0, MergeType DEF Reply, CaptureDone, PersistedStateVector
    <3> QED BY <2>2, <3>1, <3>3, <1>0, <1>t DEF Reply, CaptureDone, memory, stored
  <2>3. CASE CaptureRetry(c)
    <3>1. queue' \in Seq(Caller) /\ pending' \in BOOLEAN
      <4>1. EnqueueSave(c) \/ UNCHANGED <<queue, pending>>
        BY <2>3 DEF CaptureRetry
      <4>2. CASE EnqueueSave(c)
        BY <4>2, <1>0 DEF EnqueueSave
      <4> QED BY <4>1, <4>2, <1>0
    <3>2. caller[c].attempt + 1 \in Nat
      BY <2>0 DEF CallRecord
    <3>3. caller' \in [Caller -> CallRecord]
      BY <2>0, <2>3, <3>2, <1>0, EmptyTypes, CallTypes DEF CaptureRetry
    <3> QED BY <2>3, <3>1, <3>3, <1>0, <1>t DEF CaptureRetry, stored
  <2> QED BY <1>11, <2>1, <2>2, <2>3 DEF HandlerStep
<1>12. CASE UNCHANGED vars
  BY <1>12, <1>0, <1>t DEF vars, memory, stored
<1> QED BY <1>1, <1>2, <1>2, <1>3, <1>4, <1>5, <1>6, <1>7, <1>8, <1>9, <1>10, <1>11, <1>12
        DEF Next, SaveStep

-----------------------------------------------------------------------------
(* The inductive invariant *)

Queued(c) == caller[c].pc = "queued"

Rewriting == save.phase \in {"fallback", "immediate", "compact"}

\* Memory against storage: the live document holds all that is stored, and
\* what counts as persisted is stored.
StoreInv ==
    /\ loaded => Stored.ins \subseteq doc.ins /\ Stored.del \subseteq doc.del
    /\ ~loaded => queue = <<>> /\ \A c \in Caller : caller[c].pc = "idle"
    /\ lastSV \subseteq Stored.ins
    /\ ckpt.sv = ckpt.update.ins

\* The chain holds exactly the handlers that wait for a save, once each.
QueueInv ==
    /\ \A i \in 1..Len(queue) : Queued(queue[i])
    /\ \A c \in Caller : Queued(c) => \E i \in 1..Len(queue) : queue[i] = c
    /\ \A i, j \in 1..Len(queue) : queue[i] = queue[j] => i = j

\* What the save under way has captured, against the document, the last
\* persisted state vector and storage.
SaveInv ==
    /\ save.phase # "idle" =>
         /\ queue # <<>>
         /\ save.update.ins \subseteq doc.ins /\ save.update.del \subseteq doc.del
         /\ save.sv \subseteq doc.ins
         /\ caller[Head(queue)].update.ins \subseteq save.sv
    /\ save.phase = "append" => save.sv \subseteq lastSV \cup save.update.ins
    /\ Rewriting =>
         /\ save.sv = save.update.ins
         /\ Stored.ins \subseteq save.update.ins
         /\ Stored.del \subseteq save.update.del
    /\ save.phase = "immediate" => status = "degraded"
    /\ save.phase = "compact" => caller[Head(queue)].update.ins \subseteq lastSV

\* What each handler submitted is in the document while it waits and in
\* storage once its save has succeeded.
CallInv ==
    /\ \A c \in Caller : Queued(c) => caller[c].update.ins \subseteq doc.ins
    /\ \A c \in Caller : caller[c].pc \in {"record", "reply"} =>
                             caller[c].update.ins \subseteq Stored.ins
    /\ acked.ins \subseteq Stored.ins

\* s is the business of a handler that waits behind the head of the chain.
Waiting(s) ==
    \E c \in Caller : Queued(c) /\ c # Head(queue) /\ s \in caller[c].update.ins

\* Whatever part of the document is not persisted has a save to come.
PendingInv ==
    /\ queue # <<>> \/ status = "degraded" => pending
    /\ loaded /\ status = "healthy" =>
         \A s \in doc.ins : \/ s \in lastSV
                            \/ \E c \in Caller : Queued(c) /\ s \in caller[c].update.ins
    /\ save.phase # "idle" => \A s \in doc.ins : s \in save.sv \/ Waiting(s)
    /\ save.phase = "compact" => \A s \in doc.ins : s \in lastSV \/ Waiting(s)

IInv == TypeOK /\ StoreInv /\ QueueInv /\ SaveInv /\ CallInv /\ PendingInv

-----------------------------------------------------------------------------
(* Storage *)

\* loadState depends on the checkpoint and the journal alone.
LEMMA StoredSame == UNCHANGED <<ckpt, journal>> => Stored' = Stored
  BY DEF Stored

\* An appended entry adds exactly itself to what is stored.
LEMMA StoredAppend ==
    ASSUME TypeOK, NEW u \in Update, JournalAppend(u)
    PROVE  /\ Stored'.ins = Stored.ins \cup u.ins
           /\ Stored'.del = Stored.del \cup u.del
<1>1. /\ journal \in Seq(Update) /\ journal' = Append(journal, u) /\ ckpt' = ckpt
  BY DEF TypeOK, JournalAppend
<1>2. /\ Len(journal') = Len(journal) + 1 /\ Len(journal) \in Nat
      /\ journal'[Len(journal) + 1] = u
      /\ \A i \in 1..Len(journal) : journal'[i] = journal[i]
  BY <1>1
<1> DEFINE N == 1..Len(journal)
           n == Len(journal) + 1
<1>a. 1..Len(journal') = N \cup {n} /\ n \notin N
  BY <1>2
<1>b. journal'[n] = u /\ \A i \in N : journal'[i] = journal[i]
  BY <1>2
<1> HIDE DEF N, n
<1>3. UNION {journal'[i].ins : i \in 1..Len(journal')} =
        (UNION {journal[i].ins : i \in N}) \cup u.ins
  BY <1>a, <1>b
<1>4. UNION {journal'[i].del : i \in 1..Len(journal')} =
        (UNION {journal[i].del : i \in N}) \cup u.del
  BY <1>a, <1>b
<1> USE DEF N
<1> QED BY <1>1, <1>3, <1>4 DEF Stored

\* A checkpoint replaces everything that was stored.
LEMMA StoredRewrite ==
    ASSUME NEW u, NEW sv, CheckpointRewrite(u, sv)
    PROVE  Stored'.ins = u.ins /\ Stored'.del = u.del
<1>1. ckpt'.update = u /\ journal' = <<>> /\ Len(journal') = 0
  BY DEF CheckpointRewrite
<1>2. 1..Len(journal') = {}
  BY <1>1
<1> QED BY <1>1, <1>2 DEF Stored

-----------------------------------------------------------------------------
(* The chain *)

\* FinishSave dequeues the head, and only the head stops waiting.
LEMMA FinishSaveQueue ==
    ASSUME TypeOK, QueueInv, queue # <<>>, NEW b \in BOOLEAN, FinishSave(b)
    PROVE  /\ Head(queue) \in Caller /\ Queued(Head(queue))
           /\ save'.phase = "idle"
           /\ QueueInv'
           /\ \A c \in Caller : /\ c # Head(queue) => caller'[c] = caller[c]
                                /\ Queued(c)' <=> Queued(c) /\ c # Head(queue)
           /\ caller'[Head(queue)].pc = IF b THEN "record" ELSE "idle"
           /\ b => caller'[Head(queue)].update = caller[Head(queue)].update
           /\ queue' # <<>> => pending'
           /\ status' = "degraded" => pending'
<1> DEFINE h == Head(queue)
<1>0. /\ queue \in Seq(Caller) /\ caller \in [Caller -> CallRecord]
      /\ queue' = Tail(queue) /\ Len(queue) \in Nat /\ Len(queue) > 0
  BY DEF TypeOK, CallRecord, FinishSave
<1>1. h \in Caller /\ Queued(h) /\ h = queue[1]
  BY <1>0 DEF QueueInv
<1>2. save'.phase = "idle"
  BY DEF FinishSave, NoSave
<1>3. \A c \in Caller : c # h => caller'[c] = caller[c]
  BY <1>0, <1>1 DEF FinishSave
<1>4. /\ b => caller'[h] = At(caller[h], "record")
      /\ ~b => caller'[h] = NoCall
  BY <1>0, <1>1 DEF FinishSave
<1>5. caller'[h].pc = IF b THEN "record" ELSE "idle"
  <2>1. At(caller[h], "record").pc = "record"
    BY <1>0, <1>1 DEF At, CallRecord
  <2>2. NoCall.pc = "idle"
    BY DEF NoCall
  <2> QED BY <1>4, <2>1, <2>2
<1>6. b => caller'[h].update = caller[h].update
  <2>1. At(caller[h], "record").update = caller[h].update
    BY <1>0, <1>1 DEF At, CallRecord
  <2> QED BY <1>4, <2>1
<1>7. \A c \in Caller : Queued(c)' <=> Queued(c) /\ c # h
  BY <1>1, <1>3, <1>5 DEF Queued
<1>8. /\ Len(queue') = Len(queue) - 1
      /\ \A i \in 1..Len(queue') : queue'[i] = queue[i + 1] /\ i + 1 \in 1..Len(queue)
  BY <1>0
<1>9. QueueInv'
  <2>1. \A i \in 1..Len(queue') : caller'[queue'[i]].pc = "queued"
    <3> TAKE i \in 1..Len(queue')
    <3>1. queue'[i] \in Caller /\ Queued(queue'[i])
      BY <1>0, <1>8 DEF QueueInv
    <3>2. queue'[i] # h
      BY <1>0, <1>1, <1>8 DEF QueueInv
    <3> QED BY <1>7, <3>1, <3>2 DEF Queued
  <2>2. \A c \in Caller : Queued(c)' => \E i \in 1..Len(queue') : queue'[i] = c
    <3> SUFFICES ASSUME NEW c \in Caller, Queued(c)'
                 PROVE  \E i \in 1..Len(queue') : queue'[i] = c
      OBVIOUS
    <3>1. PICK j \in 1..Len(queue) : queue[j] = c
      BY <1>7 DEF QueueInv
    <3>2. j # 1
      BY <1>1, <1>7, <3>1
    <3>3. j - 1 \in 1..Len(queue') /\ queue'[j - 1] = c
      BY <1>0, <1>8, <3>1, <3>2
    <3> QED BY <3>3
  <2>3. \A i, j \in 1..Len(queue') : queue'[i] = queue'[j] => i = j
    BY <1>0, <1>8 DEF QueueInv
  <2> QED BY <2>1, <2>2, <2>3 DEF QueueInv, Queued
<1>10. /\ queue' # <<>> => pending'
       /\ status' = "degraded" => pending'
  <2>1. pending' = (Len(queue) - 1 > 0 \/ status' = "degraded")
    BY DEF FinishSave, StillPending
  <2>2. queue' # <<>> => Len(queue) - 1 > 0
    BY <1>0
  <2> QED BY <2>1, <2>2
<1> QED BY <1>1, <1>2, <1>3, <1>5, <1>6, <1>7, <1>9, <1>10

\* EnqueueSave puts a handler that was not waiting at the end.
LEMMA EnqueueSaveQueue ==
    ASSUME TypeOK, QueueInv, NEW c \in Caller, ~Queued(c), EnqueueSave(c),
           NEW op, NEW u, NEW n,
           caller' = [caller EXCEPT ![c] = Awaiting(op, u, n)]
    PROVE  /\ QueueInv'
           /\ queue' # <<>> /\ pending'
           /\ queue # <<>> => Head(queue') = Head(queue) /\ Head(queue) # c
           /\ caller'[c].pc = "queued" /\ caller'[c].update = u
           /\ \A d \in Caller : /\ d # c => caller'[d] = caller[d]
                                /\ Queued(d)' <=> Queued(d) \/ d = c
<1>0. /\ queue \in Seq(Caller) /\ Len(queue) \in Nat
      /\ queue' = Append(queue, c) /\ pending'
      /\ caller \in [Caller -> CallRecord]
  BY DEF TypeOK, CallRecord, EnqueueSave
<1>1. caller'[c].pc = "queued" /\ caller'[c].update = u
  BY <1>0 DEF Awaiting
<1>2. \A d \in Caller : d # c => caller'[d] = caller[d]
  BY <1>0
<1>3. \A d \in Caller : Queued(d)' <=> Queued(d) \/ d = c
  BY <1>1, <1>2 DEF Queued
<1>4. /\ Len(queue') = Len(queue) + 1 /\ queue'[Len(queue) + 1] = c
      /\ \A i \in 1..Len(queue) : queue'[i] = queue[i] /\ queue[i] \in Caller
      /\ queue' # <<>>
  BY <1>0
<1>5. \A i \in 1..Len(queue) : queue[i] # c
  BY DEF QueueInv
<1>6. QueueInv'
  <2>1. \A i \in 1..Len(queue') : caller'[queue'[i]].pc = "queued"
    <3> TAKE i \in 1..Len(queue')
    <3>1. CASE i = Len(queue) + 1
      BY <1>1, <1>4, <3>1
    <3>2. CASE i \in 1..Len(queue)
      BY <1>3, <1>4, <3>2 DEF QueueInv, Queued
    <3> QED BY <1>0, <1>4, <3>1, <3>2
  <2>2. \A d \in Caller : Queued(d)' => \E i \in 1..Len(queue') : queue'[i] = d
    BY <1>0, <1>3, <1>4 DEF QueueInv
  <2>3. \A i, j \in 1..Len(queue') : queue'[i] = queue'[j] => i = j
    BY <1>0, <1>4, <1>5 DEF QueueInv
  <2> QED BY <2>1, <2>2, <2>3 DEF QueueInv, Queued
<1>7. queue # <<>> => Head(queue') = Head(queue) /\ Head(queue) # c
  BY <1>0, <1>4, <1>5
<1> QED BY <1>0, <1>1, <1>2, <1>3, <1>4, <1>6, <1>7

-----------------------------------------------------------------------------
(* The invariant is inductive *)

\* The invariant holds of an object whose storage is empty.
LEMMA InitInv == Init => IInv
<1> SUFFICES ASSUME Init PROVE IInv
  OBVIOUS
<1>1. Stored.ins = {} /\ Stored.del = {}
  <2>1. 1..Len(journal) = {} /\ ckpt.update = Empty
    BY DEF Init
  <2> QED BY <2>1 DEF Stored, Empty
<1>2. TypeOK
  BY TypeInit
<1>3. \A c \in Caller : caller[c].pc = "idle"
  BY DEF Init, NoCall
<1>4. /\ queue = <<>> /\ Len(queue) = 0 /\ save.phase = "idle" /\ loaded = FALSE
      /\ lastSV = {} /\ ckpt.sv = {} /\ ckpt.update.ins = {} /\ acked.ins = {}
      /\ status = "healthy"
  BY DEF Init, NoSave, Empty
<1>5. StoreInv
  BY <1>1, <1>3, <1>4 DEF StoreInv
<1>6. QueueInv
  BY <1>3, <1>4 DEF QueueInv, Queued
<1>7. SaveInv /\ CallInv /\ PendingInv
  BY <1>1, <1>3, <1>4 DEF SaveInv, CallInv, PendingInv, Queued, Rewriting
<1> QED BY <1>2, <1>5, <1>6, <1>7 DEF IInv

\* A handler applies an update, possibly none, and queues a save.
LEMMA EnqueueStep ==
    ASSUME IInv, TypeOK', loaded, NEW c \in Caller, ~Queued(c), NEW u \in Update,
           NEW op, NEW n, EnqueueSave(c),
           caller' = [caller EXCEPT ![c] = Awaiting(op, u, n)],
           doc'.ins = doc.ins \cup u.ins, doc.del \subseteq doc'.del,
           UNCHANGED <<loaded, lastSV, status, save, ckpt, journal, acked>>
    PROVE  IInv'
<1> USE DEF IInv
<1>0. Stored' = Stored
  BY StoredSame
<1>1. /\ QueueInv' /\ queue' # <<>> /\ pending'
      /\ queue # <<>> => Head(queue') = Head(queue) /\ Head(queue) # c
      /\ caller'[c].pc = "queued" /\ caller'[c].update = u
      /\ \A d \in Caller : /\ d # c => caller'[d] = caller[d]
                           /\ Queued(d)' <=> Queued(d) \/ d = c
  BY EnqueueSaveQueue
<1>2. StoreInv'
  BY <1>0, <1>1 DEF StoreInv
<1>3. queue # <<>> => caller'[Head(queue')] = caller[Head(queue)] /\ Head(queue) \in Caller
  BY <1>1 DEF TypeOK
<1>4. SaveInv'
  BY <1>0, <1>1, <1>3 DEF SaveInv, Rewriting
<1>5. CallInv'
  BY <1>0, <1>1 DEF CallInv, Queued
<1>6. PendingInv'
  <2>1. \A d \in Caller : Queued(d) => Queued(d)' /\ caller'[d] = caller[d]
    BY <1>1
  <2>2. \A s : queue # <<>> /\ Waiting(s) => Waiting(s)'
    BY <1>1, <2>1 DEF Waiting
  <2>3. \A s \in u.ins : queue # <<>> => Waiting(s)'
    BY <1>1 DEF Waiting
  <2>4. loaded /\ status = "healthy" =>
           \A s \in doc'.ins : \/ s \in lastSV
                               \/ \E d \in Caller : Queued(d)' /\ s \in caller'[d].update.ins
    BY <1>1, <2>1 DEF PendingInv
  <2>5. save.phase # "idle" => queue # <<>>
    BY DEF SaveInv
  <2> QED BY <1>1, <2>2, <2>3, <2>4, <2>5 DEF PendingInv
<1> QED BY <1>1, <1>2, <1>4, <1>5, <1>6

\* A handler that is not in the chain moves on, or ends, outside it.
LEMMA SettleStep ==
    ASSUME IInv, TypeOK', loaded, NEW c \in Caller, ~Queued(c), NEW r,
           r.pc # "queued",
           r.pc \in {"record", "reply"} => r.update.ins \subseteq Stored.ins,
           caller' = [caller EXCEPT ![c] = r],
           acked'.ins \subseteq Stored.ins,
           UNCHANGED <<memory, stored>>
    PROVE  IInv'
<1> USE DEF IInv
<1>0. Stored' = Stored /\ UNCHANGED <<doc, loaded, lastSV, status, pending, queue, save, ckpt>>
  BY StoredSame DEF memory, stored
<1>1. caller \in [Caller -> CallRecord]
  BY DEF TypeOK, CallRecord
<1>2. caller'[c] = r /\ \A d \in Caller : d # c => caller'[d] = caller[d]
  BY <1>1
<1>3. \A d \in Caller : (Queued(d)' <=> Queued(d)) /\ (Queued(d) => caller'[d] = caller[d])
  BY <1>2 DEF Queued
<1>4. \A i \in 1..Len(queue) : queue[i] \in Caller
  BY DEF TypeOK
<1>5. StoreInv'
  BY <1>0 DEF StoreInv
<1>6. QueueInv'
  BY <1>0, <1>3, <1>4 DEF QueueInv, Queued
<1>7. queue # <<>> => caller'[Head(queue)] = caller[Head(queue)] /\ Head(queue) \in Caller
  <2>1. queue # <<>> => Head(queue) = queue[1] /\ 1 \in 1..Len(queue)
    BY DEF TypeOK
  <2> QED BY <1>3, <1>4, <2>1 DEF QueueInv
<1>8. SaveInv'
  BY <1>0, <1>7 DEF SaveInv, Rewriting
<1>9. CallInv'
  BY <1>0, <1>2, <1>3 DEF CallInv, Queued
<1>10. PendingInv'
  BY <1>0, <1>3 DEF PendingInv, Waiting
<1> QED BY <1>5, <1>6, <1>8, <1>9, <1>10

\* A save ends, having stored what it reports.
LEMMA FinishStep ==
    ASSUME IInv, TypeOK', queue # <<>>, NEW b \in BOOLEAN, FinishSave(b),
           UNCHANGED <<doc, loaded, acked>>,
           Stored.ins \subseteq Stored'.ins,
           Stored'.ins \subseteq doc.ins, Stored'.del \subseteq doc.del,
           lastSV' \subseteq Stored'.ins, ckpt'.sv = ckpt'.update.ins,
           b => caller[Head(queue)].update.ins \subseteq Stored'.ins,
           status' = "healthy" => \A s \in doc.ins : s \in lastSV' \/ Waiting(s)
    PROVE  IInv'
<1> USE DEF IInv
<1>0. /\ Head(queue) \in Caller /\ Queued(Head(queue))
      /\ save'.phase = "idle"
      /\ QueueInv'
      /\ \A c \in Caller : /\ c # Head(queue) => caller'[c] = caller[c]
                           /\ Queued(c)' <=> Queued(c) /\ c # Head(queue)
      /\ caller'[Head(queue)].pc = IF b THEN "record" ELSE "idle"
      /\ b => caller'[Head(queue)].update = caller[Head(queue)].update
      /\ queue' # <<>> => pending'
      /\ status' = "degraded" => pending'
  BY FinishSaveQueue
<1>1. StoreInv'
  BY DEF StoreInv
<1>2. SaveInv'
  BY <1>0 DEF SaveInv, Rewriting
<1>3. CallInv'
  BY <1>0 DEF CallInv, Queued
<1>4. PendingInv'
  BY <1>0 DEF PendingInv, Waiting
<1> QED BY <1>0, <1>1, <1>2, <1>3, <1>4

\* What is known of the head of the chain.
LEMMA HeadFacts ==
    ASSUME IInv, queue # <<>>
    PROVE  /\ loaded /\ Head(queue) \in Caller /\ Queued(Head(queue))
           /\ caller[Head(queue)].update.ins \subseteq doc.ins
<1>1. /\ Head(queue) = queue[1] /\ 1 \in 1..Len(queue) /\ queue[1] \in Caller
      /\ loaded \in BOOLEAN
  BY DEF IInv, TypeOK
<1>2. Queued(Head(queue))
  BY <1>1 DEF IInv, QueueInv
<1> QED BY <1>1, <1>2 DEF IInv, StoreInv, CallInv

\* A save captures the document while the chain stays as it is.
LEMMA CaptureStep ==
    ASSUME IInv, TypeOK', queue # <<>>,
           UNCHANGED <<doc, loaded, queue, pending, caller, acked>>,
           save'.phase # "idle",
           save'.update.ins \subseteq doc.ins, save'.update.del \subseteq doc.del,
           save'.sv = doc.ins,
           save'.phase = "append" => doc.ins \subseteq lastSV' \cup save'.update.ins,
           Rewriting' => save'.update.ins = doc.ins /\ save'.update.del = doc.del,
           save'.phase = "immediate" => status' = "degraded",
           save'.phase = "compact" =>
               /\ caller[Head(queue)].update.ins \subseteq lastSV'
               /\ \A s \in doc.ins : s \in lastSV' \/ Waiting(s),
           status' = "healthy" =>
               \A s \in doc.ins : \/ s \in lastSV'
                                  \/ \E c \in Caller : Queued(c) /\ s \in caller[c].update.ins,
           Stored.ins \subseteq Stored'.ins,
           Stored'.ins \subseteq doc.ins, Stored'.del \subseteq doc.del,
           lastSV' \subseteq Stored'.ins, ckpt'.sv = ckpt'.update.ins
    PROVE  IInv'
<1> USE DEF IInv
<1>0. /\ loaded /\ Head(queue) \in Caller /\ Queued(Head(queue))
      /\ caller[Head(queue)].update.ins \subseteq doc.ins
  BY HeadFacts
<1>1. StoreInv'
  BY <1>0 DEF StoreInv
<1>2. QueueInv'
  BY DEF QueueInv, Queued
<1>3. SaveInv'
  BY <1>0 DEF SaveInv, Rewriting
<1>4. CallInv'
  BY DEF CallInv, Queued
<1>5. PendingInv'
  BY DEF PendingInv, Waiting, Queued
<1> QED BY <1>1, <1>2, <1>3, <1>4, <1>5

\* A save that finds nothing new reports only what is stored.
LEMMA SaveSkippedStep == IInv /\ TypeOK' /\ SaveSkipped => IInv'
<1> SUFFICES ASSUME IInv, TypeOK', SaveSkipped PROVE IInv'
  OBVIOUS
<1>1. /\ queue # <<>> /\ lastSV = doc.ins /\ FinishSave(TRUE)
      /\ UNCHANGED <<doc, loaded, lastSV, status, ckpt, journal, acked>>
  BY DEF SaveSkipped, ChainReady, EncodeStateVector, stored
<1>2. Stored' = Stored
  BY <1>1, StoredSame
<1>3. loaded /\ caller[Head(queue)].update.ins \subseteq doc.ins
  BY <1>1, HeadFacts
<1>4. /\ Stored.ins \subseteq doc.ins /\ Stored.del \subseteq doc.del
      /\ lastSV \subseteq Stored.ins /\ ckpt.sv = ckpt.update.ins
  BY <1>3 DEF IInv, StoreInv
<1> QED BY <1>1, <1>2, <1>3, <1>4, FinishStep

\* executeSave captures the whole document, as a delta or a checkpoint.
LEMMA SaveStartedStep == IInv /\ TypeOK' /\ SaveStarted => IInv'
<1> SUFFICES ASSUME IInv, TypeOK', SaveStarted PROVE IInv'
  OBVIOUS
<1>1. /\ queue # <<>> /\ save.phase = "idle"
      /\ UNCHANGED <<doc, loaded, lastSV, status, pending, queue, caller, ckpt, journal, acked>>
  BY DEF SaveStarted, ChainReady, stored
<1>2. \/ save' = [phase |-> "fallback", update |-> doc, sv |-> doc.ins]
      \/ save' = [phase |-> "append", sv |-> doc.ins,
                  update |-> [ins |-> doc.ins \ lastSV, del |-> doc.del]]
  BY DEF SaveStarted, Checkpointing, Saving, EncodeStateVector, EncodeStateAsUpdate
<1>3. /\ save'.phase \in {"fallback", "append"} /\ save'.sv = doc.ins
      /\ save'.update.ins \subseteq doc.ins /\ save'.update.del \subseteq doc.del
      /\ save'.phase = "append" => save'.update.ins = doc.ins \ lastSV
      /\ save'.phase = "fallback" => save'.update = doc
  BY <1>2
<1>4. Stored' = Stored
  BY <1>1, StoredSame
<1>5. loaded
  BY <1>1, HeadFacts
<1>6. /\ Stored.ins \subseteq doc.ins /\ Stored.del \subseteq doc.del
      /\ lastSV \subseteq Stored.ins /\ ckpt.sv = ckpt.update.ins
  BY <1>5 DEF IInv, StoreInv
<1>7. status = "healthy" =>
          \A s \in doc.ins : \/ s \in lastSV
                             \/ \E c \in Caller : Queued(c) /\ s \in caller[c].update.ins
  BY <1>5 DEF IInv, PendingInv
<1>8. doc.ins \subseteq lastSV \cup (doc.ins \ lastSV)
  OBVIOUS
<1>9. Rewriting' => save'.update = doc
  BY <1>3 DEF Rewriting
<1>10. save'.phase # "idle" /\ save'.phase # "immediate" /\ save'.phase # "compact"
  BY <1>3
<1>11. save'.phase = "append" => doc.ins \subseteq lastSV' \cup save'.update.ins
  BY <1>1, <1>3, <1>8
<1> QED BY <1>1, <1>3, <1>4, <1>6, <1>7, <1>9, <1>10, <1>11, CaptureStep

\* What is known while a save is under way.
LEMMA BusyFacts ==
    ASSUME IInv, save.phase # "idle"
    PROVE  /\ queue # <<>> /\ loaded
           /\ save.update \in Update
           /\ save.update.ins \subseteq doc.ins /\ save.update.del \subseteq doc.del
           /\ save.sv \subseteq doc.ins
           /\ caller[Head(queue)].update.ins \subseteq save.sv
           /\ \A s \in doc.ins : s \in save.sv \/ Waiting(s)
           /\ Stored.ins \subseteq doc.ins /\ Stored.del \subseteq doc.del
           /\ lastSV \subseteq Stored.ins /\ ckpt.sv = ckpt.update.ins
<1>1. /\ queue # <<>>
      /\ save.update.ins \subseteq doc.ins /\ save.update.del \subseteq doc.del
      /\ save.sv \subseteq doc.ins
      /\ caller[Head(queue)].update.ins \subseteq save.sv
      /\ \A s \in doc.ins : s \in save.sv \/ Waiting(s)
  BY DEF IInv, SaveInv, PendingInv
<1>2. loaded
  BY <1>1, HeadFacts
<1>3. save.update \in Update
  BY DEF IInv, TypeOK
<1> QED BY <1>1, <1>2, <1>3 DEF IInv, StoreInv

\* An append that succeeds stores what it reports, with a compaction or without.
LEMMA AppendSucceededStep == IInv /\ TypeOK' /\ AppendSucceeded => IInv'
<1> SUFFICES ASSUME IInv, TypeOK', AppendSucceeded PROVE IInv'
  OBVIOUS
<1>1. /\ save.phase = "append" /\ JournalAppend(save.update) /\ ckpt' = ckpt
      /\ lastSV' = save.sv /\ status' = "healthy"
      /\ UNCHANGED <<doc, loaded, acked>>
  BY DEF AppendSucceeded, JournalAppend
<1>2. /\ queue # <<>> /\ loaded
      /\ save.update \in Update
      /\ save.update.ins \subseteq doc.ins /\ save.update.del \subseteq doc.del
      /\ save.sv \subseteq doc.ins
      /\ caller[Head(queue)].update.ins \subseteq save.sv
      /\ \A s \in doc.ins : s \in save.sv \/ Waiting(s)
      /\ Stored.ins \subseteq doc.ins /\ Stored.del \subseteq doc.del
      /\ lastSV \subseteq Stored.ins /\ ckpt.sv = ckpt.update.ins
  BY <1>1, BusyFacts
<1>3. /\ Stored'.ins = Stored.ins \cup save.update.ins
      /\ Stored'.del = Stored.del \cup save.update.del
  BY <1>1, <1>2, StoredAppend DEF IInv
<1>4. save.sv \subseteq lastSV \cup save.update.ins
  BY <1>1 DEF IInv, SaveInv
<1>5. /\ Stored.ins \subseteq Stored'.ins /\ Stored'.ins \subseteq doc.ins
      /\ Stored'.del \subseteq doc.del /\ lastSV' \subseteq Stored'.ins
      /\ ckpt'.sv = ckpt'.update.ins
      /\ caller[Head(queue)].update.ins \subseteq Stored'.ins
      /\ caller[Head(queue)].update.ins \subseteq lastSV'
  BY <1>1, <1>2, <1>3, <1>4
<1>6. CASE FinishSave(TRUE)
  BY <1>1, <1>2, <1>5, <1>6, FinishStep
<1>7. CASE save' = Checkpointing("compact") /\ UNCHANGED <<queue, pending, caller>>
  <2>1. save' = [phase |-> "compact", update |-> doc, sv |-> doc.ins]
    BY <1>7 DEF Checkpointing, Saving, EncodeStateVector
  <2>2. /\ save'.phase = "compact" /\ save'.update = doc /\ save'.sv = doc.ins
    BY <2>1
  <2>3. \A s : Waiting(s) => \E c \in Caller : Queued(c) /\ s \in caller[c].update.ins
    BY DEF Waiting
  <2>4. save'.phase # "idle" /\ save'.phase # "append" /\ save'.phase # "immediate"
    BY <2>2
  <2> QED BY <1>1, <1>2, <1>5, <1>7, <2>2, <2>3, <2>4, CaptureStep
<1> QED BY <1>6, <1>7 DEF AppendSucceeded

\* An append that fails, committed or not, reports nothing.
LEMMA AppendFailedStep ==
    ASSUME IInv, TypeOK', NEW committed \in BOOLEAN, AppendFailed(committed)
    PROVE  IInv'
<1>1. /\ save.phase = "append" /\ status' = "degraded"
      /\ JournalAppend(save.update) \/ UNCHANGED <<ckpt, journal>>
      /\ UNCHANGED <<doc, loaded, lastSV, acked>>
  BY DEF AppendFailed, stored
<1>2. /\ queue # <<>> /\ loaded
      /\ save.update \in Update
      /\ save.update.ins \subseteq doc.ins /\ save.update.del \subseteq doc.del
      /\ Stored.ins \subseteq doc.ins /\ Stored.del \subseteq doc.del
      /\ lastSV \subseteq Stored.ins /\ ckpt.sv = ckpt.update.ins
  BY <1>1, BusyFacts
<1>3. /\ Stored.ins \subseteq Stored'.ins /\ Stored'.ins \subseteq doc.ins
      /\ Stored'.del \subseteq doc.del /\ ckpt' = ckpt
  <2>1. CASE JournalAppend(save.update)
    BY <2>1, <1>2, StoredAppend DEF IInv, JournalAppend
  <2>2. CASE UNCHANGED <<ckpt, journal>>
    BY <2>2, <1>2, StoredSame
  <2> QED BY <1>1, <2>1, <2>2
<1>4. CASE FinishSave(FALSE)
  BY <1>1, <1>2, <1>3, <1>4, FinishStep
<1>5. CASE save' = Checkpointing("immediate") /\ UNCHANGED <<queue, pending, caller>>
  <2>1. save' = [phase |-> "immediate", update |-> doc, sv |-> doc.ins]
    BY <1>5 DEF Checkpointing, Saving, EncodeStateVector
  <2>2. /\ save'.phase = "immediate" /\ save'.update = doc /\ save'.sv = doc.ins
    BY <2>1
  <2>4. save'.phase # "idle" /\ save'.phase # "append" /\ save'.phase # "compact"
    BY <2>2
  <2> QED BY <1>1, <1>2, <1>3, <1>5, <2>2, <2>4, CaptureStep
<1> QED BY <1>4, <1>5 DEF AppendFailed

\* A checkpoint that is written, whatever its caller is told, loses nothing.
LEMMA CheckpointCommittedStep ==
    ASSUME IInv, TypeOK', CheckpointSucceeded \/ CheckpointStatsFailed
    PROVE  IInv'
<1>1. /\ Rewriting /\ CheckpointRewrite(save.update, save.sv) /\ lastSV' = save.sv
      /\ UNCHANGED <<doc, loaded, acked>>
  BY DEF CheckpointSucceeded, CheckpointStatsFailed, Rewriting
<1>2. PICK b \in BOOLEAN : FinishSave(b)
  BY DEF CheckpointSucceeded, CheckpointStatsFailed
<1>3. /\ queue # <<>> /\ loaded
      /\ save.update.ins \subseteq doc.ins /\ save.update.del \subseteq doc.del
      /\ caller[Head(queue)].update.ins \subseteq save.sv
      /\ \A s \in doc.ins : s \in save.sv \/ Waiting(s)
  <2>1. save.phase # "idle"
    BY <1>1 DEF Rewriting
  <2> QED BY <2>1, BusyFacts
<1>4. save.sv = save.update.ins /\ Stored.ins \subseteq save.update.ins
  BY <1>1 DEF IInv, SaveInv
<1>5. Stored'.ins = save.update.ins /\ Stored'.del = save.update.del
  BY <1>1, StoredRewrite
<1>6. ckpt'.sv = ckpt'.update.ins
  BY <1>1, <1>4 DEF CheckpointRewrite
<1> QED BY <1>1, <1>2, <1>3, <1>4, <1>5, <1>6, FinishStep

\* A checkpoint that is rejected leaves storage as it was.
LEMMA CheckpointFailedStep == IInv /\ TypeOK' /\ CheckpointFailed => IInv'
<1> SUFFICES ASSUME IInv, TypeOK', CheckpointFailed PROVE IInv'
  OBVIOUS
<1>1. /\ save.phase \in {"fallback", "immediate", "compact"}
      /\ UNCHANGED <<doc, loaded, lastSV, ckpt, journal, acked>>
      /\ save.phase = "fallback" => status' = "degraded"
      /\ save.phase # "fallback" => status' = status
      /\ FinishSave(save.phase = "compact")
  <2>1. UNCHANGED <<doc, loaded, lastSV, ckpt, journal, acked>>
    BY DEF CheckpointFailed, stored
  <2>2. /\ save.phase = "fallback" => status' = "degraded"
        /\ save.phase # "fallback" => status' = status
    <3>1. save.phase = "fallback" => status' = "degraded"
      BY Zenon DEF CheckpointFailed
    <3>2. save.phase # "fallback" => status' = status
      BY DEF CheckpointFailed
    <3> QED BY <3>1, <3>2
  <2>3. /\ save.phase \in {"fallback", "immediate", "compact"}
        /\ FinishSave(save.phase = "compact")
    BY DEF CheckpointFailed
  <2> QED BY <2>1, <2>2, <2>3
<1>2. /\ queue # <<>> /\ loaded
      /\ Stored.ins \subseteq doc.ins /\ Stored.del \subseteq doc.del
      /\ lastSV \subseteq Stored.ins /\ ckpt.sv = ckpt.update.ins
  BY <1>1, BusyFacts
<1>3. Stored' = Stored
  BY <1>1, StoredSame
<1>4. /\ save.phase = "immediate" => status = "degraded"
      /\ save.phase = "compact" => caller[Head(queue)].update.ins \subseteq lastSV
      /\ save.phase = "compact" => \A s \in doc.ins : s \in lastSV \/ Waiting(s)
  BY DEF IInv, SaveInv, PendingInv
<1>5. PICK b \in BOOLEAN : b = (save.phase = "compact") /\ FinishSave(b)
  BY <1>1
<1> QED BY <1>1, <1>2, <1>3, <1>4, <1>5, FinishStep

\* loadDocument starts from exactly what is stored.
LEMMA LoadDocumentStep == IInv /\ TypeOK' /\ LoadDocument => IInv'
<1> SUFFICES ASSUME IInv, TypeOK', LoadDocument PROVE IInv'
  OBVIOUS
<1> USE DEF IInv
<1>1. /\ ~loaded /\ loaded' /\ doc' = Stored
      /\ lastSV' = IF journal = <<>> THEN ckpt.sv ELSE doc'.ins
      /\ UNCHANGED <<status, pending, queue, save, caller, ckpt, journal, acked>>
  BY DEF LoadDocument, LoadedState, EncodeStateVector, stored
<1>2. Stored' = Stored
  BY <1>1, StoredSame
<1>3. queue = <<>> /\ \A c \in Caller : caller[c].pc = "idle"
  BY <1>1 DEF StoreInv
<1>4. save.phase = "idle"
  BY <1>3 DEF SaveInv
<1>5. lastSV' = Stored.ins
  <2>1. ASSUME journal = <<>> PROVE ckpt.sv = Stored.ins
    <3>1. 1..Len(journal) = {} /\ ckpt.sv = ckpt.update.ins
      BY <2>1 DEF StoreInv
    <3> QED BY <3>1 DEF Stored
  <2> QED BY <1>1, <2>1
<1>6. StoreInv'
  BY <1>1, <1>2, <1>5 DEF StoreInv
<1>7. QueueInv'
  BY <1>1 DEF QueueInv, Queued
<1>8. SaveInv' /\ CallInv'
  BY <1>1, <1>2, <1>3, <1>4 DEF SaveInv, CallInv, Rewriting, Queued
<1>9. PendingInv'
  BY <1>1, <1>4, <1>5 DEF PendingInv
<1> QED BY <1>6, <1>7, <1>8, <1>9

\* An eviction loses memory and handlers, and nothing that was reported.
LEMMA EvictStep == IInv /\ TypeOK' /\ Evict => IInv'
<1> SUFFICES ASSUME IInv, TypeOK', Evict PROVE IInv'
  OBVIOUS
<1> USE DEF IInv
<1>1. /\ loaded' = FALSE /\ lastSV' = {} /\ queue' = <<>> /\ save'.phase = "idle"
      /\ status' = "healthy"
      /\ \A c \in Caller : caller'[c].pc = "idle"
      /\ UNCHANGED <<ckpt, journal, acked>>
  BY DEF Evict, NoSave, NoCall, stored
<1>2. Stored' = Stored
  BY <1>1, StoredSame
<1>3. StoreInv'
  BY <1>1, <1>2 DEF StoreInv
<1>4. Len(queue') = 0
  BY <1>1
<1>5. QueueInv'
  BY <1>1, <1>4 DEF QueueInv, Queued
<1>6. SaveInv' /\ CallInv' /\ PendingInv'
  BY <1>1, <1>2 DEF SaveInv, CallInv, PendingInv, Rewriting, Queued
<1> QED BY <1>3, <1>5, <1>6

\* A message or an RPC applies its update and joins the chain.
LEMMA StartStep ==
    ASSUME IInv, TypeOK', NEW c \in Caller,
           \/ \E u \in Submittable : ApplyAndSave(c, u)
           \/ SaveOnly(c) \/ CaptureSnapshot(c)
    PROVE  IInv'
<1>1. ASSUME NEW u \in Submittable, ApplyAndSave(c, u) PROVE IInv'
  <2>1. u \in Update
    BY DEF Submittable
  <2>2. /\ loaded /\ ~Queued(c) /\ EnqueueSave(c)
        /\ caller' = [caller EXCEPT ![c] = Awaiting("write", u, 0)]
        /\ doc'.ins = doc.ins \cup u.ins /\ doc.del \subseteq doc'.del
        /\ UNCHANGED <<loaded, lastSV, status, save, ckpt, journal, acked>>
    BY <1>1 DEF ApplyAndSave, Queued, Merge, stored
  <2> QED BY <2>1, <2>2, EnqueueStep
<1>2. ASSUME SaveOnly(c) \/ CaptureSnapshot(c) PROVE IInv'
  <2>1. /\ loaded /\ ~Queued(c) /\ EnqueueSave(c)
        /\ UNCHANGED <<doc, loaded, lastSV, status, save, ckpt, journal, acked>>
    BY <1>2 DEF SaveOnly, CaptureSnapshot, Queued, stored
  <2>2. PICK op, n : caller' = [caller EXCEPT ![c] = Awaiting(op, Empty, n)]
    BY <1>2 DEF SaveOnly, CaptureSnapshot
  <2>3. Empty \in Update /\ doc'.ins = doc.ins \cup Empty.ins
    BY <2>1, EmptyTypes DEF Empty
  <2> QED BY <2>1, <2>2, <2>3, EnqueueStep
<1> QED BY <1>1, <1>2

\* A handler whose save succeeded records, replies, captures or retries.
LEMMA HandlerStepInv ==
    ASSUME IInv, TypeOK', NEW c \in Caller, HandlerStep(c)
    PROVE  IInv'
<1>0. /\ caller \in [Caller -> CallRecord] /\ caller[c] \in CallRecord
      /\ loaded \in BOOLEAN
  BY DEF IInv, TypeOK, CallRecord
<1>1. caller[c].pc \in {"record", "reply"}
  BY DEF HandlerStep, Record, RecordFailed, Reply, CaptureDone, CaptureRetry
<1>2. loaded /\ ~Queued(c) /\ caller[c].update.ins \subseteq Stored.ins
  BY <1>0, <1>1 DEF IInv, StoreInv, CallInv, Queued
<1>3. acked.ins \subseteq Stored.ins /\ lastSV \subseteq Stored.ins
  BY DEF IInv, StoreInv, CallInv
<1>4. NoCall.pc = "idle"
  BY DEF NoCall
<1>5. CASE Record(c)
  <2>1. /\ caller' = [caller EXCEPT ![c] = At(caller[c], "reply")]
        /\ UNCHANGED <<memory, stored>> /\ acked' = acked
    BY <1>5 DEF Record
  <2>2. At(caller[c], "reply").pc = "reply" /\ At(caller[c], "reply").update = caller[c].update
    BY <1>0 DEF At, CallRecord
  <2> QED BY <1>2, <1>3, <2>1, <2>2, SettleStep
<1>6. CASE RecordFailed(c)
  BY <1>2, <1>3, <1>4, <1>6, SettleStep DEF RecordFailed
<1>7. CASE Reply(c)
  <2>1. acked'.ins = acked.ins \cup (lastSV \cup caller[c].update.ins)
    BY <1>7 DEF Reply, Merge, PersistedStateVector
  <2>2. acked'.ins \subseteq Stored.ins
    BY <1>2, <1>3, <2>1
  <2> QED BY <1>2, <1>4, <1>7, <2>2, SettleStep DEF Reply
<1>8. CASE CaptureDone(c)
  <2>1. acked'.ins = acked.ins \cup doc.ins /\ doc.ins = lastSV
    BY <1>8 DEF CaptureDone, Merge, EncodeStateVector
  <2>2. acked'.ins \subseteq Stored.ins
    BY <1>3, <2>1
  <2> QED BY <1>2, <1>4, <1>8, <2>2, SettleStep DEF CaptureDone
<1>9. CASE CaptureRetry(c)
  <2>1. UNCHANGED <<doc, loaded, lastSV, failures, status, save, ckpt, journal, acked>>
    BY <1>9 DEF CaptureRetry, stored
  <2>2. ASSUME EnqueueSave(c),
               caller' = [caller EXCEPT ![c] = Awaiting("capture", Empty, @.attempt + 1)]
        PROVE  IInv'
    <3>1. Empty \in Update /\ doc'.ins = doc.ins \cup Empty.ins
      BY <2>1, EmptyTypes DEF Empty
    <3> QED BY <1>2, <2>1, <2>2, <3>1, EnqueueStep
  <2>3. ASSUME caller' = [caller EXCEPT ![c] = NoCall], UNCHANGED <<queue, pending>>
        PROVE  IInv'
    <3>1. UNCHANGED <<memory, stored>>
      BY <2>1, <2>3 DEF memory, stored
    <3> QED BY <1>2, <1>3, <1>4, <2>1, <2>3, <3>1, SettleStep
  <2> QED BY <1>9, <2>2, <2>3 DEF CaptureRetry
<1> QED BY <1>5, <1>6, <1>7, <1>8, <1>9 DEF HandlerStep

\* Steps that touch neither the save path nor its reports keep the invariant.
LEMMA QuietStep ==
    ASSUME IInv, TypeOK', UNCHANGED <<memory, caller, stored, acked>>
    PROVE  IInv'
<1> USE DEF IInv
<1>0. /\ UNCHANGED <<doc, loaded, lastSV, status, pending, queue, save, caller>>
      /\ UNCHANGED <<ckpt, journal, acked>>
  BY DEF memory, stored
<1>1. Stored' = Stored
  BY <1>0, StoredSame
<1>2. StoreInv' /\ QueueInv'
  BY <1>0, <1>1 DEF StoreInv, QueueInv, Queued
<1>3. SaveInv'
  BY <1>0, <1>1 DEF SaveInv, Rewriting
<1>4. CallInv' /\ PendingInv'
  BY <1>0, <1>1 DEF CallInv, PendingInv, Waiting, Queued
<1> QED BY <1>2, <1>3, <1>4

\* Every step keeps the invariant.
LEMMA InvStep == IInv /\ [Next]_vars => IInv'
<1> SUFFICES ASSUME IInv, [Next]_vars PROVE IInv'
  OBVIOUS
<1>1. TypeOK'
  <2>1. ChainBusy
    BY DEF ChainBusy, IInv, SaveInv
  <2> QED BY <2>1, TypeStep DEF IInv
<1>2. CASE LoadDocument
  BY <1>1, <1>2, LoadDocumentStep
<1>3. CASE Evict
  BY <1>1, <1>3, EvictStep
<1>4. CASE SaveStep
  BY <1>1, <1>4, SaveSkippedStep, SaveStartedStep, AppendSucceededStep,
     AppendFailedStep, CheckpointCommittedStep, CheckpointFailedStep DEF SaveStep
<1>5. ASSUME NEW c \in Caller,
             \/ \E u \in Submittable : ApplyAndSave(c, u)
             \/ SaveOnly(c) \/ CaptureSnapshot(c)
      PROVE  IInv'
  BY <1>1, <1>5, StartStep
<1>6. ASSUME NEW c \in Caller, HandlerStep(c) PROVE IInv'
  BY <1>1, <1>6, HandlerStepInv
<1>7. CASE UNCHANGED vars
  <2>1. UNCHANGED <<memory, caller, stored, acked>>
    BY <1>7 DEF vars
  <2> QED BY <1>1, <2>1, QuietStep
<1> QED BY <1>2, <1>3, <1>4, <1>5, <1>6, <1>7 DEF Next

-----------------------------------------------------------------------------
(* The theorems *)

\* The invariant holds in every reachable state of the save path.
THEOREM Invariance == Spec => []IInv
  BY InitInv, InvStep, PTL DEF Spec

\* Type correctness of the save path.
THEOREM TypeCorrect == Spec => []TypeOK
<1>1. IInv => TypeOK
  BY DEF IInv
<1> QED BY <1>1, Invariance, PTL

\* No receipt, echo or snapshot runs ahead of storage.
THEOREM ReceiptsAreDurable == Spec => []ReceiptsDurable
<1>1. IInv => ReceiptsDurable
  BY DEF IInv, CallInv, ReceiptsDurable
<1> QED BY <1>1, Invariance, PTL

\* A coordinator with nothing pending has stored the whole document.
THEOREM NotPendingIsStored == Spec => []NotPendingMeansStored
<1>1. IInv => NotPendingMeansStored
  <2> SUFFICES ASSUME IInv, loaded, ~pending PROVE doc.ins \subseteq Stored.ins
    BY DEF NotPendingMeansStored
  <2>1. queue = <<>> /\ status = "healthy" /\ lastSV \subseteq Stored.ins
    BY DEF IInv, TypeOK, PendingInv, StoreInv
  <2>2. \A c \in Caller : ~Queued(c)
    <3>1. Len(queue) = 0
      BY <2>1
    <3> QED BY <3>1 DEF IInv, QueueInv
  <2> QED BY <2>1, <2>2 DEF IInv, PendingInv
<1> QED BY <1>1, Invariance, PTL

\* What a step does to storage and to what has been reported.
LEMMA StepMapping ==
    ASSUME IInv, IInv', [Next]_vars
    PROVE  /\ Stored.ins \subseteq Stored'.ins /\ Stored.del \subseteq Stored'.del
           /\ Stored'.ins \subseteq Struct /\ Stored'.del \subseteq Struct
           /\ \/ acked' = acked
              \/ /\ acked.ins \subseteq acked'.ins /\ acked'.ins \subseteq Stored.ins
                 /\ Stored' = Stored
<1>1. Stored'.ins \subseteq Struct /\ Stored'.del \subseteq Struct
  <2>1. Stored' \in Update
    BY StoredTypeNext DEF IInv
  <2> QED BY <2>1 DEF Update
<1>2. Stored.ins \subseteq Stored'.ins /\ Stored.del \subseteq Stored'.del
  <2>1. CASE UNCHANGED <<ckpt, journal>>
    BY <2>1, StoredSame
  <2>2. CASE save.phase = "append" /\ JournalAppend(save.update)
    <3>1. save.update \in Update
      BY DEF IInv, TypeOK
    <3> QED BY <2>2, <3>1, StoredAppend DEF IInv
  <2>3. CASE Rewriting /\ CheckpointRewrite(save.update, save.sv)
    BY <2>3, StoredRewrite DEF IInv, SaveInv
  <2>4. \/ UNCHANGED <<ckpt, journal>>
        \/ save.phase = "append" /\ JournalAppend(save.update)
        \/ Rewriting /\ CheckpointRewrite(save.update, save.sv)
    BY DEF Next, SaveStep, HandlerStep, LoadDocument, Evict, SaveSkipped,
           SaveStarted, AppendSucceeded, AppendFailed, CheckpointSucceeded,
           CheckpointFailed, CheckpointStatsFailed, ApplyAndSave, SaveOnly,
           CaptureSnapshot, Record, RecordFailed, Reply, CaptureDone, CaptureRetry,
           Rewriting, vars, stored
  <2> QED BY <2>1, <2>2, <2>3, <2>4
<1>3. \/ acked' = acked
      \/ \E c \in Caller : Reply(c) \/ CaptureDone(c)
  BY DEF Next, SaveStep, HandlerStep, LoadDocument, Evict, SaveSkipped,
         SaveStarted, AppendSucceeded, AppendFailed, CheckpointSucceeded,
         CheckpointFailed, CheckpointStatsFailed, ApplyAndSave, SaveOnly,
         CaptureSnapshot, Record, RecordFailed, CaptureRetry, vars
<1>4. ASSUME NEW c \in Caller, Reply(c) \/ CaptureDone(c)
      PROVE  /\ acked.ins \subseteq acked'.ins /\ acked'.ins \subseteq Stored.ins
             /\ Stored' = Stored
  <2>1. Stored' = Stored
    BY <1>4, StoredSame DEF Reply, CaptureDone, stored
  <2>2. acked'.ins \subseteq Stored.ins
    <3>1. (acked.ins \subseteq Stored.ins)'
      BY DEF IInv, CallInv
    <3> QED BY <2>1, <3>1
  <2>3. acked.ins \subseteq acked'.ins
    BY <1>4 DEF Reply, CaptureDone, Merge
  <2> QED BY <2>1, <2>2, <2>3
<1> QED BY <1>1, <1>2, <1>3, <1>4

\* Saves never take stored state away.
THEOREM StorageGrows == Spec => StoredOnlyGrows
<1>1. IInv /\ IInv' /\ [Next]_vars =>
        [/\ Stored.ins \subseteq Stored'.ins
         /\ Stored.del \subseteq Stored'.del]_vars
  BY StepMapping
<1> QED BY <1>1, Invariance, PTL DEF Spec, StoredOnlyGrows

\* The save path implements the promise of DurableVault.
THEOREM Implements == Spec => ImplementsDurableVault
<1>1. Init => Durable!Init
  <2> SUFFICES ASSUME Init PROVE Durable!Init
    OBVIOUS
  <2>1. 1..Len(journal) = {} /\ ckpt.update = Empty /\ acked = Empty
    BY DEF Init
  <2> QED BY <2>1 DEF Durable!Init, Stored, Empty
<1>2. IInv /\ IInv' /\ [Next]_vars => [Durable!Next]_(Durable!vars)
  <2> SUFFICES ASSUME IInv, IInv', [Next]_vars PROVE [Durable!Next]_(Durable!vars)
    OBVIOUS
  <2> QED BY StepMapping DEF Durable!Next, Durable!Store, Durable!Report, Durable!vars
<1> QED BY <1>1, <1>2, Invariance, PTL DEF Spec, ImplementsDurableVault, Durable!Spec

-----------------------------------------------------------------------------
(* ChunkedDocStore *)

-----------------------------------------------------------------------------
(* Chunks *)

\* The least member of a set of natural numbers.
LEMMA LeastIndex ==
    ASSUME NEW S \in SUBSET Nat, S # {}
    PROVE  \E n \in S : \A m \in S : n <= m
<1> DEFINE R == OpToRel(<, Nat)
<1>1. IsWellFoundedOn(R, Nat)
  BY NatLessThanWellFounded
<1>2. PICK n \in S : \A m \in S : ~ (<<m, n>> \in R)
  BY <1>1, WFMin
<1>3. \A m \in S : ~(m < n)
  BY <1>2 DEF OpToRel
<1> QED BY <1>3

\* g[i] is the concatenation of the first i of the sequences.
Joins(g, seqs) ==
    g = [i \in 1..Len(seqs) |-> IF i = 1 THEN seqs[i] ELSE g[i-1] \o seqs[i]]

\* What FlattenSeq chooses is the one function its recursion describes.
LEMMA FlattenIs ==
    ASSUME NEW seqs, Len(seqs) \in Nat \ {0}, NEW g, Joins(g, seqs)
    PROVE  FlattenSeq(seqs) = g[Len(seqs)]
<1> DEFINE n == Len(seqs)
           f == CHOOSE f : f = [i \in 1..n |-> IF i = 1 THEN seqs[i] ELSE f[i-1] \o seqs[i]]
<1>1. FlattenSeq(seqs) = f[n]
  BY DEF FlattenSeq
<1>2. f = [i \in 1..n |-> IF i = 1 THEN seqs[i] ELSE f[i-1] \o seqs[i]]
  <2>1. \E h : h = [i \in 1..n |-> IF i = 1 THEN seqs[i] ELSE h[i-1] \o seqs[i]]
    BY DEF Joins
  <2> QED BY <2>1
<1> HIDE DEF f
<1> DEFINE S == {i \in 1..n : f[i] # g[i]}
<1>3. ASSUME S # {} PROVE FALSE
  <2>1. S \in SUBSET Nat
    OBVIOUS
  <2> HIDE DEF S
  <2>2. PICK i \in S : \A j \in S : i <= j
    BY <1>3, <2>1, LeastIndex
  <2>3. i \in 1..n /\ f[i] # g[i] /\ (i # 1 => i - 1 \in 1..n /\ f[i-1] = g[i-1])
    BY <2>2 DEF S
  <2>4. f[i] = IF i = 1 THEN seqs[i] ELSE f[i-1] \o seqs[i]
    BY <1>2, <2>3
  <2>5. g[i] = IF i = 1 THEN seqs[i] ELSE g[i-1] \o seqs[i]
    BY <2>3 DEF Joins
  <2> QED BY <2>3, <2>4, <2>5
<1>4. n \in 1..n
  OBVIOUS
<1> QED BY <1>1, <1>3, <1>4

\* How many chunks hold these bytes, none of them empty.
LEMMA ChunkCountIs ==
    ASSUME NEW bytes \in Seq(Byte), NEW size \in Nat \ {0}, NEW c, c = ChunkCount(bytes, size)
    PROVE  /\ c \in Nat /\ c * size >= Len(bytes)
           /\ c = 0 <=> Len(bytes) = 0
           /\ c > 0 => (c - 1) * size < Len(bytes)
  BY DEF ChunkCount

\* Where a chunk ends.
End(bytes, size, i) == IF i * size < Len(bytes) THEN i * size ELSE Len(bytes)

\* Which bytes a chunk holds.
LEMMA ChunkAtIs ==
    ASSUME NEW bytes \in Seq(Byte), NEW size \in Nat \ {0},
           NEW i \in 0..(ChunkCount(bytes, size) - 1)
    PROVE  /\ ChunkAt(bytes, size, i) \in Seq(Byte)
           /\ Len(ChunkAt(bytes, size, i)) <= size
           /\ i < ChunkCount(bytes, size) - 1 => Len(ChunkAt(bytes, size, i)) = size
           /\ SubSeq(bytes, 1, End(bytes, size, i + 1))
                = SubSeq(bytes, 1, End(bytes, size, i)) \o ChunkAt(bytes, size, i)
<1> DEFINE c == ChunkCount(bytes, size)
           n == Len(bytes)
           a == i * size
           b == (i + 1) * size
           e == IF b < n THEN b ELSE n
<1>1. c \in Nat /\ (c - 1) * size < n /\ n \in Nat /\ size \in Nat /\ i \in Nat /\ i <= c - 1
  BY ChunkCountIs
<1> HIDE DEF c
<1>2. a \in Nat /\ b \in Nat /\ b = a + size
  BY <1>1
<1>3. a <= (c - 1) * size
  BY <1>1
<1>4. i < c - 1 => b <= (c - 1) * size
  BY <1>1
<1> HIDE DEF a, b
<1>5. a < n /\ (i < c - 1 => b < n)
  BY <1>1, <1>2, <1>3, <1>4
<1>6. e \in a + 1..n /\ e <= a + size /\ e \in Nat
  BY <1>1, <1>2, <1>5
<1>7. ChunkAt(bytes, size, i) = SubSeq(bytes, a + 1, e)
  BY DEF ChunkAt, a, b
<1>8. End(bytes, size, i + 1) = e /\ End(bytes, size, i) = a
  BY <1>5 DEF End, a, b
<1>9. /\ SubSeq(bytes, a + 1, e) \in Seq(Byte) /\ Len(SubSeq(bytes, a + 1, e)) = e - a
      /\ \A j \in 1..e - a : SubSeq(bytes, a + 1, e)[j] = bytes[a + j]
  BY <1>1, <1>2, <1>6
<1>10. /\ SubSeq(bytes, 1, a) \in Seq(Byte) /\ Len(SubSeq(bytes, 1, a)) = a
       /\ \A j \in 1..a : SubSeq(bytes, 1, a)[j] = bytes[j]
  BY <1>1, <1>2, <1>6
<1>11. /\ SubSeq(bytes, 1, e) \in Seq(Byte) /\ Len(SubSeq(bytes, 1, e)) = e
       /\ \A j \in 1..e : SubSeq(bytes, 1, e)[j] = bytes[j]
  BY <1>1, <1>2, <1>6
<1>12. SubSeq(bytes, 1, e) = SubSeq(bytes, 1, a) \o SubSeq(bytes, a + 1, e)
  <2>1. 1 \in 1..Len(bytes) + 1 /\ a \in 1 - 1..Len(bytes) /\ e \in a..Len(bytes)
    BY <1>1, <1>2, <1>5, <1>6
  <2> HIDE DEF e
  <2> QED BY <2>1, ConcatAdjacentSubSeq
<1>13. i < c - 1 => e - a = size
  BY <1>1, <1>2, <1>5
<1>14. /\ ChunkAt(bytes, size, i) \in Seq(Byte)
       /\ Len(ChunkAt(bytes, size, i)) <= size
       /\ i < c - 1 => Len(ChunkAt(bytes, size, i)) = size
  BY <1>1, <1>2, <1>6, <1>7, <1>9, <1>13
<1> QED BY <1>7, <1>8, <1>12, <1>14 DEF c

\* What a manifest describes is stored under its keys, as it was cut.
Faithful(family, id, d) ==
    /\ d.sha256 \in Payload /\ d.chunkSizeBytes \in Nat \ {0}
    /\ d.chunkCount = ChunkCount(d.sha256, d.chunkSizeBytes)
    /\ d.byteLength = Len(d.sha256)
    /\ \A i \in 0..(d.chunkCount - 1) :
          <<id, i>> \in DOMAIN family /\ family[<<id, i>>] = ChunkAt(d.sha256, d.chunkSizeBytes, i)

\* A payload is a sequence of bytes.
LEMMA PayloadIs == Payload \subseteq Seq(Byte)
  BY SizesAssumption DEF SizesAssumption

\* Chunks read back faithfully are the bytes they were cut from.
LEMMA FaithfulReassembles ==
    ASSUME NEW family, NEW id, NEW d, Faithful(family, id, d)
    PROVE  Reassembled(family, id, d) = d.sha256
<1> DEFINE bytes == d.sha256
           size == d.chunkSizeBytes
           c == d.chunkCount
           seqs == [i \in 1..c |-> family[<<id, i - 1>>]]
           g == [i \in 1..c |-> SubSeq(bytes, 1, End(bytes, size, i))]
<1>1. bytes \in Seq(Byte) /\ size \in Nat \ {0} /\ c = ChunkCount(bytes, size)
  BY PayloadIs DEF Faithful
<1>2. /\ c \in Nat /\ c * size >= Len(bytes) /\ Len(bytes) \in Nat
      /\ c = 0 <=> Len(bytes) = 0
  BY <1>1, ChunkCountIs
<1>3. \A i \in 1..c : i - 1 \in 0..(c - 1) /\ seqs[i] = ChunkAt(bytes, size, i - 1)
  BY <1>2 DEF Faithful
<1>4. Len(seqs) = c
  BY <1>2
<1>5. Reassembled(family, id, d) = FlattenSeq(seqs)
  BY DEF Reassembled
<1>6. CASE c = 0
  <2>1. Len(bytes) = 0 /\ seqs = <<>>
    BY <1>2, <1>6
  <2>2. bytes = <<>>
    BY <1>1, <2>1
  <2> HIDE DEF seqs
  <2> QED BY <1>4, <1>5, <1>6, <2>1, <2>2 DEF FlattenSeq
<1>7. CASE c # 0
  <2>1. ASSUME NEW i \in 1..c
        PROVE  g[i] = IF i = 1 THEN seqs[i] ELSE g[i-1] \o seqs[i]
    <3>1. i - 1 \in 0..(ChunkCount(bytes, size) - 1) /\ i \in Nat /\ (i - 1) + 1 = i
      BY <1>1, <1>2
    <3>2. /\ ChunkAt(bytes, size, i - 1) \in Seq(Byte)
          /\ SubSeq(bytes, 1, End(bytes, size, i))
                = SubSeq(bytes, 1, End(bytes, size, i - 1)) \o ChunkAt(bytes, size, i - 1)
      BY <1>1, <3>1, ChunkAtIs
    <3>3. seqs[i] = ChunkAt(bytes, size, i - 1)
      BY <1>3
    <3>4. g[i] = SubSeq(bytes, 1, End(bytes, size, i))
      OBVIOUS
    <3>5. CASE i = 1
      <4>1. End(bytes, size, i - 1) = 0
        BY <1>1, <1>2, <3>5 DEF End
      <4>2. SubSeq(bytes, 1, 0) = <<>>
        BY <1>1, SubSeqEmpty
      <4>3. <<>> \o ChunkAt(bytes, size, i - 1) = ChunkAt(bytes, size, i - 1)
        BY <3>2, ConcatEmptySeq
      <4> HIDE DEF g, seqs
      <4> QED BY <3>2, <3>3, <3>4, <3>5, <4>1, <4>2, <4>3
    <3>6. CASE i # 1
      <4>1. i - 1 \in 1..c
        BY <1>2, <3>6
      <4>2. g[i-1] = SubSeq(bytes, 1, End(bytes, size, i - 1))
        BY <4>1
      <4> HIDE DEF g, seqs
      <4> QED BY <3>2, <3>3, <3>4, <3>6, <4>2
    <3> QED BY <3>5, <3>6
  <2>2. g = [i \in 1..c |-> g[i]]
    OBVIOUS
  <2>3. Joins(g, seqs)
    <3> HIDE DEF g, seqs
    <3>1. g = [i \in 1..c |-> IF i = 1 THEN seqs[i] ELSE g[i-1] \o seqs[i]]
      BY <2>1, <2>2
    <3> QED BY <1>4, <3>1 DEF Joins
  <2>4. FlattenSeq(seqs) = g[c]
    <3> HIDE DEF g, seqs
    <3> QED BY <1>2, <1>4, <1>7, <2>3, FlattenIs
  <2>5. End(bytes, size, c) = Len(bytes)
    <3>1. c * size \in Nat
      BY <1>1, <1>2
    <3> QED BY <1>2, <3>1 DEF End
  <2>6. g[c] = SubSeq(bytes, 1, Len(bytes))
    BY <1>2, <1>7, <2>5
  <2>7. SubSeq(bytes, 1, Len(bytes)) = bytes
    BY <1>1, SubSeqFull
  <2> HIDE DEF g, seqs
  <2> QED BY <1>5, <2>4, <2>6, <2>7
<1> QED BY <1>6, <1>7

\* So is what a manifest reads.
LEMMA FaithfulReads ==
    ASSUME NEW family, NEW id, NEW d, Faithful(family, id, d)
    PROVE  PayloadReadable(family, id, d)
<1> DEFINE bytes == d.sha256
           size == d.chunkSizeBytes
           c == d.chunkCount
<1>1. bytes \in Seq(Byte) /\ size \in Nat \ {0} /\ c = ChunkCount(bytes, size)
  BY PayloadIs DEF Faithful
<1>2. c \in Nat
  BY <1>1, ChunkCountIs
<1>3. ChunkKeys(id, d) \subseteq DOMAIN family
  BY DEF Faithful, ChunkKeys
<1>4. ASSUME NEW i \in 0..(c - 1)
      PROVE  /\ i < c - 1 => Len(family[<<id, i>>]) = size
             /\ Len(family[<<id, i>>]) <= size
  <2>1. family[<<id, i>>] = ChunkAt(bytes, size, i)
    BY DEF Faithful
  <2> QED BY <1>1, <2>1, ChunkAtIs
<1>5. Reassembled(family, id, d) = bytes /\ Len(bytes) = d.byteLength
  BY FaithfulReassembles DEF Faithful
<1> QED BY <1>3, <1>4, <1>5 DEF PayloadReadable

-----------------------------------------------------------------------------
(* The inductive invariant *)

\* The journal as its manifests give it.
Updates == [i \in 1..meta.entryCount |-> entries[i].sha256]

\* The checkpoint's manifest describes the chunks that are stored.
CheckpointFits ==
    /\ pointer \in 0..MaxVersion
    /\ pointer # 0 => /\ manifests[pointer].version = pointer
                      /\ vectors[pointer] = manifests[pointer].stateVectorSha256
                      /\ Faithful(chunks, pointer, manifests[pointer])

\* Sequence numbers start at 1 after every checkpoint.
JournalFits ==
    /\ meta.entryCount \in Nat /\ meta.nextSeq = meta.entryCount + 1
    /\ \A seq \in 1..meta.entryCount :
          entries[seq].seq = seq /\ Faithful(entryChunks, seq, entries[seq])

\* totalBytes is the length of all updates together.
TotalFits ==
    \E g \in [1..meta.entryCount -> Seq(Byte)] :
       /\ Joins(g, Updates)
       /\ meta.totalBytes = IF meta.entryCount = 0 THEN 0 ELSE Len(g[meta.entryCount])

\* The inductive invariant of the store.
StoreIInv ==
    /\ chunkSize \in Nat \ {0}
    /\ NoOrphanKeys /\ CheckpointFits /\ JournalFits /\ TotalFits

\* What the store should load is a checkpoint and a journal.
LEMMA ExpectedIs ==
    ASSUME JournalFits
    PROVE  /\ ExpectedJournalSeqs = 1..meta.entryCount
           /\ Cardinality(ExpectedJournalSeqs) = meta.entryCount
           /\ meta.nextSeq - meta.entryCount = 1
<1>1. ExpectedJournalSeqs = 1..meta.entryCount /\ meta.nextSeq - meta.entryCount = 1
  BY DEF JournalFits, ExpectedJournalSeqs
<1>2. Cardinality(1..meta.entryCount) = meta.entryCount
  BY FS_Interval DEF JournalFits
<1> QED BY <1>1, <1>2

\* The updates of the journal, as their manifests give them.
LEMMA UpdatesAre ==
    ASSUME JournalFits
    PROVE  /\ Updates \in Seq(Payload) /\ Len(Updates) = meta.entryCount
           /\ LoadJournal = Updates
<1>1. \A i \in 1..meta.entryCount : entries[i].sha256 \in Payload
  BY DEF JournalFits, Faithful
<1>2. meta.entryCount \in Nat
  BY DEF JournalFits
<1>3. Updates \in Seq(Payload) /\ Len(Updates) = meta.entryCount
  BY <1>1, <1>2 DEF Updates
<1>4. ASSUME NEW i \in 1..meta.entryCount
      PROVE  LET seq == meta.nextSeq - meta.entryCount + i - 1
             IN  Reassembled(entryChunks, seq, entries[seq]) = entries[i].sha256
  <2>1. meta.nextSeq - meta.entryCount + i - 1 = i
    BY <1>2, ExpectedIs
  <2>2. Reassembled(entryChunks, i, entries[i]) = entries[i].sha256
    BY FaithfulReassembles DEF JournalFits
  <2> QED BY <2>1, <2>2
<1>5. LoadJournal = Updates
  BY <1>4, ExpectedIs DEF LoadJournal, Updates
<1> QED BY <1>3, <1>5

\* Under the invariant loading gives what was written.
LEMMA StoreReads ==
    ASSUME StoreIInv
    PROVE  /\ CheckpointReadable /\ JournalReadable
           /\ pointer # 0 => LoadCheckpoint = <<[update |-> manifests[pointer].sha256,
                                                 sv |-> vectors[pointer]]>>
<1>1. CheckpointReadable
  BY FaithfulReads DEF StoreIInv, NoOrphanKeys, CheckpointFits, CheckpointReadable
<1>2. pointer # 0 => LoadCheckpoint = <<[update |-> manifests[pointer].sha256,
                                         sv |-> vectors[pointer]]>>
  BY FaithfulReassembles DEF StoreIInv, CheckpointFits, LoadCheckpoint
<1>3. JournalListed
  BY ExpectedIs DEF StoreIInv, NoOrphanKeys, JournalFits, JournalListed
<1>4. \A seq \in ExpectedJournalSeqs : PayloadReadable(entryChunks, seq, entries[seq])
  BY ExpectedIs, FaithfulReads DEF StoreIInv, JournalFits
<1>5. Len(FlattenSeq(LoadJournal)) = meta.totalBytes
  <2>1. /\ LoadJournal = Updates /\ Len(Updates) = meta.entryCount /\ meta.entryCount \in Nat
        /\ Updates \in Seq(Payload)
    BY UpdatesAre DEF StoreIInv, JournalFits
  <2>2. PICK g \in [1..meta.entryCount -> Seq(Byte)] :
           /\ Joins(g, Updates)
           /\ meta.totalBytes = IF meta.entryCount = 0 THEN 0 ELSE Len(g[meta.entryCount])
    BY DEF StoreIInv, TotalFits
  <2>3. CASE meta.entryCount = 0
    BY <2>1, <2>2, <2>3 DEF FlattenSeq
  <2>4. CASE meta.entryCount # 0
    BY <2>1, <2>2, <2>4, FlattenIs
  <2> QED BY <2>3, <2>4
<1> QED BY <1>1, <1>2, <1>3, <1>4, <1>5 DEF JournalReadable

\* The invariant holds of the empty store.
LEMMA StoreInitInv == StoreInit => StoreIInv
<1> SUFFICES ASSUME StoreInit PROVE StoreIInv
  OBVIOUS
<1>1. /\ chunkSize \in Nat \ {0} /\ pointer = 0
      /\ meta.entryCount = 0 /\ meta.nextSeq = 1 /\ meta.totalBytes = 0
  BY SizesAssumption DEF StoreInit, SizesAssumption, EmptyJournalMeta
<1>2. /\ DOMAIN manifests = {} /\ DOMAIN vectors = {} /\ DOMAIN chunks = {}
      /\ DOMAIN entries = {} /\ DOMAIN entryChunks = {}
  BY DEF StoreInit, NoKeys
<1>3. JournalFits /\ CheckpointFits
  BY <1>1, SizesAssumption DEF JournalFits, CheckpointFits, SizesAssumption
<1>4. ExpectedJournalSeqs = {}
  BY <1>1, <1>3, ExpectedIs
<1>5. NoOrphanKeys
  BY <1>1, <1>2, <1>4 DEF NoOrphanKeys
<1>6. TotalFits
  <2> DEFINE g == [i \in 1..0 |-> <<>>]
  <2>1. g \in [1..meta.entryCount -> Seq(Byte)]
    BY <1>1
  <2>2. Len(Updates) = 0
    BY <1>1 DEF Updates
  <2>3. Joins(g, Updates)
    BY <2>2 DEF Joins
  <2> HIDE DEF g
  <2> QED BY <1>1, <2>1, <2>3 DEF TotalFits
<1> QED BY <1>1, <1>3, <1>5, <1>6 DEF StoreIInv

-----------------------------------------------------------------------------
(* Its steps *)

\* The manifest of a payload written now.
Describes(d, bytes) ==
    /\ d.sha256 = bytes /\ d.chunkSizeBytes = chunkSize
    /\ d.chunkCount = ChunkCount(bytes, chunkSize) /\ d.byteLength = Len(bytes)

\* A family of keys after a payload was put: the payload is there under its own
\* keys, and other keys keep their values.
LEMMA PutChunks ==
    ASSUME NEW family, NEW id, NEW bytes \in Payload, chunkSize \in Nat \ {0},
           NEW d, Describes(d, bytes)
    PROVE  LET g == Put(family, ChunksOf(id, bytes))
           IN  /\ Faithful(g, id, d)
               /\ DOMAIN g = DOMAIN family \cup ChunkKeys(id, d)
               /\ \A k \in DOMAIN family \ ChunkKeys(id, d) : g[k] = family[k]
<1> DEFINE new == ChunksOf(id, bytes)
           g == Put(family, ChunksOf(id, bytes))
<1> USE DEF Describes
<1>1. DOMAIN new = ChunkKeys(id, d)
  BY DEF ChunksOf, ChunkKeys
<1>2. \A i \in 0..(d.chunkCount - 1) :
         <<id, i>> \in DOMAIN new /\ new[<<id, i>>] = ChunkAt(bytes, chunkSize, i)
  BY DEF ChunksOf
<1> HIDE DEF new
<1>3. /\ DOMAIN g = DOMAIN family \cup DOMAIN new
      /\ \A k \in DOMAIN g : g[k] = IF k \in DOMAIN new THEN new[k] ELSE family[k]
  BY DEF Put, new
<1> HIDE DEF g
<1>4. Faithful(g, id, d)
  BY <1>2, <1>3 DEF Faithful
<1> QED BY <1>1, <1>3, <1>4 DEF g

\* Keys written elsewhere leave a manifest's chunks as they are.
LEMMA FaithfulKept ==
    ASSUME NEW f, NEW g, NEW id, NEW d, Faithful(f, id, d),
           \A k \in ChunkKeys(id, d) : k \in DOMAIN g /\ g[k] = f[k]
    PROVE  Faithful(g, id, d)
  BY DEF Faithful, ChunkKeys

\* The chunks of two entries, or of two versions, have different keys.
LEMMA KeysDiffer ==
    ASSUME NEW id, NEW d, NEW x, NEW y, id # x
    PROVE  ChunkKeys(id, d) \cap ChunkKeys(x, y) = {}
  BY DEF ChunkKeys

\* What an append writes.
LEMMA AppendFacts ==
    ASSUME StoreIInv, NEW bytes \in Payload, AppendUpdate(bytes)
    PROVE  LET n == meta.entryCount
           IN  /\ n \in Nat /\ meta' = [nextSeq |-> n + 2, entryCount |-> n + 1,
                                        totalBytes |-> meta.totalBytes + Len(bytes)]
               /\ DOMAIN entries' = 1..n + 1
               /\ \A s \in 1..n : entries'[s] = entries[s]
               /\ entries'[n + 1] = EntryManifest(n + 1, bytes)
               /\ entryChunks' = Put(entryChunks, ChunksOf(n + 1, bytes))
<1> DEFINE n == meta.entryCount
<1>1. n \in Nat /\ meta.nextSeq = n + 1 /\ ExpectedJournalSeqs = 1..n /\ DOMAIN entries = 1..n
  BY ExpectedIs DEF StoreIInv, JournalFits, NoOrphanKeys
<1>2. /\ entries' = Put(entries, [s \in {n + 1} |-> EntryManifest(n + 1, bytes)])
      /\ meta' = [nextSeq |-> n + 2, entryCount |-> n + 1,
                  totalBytes |-> meta.totalBytes + Len(bytes)]
      /\ entryChunks' = Put(entryChunks, ChunksOf(n + 1, bytes))
  BY <1>1 DEF AppendUpdate
<1>3. DOMAIN [s \in {n + 1} |-> EntryManifest(n + 1, bytes)] = {n + 1}
  OBVIOUS
<1>4. DOMAIN entries' = 1..n + 1
  BY <1>1, <1>2, <1>3 DEF Put
<1>5. \A s \in 1..n : entries'[s] = entries[s]
  BY <1>1, <1>2, <1>3 DEF Put
<1>6. entries'[n + 1] = EntryManifest(n + 1, bytes)
  BY <1>1, <1>2, <1>3 DEF Put
<1> QED BY <1>1, <1>2, <1>4, <1>5, <1>6

\* An append keeps the invariant.
LEMMA AppendFits ==
    ASSUME StoreIInv, NEW bytes \in Payload, AppendUpdate(bytes)
    PROVE  StoreIInv' /\ Updates' = Append(Updates, bytes)
<1> DEFINE n == meta.entryCount
           d == EntryManifest(n + 1, bytes)
<1>1. /\ n \in Nat /\ meta' = [nextSeq |-> n + 2, entryCount |-> n + 1,
                               totalBytes |-> meta.totalBytes + Len(bytes)]
      /\ DOMAIN entries' = 1..n + 1
      /\ \A s \in 1..n : entries'[s] = entries[s]
      /\ entries'[n + 1] = d
      /\ entryChunks' = Put(entryChunks, ChunksOf(n + 1, bytes))
  BY AppendFacts
<1>2. /\ chunkSize \in Nat \ {0} /\ UNCHANGED <<chunkSize, pointer, manifests, chunks, vectors>>
  BY DEF AppendUpdate, checkpointKeys, StoreIInv
<1>3. d.seq = n + 1 /\ d.sha256 = bytes /\ Describes(d, bytes)
  BY DEF EntryManifest, Describes
<1> HIDE DEF d
<1>4. /\ Faithful(entryChunks', n + 1, d)
      /\ DOMAIN entryChunks' = DOMAIN entryChunks \cup ChunkKeys(n + 1, d)
      /\ \A k \in DOMAIN entryChunks \ ChunkKeys(n + 1, d) : entryChunks'[k] = entryChunks[k]
  <2>1. PICK id : id = n + 1
    OBVIOUS
  <2>2. /\ Faithful(Put(entryChunks, ChunksOf(id, bytes)), id, d)
        /\ DOMAIN Put(entryChunks, ChunksOf(id, bytes)) = DOMAIN entryChunks \cup ChunkKeys(id, d)
        /\ \A k \in DOMAIN entryChunks \ ChunkKeys(id, d) :
              Put(entryChunks, ChunksOf(id, bytes))[k] = entryChunks[k]
    BY <1>2, <1>3, PutChunks
  <2> QED BY <1>1, <2>1, <2>2
<1>5. /\ DOMAIN entries = 1..n
      /\ DOMAIN entryChunks = UNION {ChunkKeys(s, entries[s]) : s \in 1..n}
      /\ \A s \in 1..n : entries[s].seq = s /\ Faithful(entryChunks, s, entries[s])
  BY ExpectedIs DEF StoreIInv, JournalFits, NoOrphanKeys
<1>6. JournalFits'
  <2>1. ASSUME NEW s \in 1..n PROVE entries'[s].seq = s /\ Faithful(entryChunks', s, entries'[s])
    <3>1. ChunkKeys(s, entries[s]) \cap ChunkKeys(n + 1, d) = {}
      BY <1>1, KeysDiffer
    <3>2. \A k \in ChunkKeys(s, entries[s]) :
             k \in DOMAIN entryChunks' /\ entryChunks'[k] = entryChunks[k]
      BY <1>4, <1>5, <3>1
    <3>3. Faithful(entryChunks', s, entries[s])
      BY <1>5, <3>2, FaithfulKept
    <3> QED BY <1>1, <1>5, <3>3
  <2>2. entries'[n + 1].seq = n + 1 /\ Faithful(entryChunks', n + 1, entries'[n + 1])
    BY <1>1, <1>3, <1>4
  <2>3. meta'.entryCount = n + 1 /\ meta'.nextSeq = n + 2
    BY <1>1
  <2> QED BY <1>1, <2>1, <2>2, <2>3 DEF JournalFits
<1>7. CheckpointFits'
  BY <1>2 DEF StoreIInv, CheckpointFits
<1>8. NoOrphanKeys'
  <2>1. ExpectedJournalSeqs' = 1..n + 1
    BY <1>1 DEF ExpectedJournalSeqs
  <2>2. DOMAIN entryChunks' = UNION {ChunkKeys(s, entries'[s]) : s \in 1..n + 1}
    <3> DEFINE new == {ChunkKeys(s, entries'[s]) : s \in 1..n + 1}
               old == {ChunkKeys(s, entries[s]) : s \in 1..n}
    <3>1. \A s \in 1..n : ChunkKeys(s, entries'[s]) = ChunkKeys(s, entries[s])
      BY <1>1
    <3>2. ChunkKeys(n + 1, entries'[n + 1]) = ChunkKeys(n + 1, d)
      BY <1>1
    <3>3. 1..n + 1 = 1..n \cup {n + 1}
      BY <1>1
    <3>4. new = old \cup {ChunkKeys(n + 1, d)}
      BY <3>1, <3>2, <3>3
    <3> HIDE DEF new, old
    <3>5. UNION new = (UNION old) \cup ChunkKeys(n + 1, d)
      BY <3>4
    <3>6. DOMAIN entryChunks' = UNION new
      BY <1>4, <1>5, <3>5 DEF old
    <3> QED BY <3>6 DEF new
  <2>3. /\ DOMAIN manifests' = {pointer'} \ {0} /\ DOMAIN vectors' = {pointer'} \ {0}
        /\ DOMAIN chunks' = UNION {ChunkKeys(v, manifests'[v]) : v \in DOMAIN manifests'}
    BY <1>2 DEF StoreIInv, NoOrphanKeys
  <2> QED BY <1>1, <2>1, <2>2, <2>3 DEF NoOrphanKeys
<1>9. Updates' = Append(Updates, bytes)
  <2>1. Updates' = [i \in 1..n + 1 |-> entries'[i].sha256]
    BY <1>1 DEF Updates
  <2>2. Updates \in Seq(Payload) /\ Len(Updates) = n
    BY UpdatesAre DEF StoreIInv
  <2>3. \A i \in 1..n : Updates'[i] = Updates[i]
    BY <1>1, <2>1 DEF Updates
  <2>4. Updates'[n + 1] = bytes
    BY <1>1, <1>3, <2>1
  <2>5. Append(Updates, bytes) = [i \in 1..n + 1 |-> IF i <= n THEN Updates[i] ELSE bytes]
    <3> DEFINE s == Append(Updates, bytes)
    <3>1. s \in Seq(Payload) /\ Len(s) = n + 1 /\ s[n + 1] = bytes
          /\ \A i \in 1..n : s[i] = Updates[i]
      BY <1>1, <2>2, AppendProperties
    <3> HIDE DEF s
    <3>2. s = [i \in 1..n + 1 |-> s[i]]
      BY <3>1
    <3>3. \A i \in 1..n + 1 : s[i] = IF i <= n THEN Updates[i] ELSE bytes
      BY <1>1, <3>1
    <3> QED BY <3>2, <3>3 DEF s
  <2>6. \A i \in 1..n + 1 : Updates'[i] = IF i <= n THEN Updates[i] ELSE bytes
    BY <1>1, <2>3, <2>4
  <2>7. Updates' = [i \in 1..n + 1 |-> Updates'[i]]
    BY <2>1
  <2> QED BY <2>5, <2>6, <2>7
<1>10. TotalFits'
  <2>1. PICK g \in [1..n -> Seq(Byte)] :
           /\ Joins(g, Updates) /\ meta.totalBytes = IF n = 0 THEN 0 ELSE Len(g[n])
    BY DEF StoreIInv, TotalFits
  <2> DEFINE last == IF n = 0 THEN bytes ELSE g[n] \o bytes
             h == [i \in 1..n + 1 |-> IF i <= n THEN g[i] ELSE last]
  <2>2. Updates \in Seq(Payload) /\ Len(Updates) = n /\ bytes \in Seq(Byte)
    BY UpdatesAre, PayloadIs DEF StoreIInv
  <2>3. Updates' \in Seq(Payload) /\ Len(Updates') = n + 1 /\ Updates'[n + 1] = bytes
        /\ \A i \in 1..n : Updates'[i] = Updates[i]
    BY <1>1, <1>9, <2>2
  <2>4. last \in Seq(Byte) /\ Len(last) = meta.totalBytes + Len(bytes)
    <3>1. CASE n = 0
      BY <2>1, <2>2, <3>1
    <3>2. CASE n # 0
      <4>1. g[n] \in Seq(Byte)
        BY <1>1, <3>2
      <4> QED BY <2>1, <2>2, <3>2, <4>1, ConcatProperties
    <3> QED BY <3>1, <3>2
  <2> HIDE DEF last
  <2>5. h \in [1..n + 1 -> Seq(Byte)]
    BY <1>1, <2>4
  <2>6. ASSUME NEW i \in 1..n + 1
        PROVE  h[i] = IF i = 1 THEN Updates'[i] ELSE h[i-1] \o Updates'[i]
    <3>1. CASE i <= n
      <4>1. i \in 1..n /\ h[i] = g[i] /\ (i # 1 => i - 1 \in 1..n + 1 /\ h[i-1] = g[i-1])
        BY <1>1, <3>1
      <4>2. g[i] = IF i = 1 THEN Updates[i] ELSE g[i-1] \o Updates[i]
        BY <2>1, <2>2, <4>1 DEF Joins
      <4> HIDE DEF h
      <4> QED BY <2>3, <4>1, <4>2
    <3>2. CASE i = n + 1
      <4>1. h[i] = last /\ (i # 1 => i - 1 \in 1..n + 1 /\ n # 0 /\ h[i-1] = g[n])
        BY <1>1, <3>2
      <4>2. i = 1 => n = 0
        BY <1>1, <3>2
      <4> HIDE DEF h
      <4> QED BY <2>3, <3>2, <4>1, <4>2 DEF last
    <3> QED BY <1>1, <3>1, <3>2
  <2>7. h = [i \in 1..n + 1 |-> h[i]]
    OBVIOUS
  <2>8. h[n + 1] = last
    BY <1>1
  <2> HIDE DEF h
  <2>9. h = [i \in 1..n + 1 |-> IF i = 1 THEN Updates'[i] ELSE h[i-1] \o Updates'[i]]
    BY <2>6, <2>7
  <2>10. h = [i \in 1..Len(Updates') |-> IF i = 1 THEN Updates'[i] ELSE h[i-1] \o Updates'[i]]
    BY <2>3, <2>9
  <2>11. meta'.entryCount = n + 1 /\ meta'.totalBytes = Len(h[n + 1])
    BY <1>1, <2>4, <2>8
  <2>12. Joins(h, Updates') /\ h \in [1..meta'.entryCount -> Seq(Byte)]
    BY <2>5, <2>10, <2>11 DEF Joins
  <2>13. meta'.totalBytes = IF meta'.entryCount = 0 THEN 0 ELSE Len(h[meta'.entryCount])
    BY <1>1, <2>11
  <2> QED BY <2>12, <2>13 DEF TotalFits
<1> QED BY <1>2, <1>6, <1>7, <1>8, <1>9, <1>10 DEF StoreIInv

\* A new checkpoint keeps the invariant.
LEMMA RewriteFits ==
    ASSUME StoreIInv, NEW bytes \in Payload, NEW sv \in StateVector, RewriteCheckpoint(bytes, sv)
    PROVE  /\ StoreIInv' /\ Updates' = <<>>
           /\ pointer' # 0 /\ manifests'[pointer'].sha256 = bytes /\ vectors'[pointer'] = sv
<1> DEFINE v == pointer + 1
           d == CheckpointManifest(v, bytes, sv)
           g == Put(chunks, ChunksOf(v, bytes))
<1>1. /\ pointer \in 0..MaxVersion /\ v \in 1..MaxVersion /\ v # pointer /\ pointer' = v
      /\ chunkSize \in Nat \ {0} /\ chunkSize' = chunkSize
  BY SizesAssumption DEF StoreIInv, CheckpointFits, RewriteCheckpoint, SizesAssumption
<1>2. d.version = v /\ d.sha256 = bytes /\ d.stateVectorSha256 = sv /\ Describes(d, bytes)
  BY DEF CheckpointManifest, Describes
<1>3. /\ manifests' = Delete(Put(manifests, [k \in {v} |-> d]), {pointer})
      /\ vectors' = Delete(Put(vectors, [k \in {v} |-> sv]), {pointer})
      /\ chunks' = Delete(g, OldChunks)
      /\ meta' = EmptyJournalMeta
      /\ entries' = Delete(entries, ExpectedJournalSeqs)
      /\ entryChunks' = Delete(entryChunks, OldEntryChunks)
  BY DEF RewriteCheckpoint
<1>4. DOMAIN manifests \subseteq {pointer} /\ DOMAIN vectors \subseteq {pointer}
  BY DEF StoreIInv, NoOrphanKeys
<1> HIDE DEF d
<1>5. DOMAIN manifests' = {v} /\ manifests'[v] = d
  <2>1. DOMAIN [k \in {v} |-> d] = {v}
    OBVIOUS
  <2> QED BY <1>1, <1>3, <1>4, <2>1 DEF Put, Delete
<1>6. DOMAIN vectors' = {v} /\ vectors'[v] = sv
  <2>1. DOMAIN [k \in {v} |-> sv] = {v}
    OBVIOUS
  <2> QED BY <1>1, <1>3, <1>4, <2>1 DEF Put, Delete
<1>7. DOMAIN chunks' = ChunkKeys(v, d) /\ Faithful(chunks', v, d)
  <2>1. Faithful(g, v, d) /\ DOMAIN g = DOMAIN chunks \cup ChunkKeys(v, d)
    <3>1. PICK id : id = v
      OBVIOUS
    <3>2. /\ Faithful(Put(chunks, ChunksOf(id, bytes)), id, d)
          /\ DOMAIN Put(chunks, ChunksOf(id, bytes)) = DOMAIN chunks \cup ChunkKeys(id, d)
      <4>1. chunkSize \in Nat \ {0} /\ Describes(d, bytes)
        BY <1>1, <1>2
      <4> QED BY <4>1, PutChunks
    <3> QED BY <3>1, <3>2
  <2>2. DOMAIN chunks = OldChunks
    BY DEF StoreIInv, NoOrphanKeys, OldChunks
  <2>3. OldChunks \cap ChunkKeys(v, d) = {}
    BY <1>1, KeysDiffer DEF OldChunks
  <2> HIDE DEF g
  <2>4. DOMAIN chunks' = ChunkKeys(v, d) /\ \A k \in ChunkKeys(v, d) : chunks'[k] = g[k]
    BY <1>3, <2>1, <2>2, <2>3 DEF Delete
  <2> QED BY <2>1, <2>4, FaithfulKept
<1>8. CheckpointFits'
  BY <1>1, <1>2, <1>5, <1>6, <1>7 DEF CheckpointFits
<1>9. meta'.entryCount = 0 /\ meta'.nextSeq = 1 /\ meta'.totalBytes = 0
  BY <1>3 DEF EmptyJournalMeta
<1>10. JournalFits'
  BY <1>9 DEF JournalFits
<1>11. DOMAIN entries' = {} /\ DOMAIN entryChunks' = {}
  <2>1. DOMAIN entries = ExpectedJournalSeqs /\ DOMAIN entryChunks = OldEntryChunks
    BY DEF StoreIInv, NoOrphanKeys, OldEntryChunks
  <2> QED BY <1>3, <2>1 DEF Delete
<1>12. NoOrphanKeys'
  <2>1. ExpectedJournalSeqs' = {}
    BY <1>9 DEF ExpectedJournalSeqs
  <2>2. DOMAIN manifests' = {pointer'} \ {0} /\ DOMAIN vectors' = {pointer'} \ {0}
    BY <1>1, <1>5, <1>6
  <2>3. DOMAIN chunks' = UNION {ChunkKeys(w, manifests'[w]) : w \in DOMAIN manifests'}
    BY <1>5, <1>7
  <2> QED BY <1>11, <2>1, <2>2, <2>3 DEF NoOrphanKeys
<1>13. Updates' = <<>>
  BY <1>9 DEF Updates
<1>14. TotalFits'
  <2> DEFINE h == [i \in 1..0 |-> <<>>]
  <2>1. h \in [1..meta'.entryCount -> Seq(Byte)]
    BY <1>9
  <2>2. h = [i \in 1..Len(Updates') |-> IF i = 1 THEN Updates'[i] ELSE h[i-1] \o Updates'[i]]
    BY <1>13
  <2> HIDE DEF h
  <2> QED BY <1>9, <2>1, <2>2 DEF TotalFits, Joins
<1> QED BY <1>1, <1>2, <1>5, <1>6, <1>8, <1>10, <1>12, <1>13, <1>14 DEF StoreIInv

\* A restart with another chunk size keeps it.
LEMMA RestartFits ==
    ASSUME StoreIInv, NEW size \in ChunkSizes, Restart(size)
    PROVE  StoreIInv' /\ UNCHANGED <<checkpointKeys, journalKeys>>
<1>1. chunkSize' \in Nat \ {0} /\ UNCHANGED <<checkpointKeys, journalKeys>>
  BY SizesAssumption DEF Restart, SizesAssumption
<1>2. UNCHANGED <<pointer, manifests, chunks, vectors, meta, entries, entryChunks>>
  BY <1>1 DEF checkpointKeys, journalKeys
<1>3. NoOrphanKeys'
  BY <1>2 DEF StoreIInv, NoOrphanKeys, ExpectedJournalSeqs
<1>4. CheckpointFits' /\ JournalFits'
  BY <1>2 DEF StoreIInv, CheckpointFits, JournalFits
<1>5. Updates' = Updates
  BY <1>2 DEF Updates
<1>6. TotalFits'
  BY <1>2, <1>5 DEF StoreIInv, TotalFits
<1> QED BY <1>1, <1>3, <1>4, <1>6 DEF StoreIInv

\* Every step keeps it.
LEMMA StoreNextInv == StoreIInv /\ [StoreNext]_storeVars => StoreIInv'
<1> SUFFICES ASSUME StoreIInv, [StoreNext]_storeVars PROVE StoreIInv'
  OBVIOUS
<1>1. CASE UNCHANGED storeVars
  <2>1. UNCHANGED <<chunkSize, pointer, manifests, chunks, vectors, meta, entries, entryChunks>>
    BY <1>1 DEF storeVars, checkpointKeys, journalKeys
  <2>2. NoOrphanKeys' /\ Updates' = Updates
    BY <2>1 DEF StoreIInv, NoOrphanKeys, ExpectedJournalSeqs, Updates
  <2>3. CheckpointFits' /\ JournalFits'
    BY <2>1 DEF StoreIInv, CheckpointFits, JournalFits
  <2> QED BY <2>1, <2>2, <2>3 DEF StoreIInv, TotalFits
<1> QED BY <1>1, AppendFits, RewriteFits, RestartFits DEF StoreNext

(***************************************************************************)
(* Whatever is appended and checkpointed and whatever chunk size a restart *)
(* brings (chunkedDocStore.ts), the manifests describe the chunks that are *)
(* stored, sequence numbers start at 1 after every checkpoint, and the     *)
(* total is the length of all updates.                                     *)
(***************************************************************************)
THEOREM StoreInvariance == StoreSpec => []StoreIInv
  BY StoreInitInv, StoreNextInv, PTL DEF StoreSpec

(***************************************************************************)
(* Loading never fails: loadLatestCheckpoint and loadJournal of            *)
(* chunkedDocStore.ts accept what appendUpdate and rewriteCheckpoint       *)
(* wrote, under any chunk sizes, for all byte strings.                     *)
(***************************************************************************)
THEOREM StoreLoads == StoreSpec => []AlwaysLoads
<1>1. StoreIInv => AlwaysLoads
  BY StoreReads DEF AlwaysLoads
<1> QED BY StoreInvariance, <1>1, PTL

(***************************************************************************)
(* rewriteCheckpoint deletes the chunks and manifests it replaces: no key  *)
(* is left that no manifest accounts for.                                  *)
(***************************************************************************)
THEOREM NothingLeftBehind == StoreSpec => []NoOrphanKeys
<1>1. StoreIInv => NoOrphanKeys
  BY DEF StoreIInv
<1> QED BY StoreInvariance, <1>1, PTL

-----------------------------------------------------------------------------
(* The refinement *)

\* The mapped state.
Checkpoint == IF CheckpointReadable THEN LoadCheckpoint ELSE <<"unreadable">>
Journal == IF JournalReadable THEN LoadJournal ELSE <<"unreadable">>

\* What the mapped state is under the invariant,
LEMMA Mapped ==
    ASSUME StoreIInv
    PROVE  /\ Journal = Updates
           /\ Checkpoint = IF pointer = 0 THEN <<>>
                           ELSE <<[update |-> manifests[pointer].sha256, sv |-> vectors[pointer]]>>
<1>1. Journal = Updates
  BY StoreReads, UpdatesAre DEF Journal, StoreIInv
<1>2. Checkpoint = LoadCheckpoint
  BY StoreReads DEF Checkpoint
<1>3. CASE pointer = 0
  BY <1>1, <1>2, <1>3 DEF LoadCheckpoint
<1>4. CASE pointer # 0
  BY <1>1, <1>2, <1>4, StoreReads
<1> QED BY <1>3, <1>4

\* and after a step.
LEMMA MappedNext == (StoreIInv =>
           /\ Journal = Updates
           /\ Checkpoint = IF pointer = 0 THEN <<>>
                           ELSE <<[update |-> manifests[pointer].sha256, sv |-> vectors[pointer]]>>)'
  BY Mapped, PTL

\* The empty store is an empty DocStore.
LEMMA InitImplements == StoreInit => Abstract!Init
<1> SUFFICES ASSUME StoreInit PROVE Checkpoint = <<>> /\ Journal = <<>>
  BY DEF Abstract!Init, Checkpoint, Journal
<1>1. pointer = 0 /\ meta.entryCount = 0
  BY DEF StoreInit, EmptyJournalMeta
<1>2. Updates = <<>>
  BY <1>1 DEF Updates
<1> QED BY <1>1, <1>2, StoreInitInv, Mapped

\* Every step is a step of DocStore, or changes nothing it sees.
LEMMA NextImplements ==
    StoreIInv /\ [StoreNext]_storeVars => [Abstract!Next]_(Abstract!vars)
<1> SUFFICES ASSUME StoreIInv, [StoreNext]_storeVars
             PROVE  \/ \E u \in Payload : Journal' = Append(Journal, u) /\ Checkpoint' = Checkpoint
                    \/ \E u \in Payload, sv \in StateVector :
                          Checkpoint' = <<[update |-> u, sv |-> sv]>> /\ Journal' = <<>>
                    \/ Checkpoint' = Checkpoint /\ Journal' = Journal
  BY DEF Abstract!Next, Abstract!AppendUpdate, Abstract!RewriteCheckpoint, Abstract!vars,
         Checkpoint, Journal
<1>1. StoreIInv'
  BY StoreNextInv
<1>2. ASSUME UNCHANGED <<pointer, manifests, vectors>> PROVE Checkpoint' = Checkpoint
  BY <1>1, <1>2, Mapped, MappedNext
<1>3. ASSUME NEW bytes \in Payload, AppendUpdate(bytes)
      PROVE  Journal' = Append(Journal, bytes) /\ Checkpoint' = Checkpoint
  <2>1. Updates' = Append(Updates, bytes)
    BY <1>3, AppendFits
  <2>2. UNCHANGED <<pointer, manifests, vectors>>
    BY <1>3 DEF AppendUpdate, checkpointKeys
  <2> QED BY <1>1, <1>2, <2>1, <2>2, Mapped, MappedNext
<1>4. ASSUME NEW bytes \in Payload, NEW sv \in StateVector, RewriteCheckpoint(bytes, sv)
      PROVE  Checkpoint' = <<[update |-> bytes, sv |-> sv]>> /\ Journal' = <<>>
  <2>1. /\ Updates' = <<>> /\ pointer' # 0
        /\ manifests'[pointer'].sha256 = bytes /\ vectors'[pointer'] = sv
    BY <1>4, RewriteFits
  <2> QED BY <1>1, <2>1, MappedNext
<1>5. ASSUME NEW size \in ChunkSizes, Restart(size)
      PROVE  Checkpoint' = Checkpoint /\ Journal' = Journal
  <2>1. UNCHANGED <<pointer, manifests, vectors, meta, entries>>
    BY <1>5 DEF Restart, checkpointKeys, journalKeys
  <2>2. Updates' = Updates
    BY <2>1 DEF Updates
  <2> QED BY <1>1, <1>2, <2>1, <2>2, Mapped, MappedNext
<1>6. ASSUME UNCHANGED storeVars
      PROVE  Checkpoint' = Checkpoint /\ Journal' = Journal
  <2>1. UNCHANGED <<pointer, manifests, vectors, meta, entries>>
    BY <1>6 DEF storeVars, checkpointKeys, journalKeys
  <2>2. Updates' = Updates
    BY <2>1 DEF Updates
  <2> QED BY <1>1, <1>2, <2>1, <2>2, Mapped, MappedNext
<1> QED BY <1>3, <1>4, <1>5, <1>6 DEF StoreNext

(***************************************************************************)
(* Keys in chunks are a checkpoint and a journal: every call of            *)
(* chunkedDocStore.ts is an append or a rewrite of DocStore, which         *)
(* VaultPersistence is built on, or changes nothing of it.                 *)
(***************************************************************************)
THEOREM StoreImplements == StoreSpec => ImplementsDocStore
<1>1. StoreSpec => Abstract!Init /\ [][Abstract!Next]_(Abstract!vars)
  BY InitImplements, NextImplements, StoreInvariance, PTL DEF StoreSpec
<1> QED BY <1>1 DEF ImplementsDocStore, Abstract!Spec

=============================================================================
