-------------------------- MODULE ChunkedDocStore --------------------------
(***************************************************************************)
(* How ChunkedDocStore keeps a checkpoint and a journal in the Durable     *)
(* Object's key-value storage: a pointer to the current checkpoint version,*)
(* per version a manifest, a state vector and chunks, a journal record     *)
(* with the next sequence number, per entry a manifest and chunks.         *)
(*                                                                         *)
(* Each writing operation is one storage transaction, which commits as a   *)
(* whole or not at all.  A byte string is a short sequence; a SHA-256 is   *)
(* the string it was taken of.  Each family of keys is a function from the *)
(* keys that are present; batching a transaction's puts and deletes by     *)
(* maxKeysPerOperation changes nothing another transaction can see.        *)
(***************************************************************************)
EXTENDS Integers, SequencesExt

CONSTANTS
    Payload,        \* byte strings clients store, as sequences
    StateVector,    \* state vectors, kept under a key of their own
    ChunkSizes,     \* values of chunkSizeBytes over the store's life
    MaxVersion,     \* bound: checkpoints explored
    MaxSeq          \* bound: journal entries explored

Byte == 0..255

ASSUME SizesAssumption ==
    /\ Payload \subseteq Seq(Byte)
    /\ ChunkSizes \subseteq Nat \ {0} /\ ChunkSizes # {}
    /\ MaxVersion \in Nat
    /\ MaxSeq \in Nat

VARIABLES
    chunkSize,      \* chunkSizeBytes of the running instance
    pointer,        \* CHECKPOINT_POINTER_KEY: a version, 0 when absent
    manifests,      \* version -> checkpoint manifest
    chunks,         \* <<version, index>> -> bytes
    vectors,        \* version -> state vector
    meta,           \* JOURNAL_META_KEY
    entries,        \* seq -> journal entry manifest
    entryChunks     \* <<seq, index>> -> bytes

checkpointKeys == <<pointer, manifests, chunks, vectors>>
journalKeys == <<meta, entries, entryChunks>>
storeVars == <<chunkSize, checkpointKeys, journalKeys>>

EmptyJournalMeta == [nextSeq |-> 1, entryCount |-> 0, totalBytes |-> 0]

NoKeys == [k \in {} |-> <<>>]

\* storage.put and storage.delete on one family of keys.
Put(family, new) ==
    [k \in DOMAIN family \cup DOMAIN new |->
        IF k \in DOMAIN new THEN new[k] ELSE family[k]]

Delete(family, keys) == [k \in DOMAIN family \ keys |-> family[k]]

-----------------------------------------------------------------------------
(* Payloads in chunks *)

\* (mutant) the last, shorter chunk is forgotten
FullChunkCount(bytes, size) == Len(bytes) \div size

ChunkCount(bytes, size) == (Len(bytes) + size - 1) \div size

\* putChunkedPayloadBatched: chunk i holds bytes i*size .. (i+1)*size - 1.
ChunkAt(bytes, size, i) ==
    SubSeq(bytes, i * size + 1,
           IF (i + 1) * size < Len(bytes) THEN (i + 1) * size ELSE Len(bytes))

ChunksOf(id, bytes) ==
    [k \in {<<id, i>> : i \in 0..(ChunkCount(bytes, chunkSize) - 1)} |->
        ChunkAt(bytes, chunkSize, k[2])]

\* The manifests of a journal entry and of a checkpoint.
EntryManifest(seq, bytes) ==
    [seq |-> seq, chunkCount |-> ChunkCount(bytes, chunkSize), chunkSizeBytes |-> chunkSize,
     byteLength |-> Len(bytes), sha256 |-> bytes]

CheckpointManifest(v, bytes, sv) ==
    [version |-> v, chunkCount |-> ChunkCount(bytes, chunkSize), chunkSizeBytes |-> chunkSize,
     byteLength |-> Len(bytes), sha256 |-> bytes, stateVectorSha256 |-> sv]

ChunkKeys(id, d) == {<<id, i>> : i \in 0..(d.chunkCount - 1)}

Reassembled(family, id, d) ==
    FlattenSeq([i \in 1..d.chunkCount |-> family[<<id, i - 1>>]])

\* readChunkedPayload does not throw: every chunk is there and full (the
\* last may be shorter), and length and hash are the manifest's.
PayloadReadable(family, id, d) ==
    /\ ChunkKeys(id, d) \subseteq DOMAIN family
    /\ \A i \in 0..(d.chunkCount - 1) :
         LET size == Len(family[<<id, i>>])
         IN  IF i < d.chunkCount - 1
             THEN size = d.chunkSizeBytes
             ELSE size <= d.chunkSizeBytes
    /\ LET bytes == Reassembled(family, id, d)
       IN  Len(bytes) = d.byteLength /\ bytes = d.sha256

-----------------------------------------------------------------------------
(* Reading the store back *)

ExpectedJournalSeqs == (meta.nextSeq - meta.entryCount)..(meta.nextSeq - 1)

CheckpointReadable ==
    pointer # 0 =>
        /\ pointer \in DOMAIN manifests
        /\ manifests[pointer].version = pointer
        /\ PayloadReadable(chunks, pointer, manifests[pointer])
        /\ pointer \in DOMAIN vectors
        /\ vectors[pointer] = manifests[pointer].stateVectorSha256

LoadCheckpoint ==
    IF pointer = 0 THEN <<>>
    ELSE <<[update |-> Reassembled(chunks, pointer, manifests[pointer]),
            sv |-> vectors[pointer]]>>

\* The journal passes expectedJournalSeqs and has a valid manifest per entry.
JournalListed ==
    /\ meta.nextSeq - meta.entryCount >= 1
    /\ ExpectedJournalSeqs \subseteq DOMAIN entries
    /\ \A seq \in ExpectedJournalSeqs : entries[seq].seq = seq

\* (mutant) entries are replayed newest first
LoadNewestFirst ==
    [i \in 1..Cardinality(ExpectedJournalSeqs) |->
        LET seq == meta.nextSeq - i
        IN  Reassembled(entryChunks, seq, entries[seq])]

LoadJournal ==
    [i \in 1..Cardinality(ExpectedJournalSeqs) |->
        LET seq == meta.nextSeq - meta.entryCount + i - 1
        IN  Reassembled(entryChunks, seq, entries[seq])]

JournalReadable ==
    /\ JournalListed
    /\ \A seq \in ExpectedJournalSeqs : PayloadReadable(entryChunks, seq, entries[seq])
    /\ Len(FlattenSeq(LoadJournal)) = meta.totalBytes

-----------------------------------------------------------------------------
(* Writing *)

\* An empty update leaves the transaction early.
AppendUpdate(bytes) ==
    /\ meta.nextSeq <= MaxSeq
    /\ bytes # <<>>
    /\ LET seq == meta.nextSeq
       IN  /\ entryChunks' = Put(entryChunks, ChunksOf(seq, bytes))
           /\ entries' = Put(entries, [s \in {seq} |-> EntryManifest(seq, bytes)])
           /\ meta' = [nextSeq |-> seq + 1,
                       entryCount |-> meta.entryCount + 1,
                       totalBytes |-> meta.totalBytes + Len(bytes)]
    /\ UNCHANGED <<chunkSize, checkpointKeys>>

\* (mutant) the chunks of the replaced checkpoint stay behind
NoOldChunks == {}

\* cleanupKeys of the replaced checkpoint and of the journal.
OldChunks ==
    IF pointer = 0 THEN {} ELSE ChunkKeys(pointer, manifests[pointer])

OldEntryChunks ==
    UNION {ChunkKeys(seq, entries[seq]) : seq \in ExpectedJournalSeqs}

\* The transaction throws unless the old pointer, its manifest and every
\* journal manifest it is about to replace are there and valid.
RewriteCheckpoint(bytes, sv) ==
    /\ pointer < MaxVersion
    /\ pointer # 0 => pointer \in DOMAIN manifests
    /\ meta.entryCount > 0 => JournalListed
    /\ LET v == pointer + 1
       IN  /\ pointer' = v
           /\ manifests' = Delete(Put(manifests, [k \in {v} |-> CheckpointManifest(v, bytes, sv)]), {pointer})
           /\ vectors' = Delete(Put(vectors, [k \in {v} |-> sv]), {pointer})
           /\ chunks' = Delete(Put(chunks, ChunksOf(v, bytes)), OldChunks)
    /\ meta' = EmptyJournalMeta
    /\ entries' = Delete(entries, ExpectedJournalSeqs)
    /\ entryChunks' = Delete(entryChunks, OldEntryChunks)
    /\ UNCHANGED chunkSize

\* A new instance may run with another chunk size.
Restart(size) ==
    /\ chunkSize' = size
    /\ UNCHANGED <<checkpointKeys, journalKeys>>

StoreInit ==
    /\ chunkSize \in ChunkSizes
    /\ pointer = 0 /\ manifests = NoKeys /\ chunks = NoKeys /\ vectors = NoKeys
    /\ meta = EmptyJournalMeta /\ entries = NoKeys /\ entryChunks = NoKeys

StoreNext ==
    \/ \E bytes \in Payload : AppendUpdate(bytes)
    \/ \E bytes \in Payload, sv \in StateVector : RewriteCheckpoint(bytes, sv)
    \/ \E size \in ChunkSizes : Restart(size)

StoreSpec == StoreInit /\ [][StoreNext]_storeVars

-----------------------------------------------------------------------------
(* Properties *)

\* The vault can always be loaded: after any sequence of appends and rewrites,
\* whatever chunk size wrote each of them, no check of loadCheckpoint,
\* loadJournal or readChunkedPayload throws.
AlwaysLoads == CheckpointReadable /\ JournalReadable

\* Nothing is left behind: every key in storage belongs to the current
\* checkpoint or to a journal entry that will be replayed, although sequence
\* numbers start again at 1 after every checkpoint (cleanupKeys).
NoOrphanKeys ==
    /\ DOMAIN manifests = {pointer} \ {0} /\ DOMAIN vectors = {pointer} \ {0}
    /\ DOMAIN chunks = UNION {ChunkKeys(v, manifests[v]) : v \in DOMAIN manifests}
    /\ DOMAIN entries = ExpectedJournalSeqs
    /\ DOMAIN entryChunks = UNION {ChunkKeys(s, entries[s]) : s \in DOMAIN entries}

\* What loadState returns is what was written, byte for byte: an append adds
\* one update and a rewrite replaces everything, as DocStore says.
Abstract == INSTANCE DocStore WITH
    checkpoint <- IF CheckpointReadable THEN LoadCheckpoint ELSE <<"unreadable">>,
    journal <- IF JournalReadable THEN LoadJournal ELSE <<"unreadable">>

ImplementsDocStore == Abstract!Spec

=============================================================================
