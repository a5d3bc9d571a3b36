--------------------------- MODULE NoteWritesProofs ---------------------------
(***************************************************************************)
(* Proofs about NoteWrites, for any number of files, requests and rounds,  *)
(* any passages and any clock.                                             *)
(***************************************************************************)
EXTENDS NoteWrites, FiniteSetTheorems, WellFoundedInduction, TLAPS

CallRecord ==
    [pc : {"idle", "capture", "captured", "version", "apply", "read", "compare"},
     id : {NoFile} \cup File, expected : Text, content : Text,
     seenId : {NoFile} \cup File, seen : Text, moved : BOOLEAN,
     inner : 1..Attempts, outer : 1..Attempts]

FileRecord == [state : {"none", "active", "deleted"}, mtime : {0} \cup Clock, text : Text]

\* The type invariant, under names of its own for rows and requests.
LEMMA TypeParts ==
    TypeOK <=> /\ file \in [File -> FileRecord] /\ active \in BOOLEAN
               /\ call \in [Request -> CallRecord]
  BY DEF TypeOK, FileRecord, CallRecord

-----------------------------------------------------------------------------
(* The path's note *)

\* A nonempty set of natural numbers has a least element.
LEMMA LeastNatural ==
    ASSUME NEW S \in SUBSET Nat, S # {}
    PROVE  \E n \in S : \A m \in S : n <= m
<1> DEFINE R == OpToRel(<, Nat)
<1>1. IsWellFoundedOn(R, Nat)
  BY NatLessThanWellFounded
<1>2. PICK n \in S : \A m \in S : ~ (<<m, n>> \in R)
  BY <1>1, WFMin
<1>3. \A m \in S : ~(m < n)
  BY <1>2 DEF OpToRel
<1> QED BY <1>3

\* Newer is a total order of the files.
LEMMA NewerOrders ==
    ASSUME TypeOK, NEW f \in File, NEW g \in File, NEW h \in File
    PROVE  /\ Newer(f, f)
           /\ Newer(f, g) \/ Newer(g, f)
           /\ Newer(f, g) /\ Newer(g, f) => f = g
           /\ ~Newer(f, g) /\ ~Newer(g, h) => ~Newer(f, h)
<1>1. f \in Nat /\ g \in Nat /\ h \in Nat
  BY NoteAssumption DEF NoteAssumption, File
<1>2. \A x \in File : file[x].mtime \in Nat
  <2>1. \A x \in File : file[x] \in FileRecord
    BY TypeParts
  <2>2. \A row \in FileRecord : row.mtime \in {0} \cup Clock
    BY DEF FileRecord
  <2>3. {0} \cup Clock \subseteq Nat
    BY NoteAssumption DEF NoteAssumption
  <2> QED BY <2>1, <2>2, <2>3
<1> QED BY <1>1, <1>2 DEF Newer

\* Of the active files with the path there is one that is newest.
LEMMA NewestExists ==
    ASSUME TypeOK, InState("active") # {}
    PROVE  \E f \in InState("active") : \A g \in InState("active") : Newer(f, g)
<1> DEFINE S == InState("active")
           Above(f) == {g \in S : ~Newer(f, g)}
           Counts == {Cardinality(Above(f)) : f \in S}
<1>1. S \subseteq File /\ IsFiniteSet(S)
  <2>1. S \subseteq File
    BY DEF InState
  <2>2. IsFiniteSet(File)
    BY NoteAssumption, FS_Interval DEF NoteAssumption, File
  <2> QED BY <2>1, <2>2, FS_Subset
<1>2. \A f \in S : IsFiniteSet(Above(f)) /\ Cardinality(Above(f)) \in Nat
  BY <1>1, FS_Subset, FS_CardinalityType
<1>3. Counts \in SUBSET Nat /\ Counts # {}
  BY <1>2
<1>4. PICK n \in Counts : \A m \in Counts : n <= m
  BY <1>3, LeastNatural
<1>5. PICK f \in S : n = Cardinality(Above(f))
  BY <1>4
<1>6. ASSUME NEW g \in S, ~Newer(f, g) PROVE FALSE
  <2>1. \A h \in Above(g) : h \in Above(f)
    BY <1>1, <1>6, NewerOrders
  <2>2. g \in Above(f) /\ g \notin Above(g)
    BY <1>1, <1>6, NewerOrders
  <2>3. Above(g) \in SUBSET Above(f) /\ Above(g) # Above(f)
    BY <2>1, <2>2
  <2>4. Cardinality(Above(g)) < Cardinality(Above(f))
    <3>1. /\ IsFiniteSet(Above(f))
          /\ Cardinality(Above(f)) \in Nat /\ Cardinality(Above(g)) \in Nat
      BY <1>2, <1>6
    <3>2. /\ Cardinality(Above(g)) <= Cardinality(Above(f))
          /\ Cardinality(Above(g)) # Cardinality(Above(f))
      <4> HIDE DEF Above, S
      <4> QED BY <3>1, <2>3, FS_Subset
    <3> QED BY <3>1, <3>2
  <2>5. Cardinality(Above(g)) \in Counts
    BY <1>6
  <2>6. n <= Cardinality(Above(g))
    BY <1>4, <2>5
  <2>7. Cardinality(Above(f)) \in Nat /\ Cardinality(Above(g)) \in Nat
    BY <1>2, <1>6
  <2> HIDE DEF Above
  <2> QED BY <1>5, <2>4, <2>6, <2>7
<1> QED BY <1>5, <1>6

\* NoteId is that file, and no other.
Newest ==
    /\ InState("active") # {} =>
          /\ NoteId \in InState("active")
          /\ \A g \in InState("active") : Newer(NoteId, g)
    /\ \A f \in InState("active") :
          (\A g \in InState("active") : Newer(f, g)) => f = NoteId
    /\ NoteId \in {NoFile} \cup File /\ NoteText \in Text
    /\ NoteId = NoFile <=> InState("active") = {}

LEMMA NoteIdIsNewest == TypeOK => Newest
<1> SUFFICES ASSUME TypeOK PROVE Newest
  OBVIOUS
<1>0. InState("active") \subseteq File /\ NoFile \notin File
  BY NoteAssumption DEF NoteAssumption, InState, File, NoFile
<1>1. InState("active") = {} => NoteId = NoFile
  BY DEF NoteId
<1>2. ASSUME InState("active") # {}
      PROVE  NoteId \in InState("active") /\ \A g \in InState("active") : Newer(NoteId, g)
  BY <1>2, NewestExists DEF NoteId
<1>3. ASSUME NEW f \in InState("active"), \A g \in InState("active") : Newer(f, g)
      PROVE  f = NoteId
  <2>1. NoteId \in InState("active") /\ Newer(NoteId, f) /\ Newer(f, NoteId)
    BY <1>2, <1>3
  <2> QED BY <1>0, <2>1, NewerOrders
<1>4. NoteId \in {NoFile} \cup File
  BY <1>0, <1>1, <1>2
<1>5. NoteText \in Text
  <2>1. CASE NoteId = NoFile
    BY <2>1 DEF NoteText, Text
  <2>2. CASE NoteId # NoFile
    <3>1. NoteId \in File /\ file[NoteId] \in FileRecord
      BY <1>4, <2>2, TypeParts
    <3> QED BY <3>1, <2>2 DEF NoteText, FileRecord
  <2> QED BY <2>1, <2>2
<1>6. NoteId = NoFile <=> InState("active") = {}
  BY <1>0, <1>1, <1>2
<1> QED BY <1>2, <1>3, <1>4, <1>5, <1>6 DEF Newest

\* The same after a step.
LEMMA NoteIdIsNewestNext == (TypeOK => Newest)'
  BY NoteIdIsNewest, PTL

\* What clients and requests leave of the document leaves its note.
LEMMA SameNote == UNCHANGED file => NoteId' = NoteId /\ NoteText' = NoteText
  BY DEF NoteId, NoteText, InState, Newer

-----------------------------------------------------------------------------
(* The inductive invariant *)

\* A request is only ever where its own handler is.
Stages(r) ==
    IF r \in Editor THEN {"idle", "capture", "captured", "version", "apply"}
    ELSE IF r \in Restorer THEN {"idle", "read", "compare", "version", "apply"}
    ELSE {"idle", "version", "apply"}

Staged == \A r \in Request : call[r].pc \in Stages(r)

\* While the state vector a request holds has not moved, the note it read is
\* the path's note still, with nothing in it that the request has not seen.
Undisturbed ==
    \A r \in Request : Comparing(r, call[r]) /\ ~call[r].moved =>
        call[r].seenId = NoteId /\ NoteText \subseteq call[r].seen

\* A restore goes on past its comparison only with what it compared.
RestoreChecked ==
    \A r \in Restorer : call[r].pc \in {"version", "apply"} => Restorable(r)

IInv == TypeOK /\ Staged /\ Undisturbed /\ RestoreChecked

LEMMA NoCallType == NoCall \in CallRecord /\ NoCall.pc = "idle" /\ Unused \in FileRecord
  BY NoteAssumption DEF NoteAssumption, NoCall, CallRecord, NoFile, Text, Unused, FileRecord

LEMMA InitInv == Init => IInv
<1> SUFFICES ASSUME Init PROVE IInv
  OBVIOUS
<1>1. file \in [File -> FileRecord] /\ active \in BOOLEAN /\ call \in [Request -> CallRecord]
  BY NoCallType DEF Init
<1>2. \A r \in Request : call[r].pc = "idle"
  BY NoCallType DEF Init
<1>3. Staged
  BY <1>2 DEF Staged, Stages
<1>4. Undisturbed
  BY <1>2 DEF Undisturbed, Comparing
<1>5. RestoreChecked
  BY <1>2 DEF RestoreChecked, Request
<1> QED BY <1>1, <1>3, <1>4, <1>5, TypeParts DEF IInv

\* A step of one request that leaves the document alone.
LEMMA LocalStep ==
    ASSUME IInv, NEW r \in Request, NEW d \in CallRecord,
           call' = [call EXCEPT ![r] = d], UNCHANGED <<file, active>>,
           d.pc \in Stages(r),
           Comparing(r, d) /\ ~d.moved => d.seenId = NoteId /\ NoteText \subseteq d.seen,
           r \in Restorer /\ d.pc \in {"version", "apply"} => Restorable(r)'
    PROVE  IInv'
<1>1. /\ file' \in [File -> FileRecord] /\ active' \in BOOLEAN
      /\ call \in [Request -> CallRecord] /\ call' \in [Request -> CallRecord]
  BY TypeParts DEF IInv
<1>2. TypeOK'
  BY <1>1 DEF TypeOK, FileRecord, CallRecord
<1>3. call'[r] = d /\ \A q \in Request \ {r} : call'[q] = call[q]
  BY <1>1
<1>4. Staged'
  BY <1>3 DEF IInv, Staged, Stages
<1>5. Undisturbed'
  <2> SUFFICES ASSUME NEW q \in Request, Comparing(q, call'[q]), ~call'[q].moved
               PROVE  call'[q].seenId = NoteId' /\ NoteText' \subseteq call'[q].seen
    BY DEF Undisturbed, Comparing
  <2>1. CASE q = r
    BY <1>3, <2>1, SameNote
  <2>2. CASE q # r
    BY <1>3, <2>2, SameNote DEF IInv, Undisturbed
  <2> QED BY <2>1, <2>2
<1>6. RestoreChecked'
  <2> SUFFICES ASSUME NEW q \in Restorer, call'[q].pc \in {"version", "apply"}
               PROVE  Restorable(q)'
    BY DEF RestoreChecked
  <2>1. CASE q = r
    BY <1>3, <2>1
  <2>2. CASE q # r
    BY <1>3, <2>2 DEF IInv, RestoreChecked, Restorable, Request
  <2> QED BY <2>1, <2>2
<1> QED BY <1>2, <1>4, <1>5, <1>6 DEF IInv

\* A transaction: the requests it does not end have their flags raised.
LEMMA TransactStep ==
    ASSUME IInv, NEW new \in [File -> FileRecord],
           NEW calls, calls \in [Request -> CallRecord],
           \A q \in Request : calls[q] \in {call[q], NoCall},
           Transact(new, calls), UNCHANGED active
    PROVE  IInv'
<1> DEFINE Raised(q) == [calls[q] EXCEPT !.moved = @ \/ Comparing(q, calls[q])]
<1>1. /\ file' = new /\ active' \in BOOLEAN
      /\ call \in [Request -> CallRecord]
      /\ call' = [q \in Request |-> Raised(q)]
  BY TypeParts DEF IInv, Transact
<1>2. \A q \in Request : Raised(q) \in CallRecord
  BY DEF CallRecord, Comparing
<1>3. TypeOK'
  BY <1>1, <1>2 DEF TypeOK, FileRecord, CallRecord
<1>4. \A q \in Request :
         /\ call'[q] = Raised(q)
         /\ call'[q].pc = calls[q].pc
         /\ call'[q].moved = (calls[q].moved \/ Comparing(q, calls[q]))
         /\ call'[q].seenId = calls[q].seenId /\ call'[q].seen = calls[q].seen
         /\ call'[q].id = calls[q].id /\ call'[q].expected = calls[q].expected
         /\ call'[q].content = calls[q].content
  <2> SUFFICES ASSUME NEW q \in Request PROVE
         /\ call'[q] = Raised(q)
         /\ Raised(q).pc = calls[q].pc
         /\ Raised(q).moved = (calls[q].moved \/ Comparing(q, calls[q]))
         /\ Raised(q).seenId = calls[q].seenId /\ Raised(q).seen = calls[q].seen
         /\ Raised(q).id = calls[q].id /\ Raised(q).expected = calls[q].expected
         /\ Raised(q).content = calls[q].content
    BY <1>1
  <2>1. calls[q] \in CallRecord
    OBVIOUS
  <2> QED BY <1>1, <2>1 DEF CallRecord
<1>5. \A q \in Request : calls[q].pc \in Stages(q)
  BY NoCallType DEF IInv, Staged, Stages
<1> HIDE DEF Raised
<1>6. Staged'
  BY <1>4, <1>5 DEF Staged, Stages
<1>7. Undisturbed'
  BY <1>4 DEF Undisturbed, Comparing
<1>8. RestoreChecked'
  <2> SUFFICES ASSUME NEW q \in Restorer, call'[q].pc \in {"version", "apply"}
               PROVE  Restorable(q)'
    BY DEF RestoreChecked
  <2>1. q \in Request /\ calls[q] = call[q] /\ Restorable(q)
    BY <1>4, NoCallType DEF IInv, RestoreChecked, Request
  <2> QED BY <1>4, <2>1 DEF Restorable
<1> QED BY <1>3, <1>6, <1>7, <1>8 DEF IInv

\* The facts about one request that its steps start from.
LEMMA CallFacts ==
    ASSUME IInv, NEW r \in Request
    PROVE  /\ call[r] \in CallRecord /\ call \in [Request -> CallRecord]
           /\ file \in [File -> FileRecord]
           /\ call[r].pc \in Stages(r)
           /\ Comparing(r, call[r]) /\ ~call[r].moved =>
                 call[r].seenId = NoteId /\ NoteText \subseteq call[r].seen
           /\ NoteId \in {NoFile} \cup File /\ NoteText \in Text
  BY TypeParts, NoteIdIsNewest DEF IInv, Staged, Undisturbed, Newest

LEMMA AnswerInv ==
    ASSUME IInv, NEW r \in Request, Answer(r), UNCHANGED <<file, active>>
    PROVE  IInv'
<1>1. NoCall \in CallRecord /\ NoCall.pc \in Stages(r) /\ NoCall.pc = "idle"
  BY NoCallType DEF Stages
<1>2. call'[r] = NoCall
  BY CallFacts DEF Answer
<1> QED BY <1>1, LocalStep DEF Answer, Comparing

\* A new request, with what it was told of the note.
LEMMA BeginInv == IInv /\ Begin => IInv'
<1> SUFFICES ASSUME IInv, Begin PROVE IInv'
  OBVIOUS
<1>1. PICK content \in Text :
         \/ \E r \in Editor : BeginUpdate(r, content)
         \/ \E r \in Creator : BeginCreate(r, content)
         \/ \E r \in Restorer : BeginRestore(r, content)
  BY DEF Begin
<1> DEFINE d(pc, id, expected) ==
      [NoCall EXCEPT !.pc = pc, !.id = id, !.expected = expected, !.content = content]
<1>2. ASSUME NEW pc \in {"capture", "version", "read"},
             NEW id \in {NoFile} \cup File, NEW expected \in Text
      PROVE  d(pc, id, expected) \in CallRecord /\ d(pc, id, expected).pc = pc
  BY NoCallType DEF CallRecord
<1>3. NoteId \in {NoFile} \cup File /\ NoteText \in Text
  BY NoteIdIsNewest DEF IInv, Newest
<1>4. CASE \E r \in Editor : BeginUpdate(r, content)
  <2>1. PICK r \in Editor : BeginUpdate(r, content)
    BY <1>4
  <2>2. r \in Request /\ r \notin Restorer
    BY NoteAssumption DEF NoteAssumption, Request
  <2>3. call' = [call EXCEPT ![r] = d("capture", NoteId, NoteText)] /\ UNCHANGED <<file, active>>
    BY <2>1 DEF BeginUpdate
  <2>4. d("capture", NoteId, NoteText) \in CallRecord /\ d("capture", NoteId, NoteText).pc = "capture"
    BY <1>2, <1>3
  <2> HIDE DEF d
  <2> QED BY <2>2, <2>3, <2>4, LocalStep DEF Stages, Comparing
<1>5. CASE \E r \in Creator : BeginCreate(r, content)
  <2>1. PICK r \in Creator : BeginCreate(r, content)
    BY <1>5
  <2>2. r \in Request /\ r \notin Restorer /\ r \notin Editor
    BY NoteAssumption DEF NoteAssumption, Request
  <2> DEFINE e == [NoCall EXCEPT !.pc = "version", !.content = content]
  <2>3. call' = [call EXCEPT ![r] = e] /\ UNCHANGED <<file, active>>
    BY <2>1 DEF BeginCreate
  <2>4. e \in CallRecord /\ e.pc = "version"
    BY NoCallType DEF CallRecord
  <2> HIDE DEF e
  <2> QED BY <2>1, <2>2, <2>3, <2>4, LocalStep DEF Stages, Comparing
<1>6. CASE \E r \in Restorer : BeginRestore(r, content)
  <2>1. PICK r \in Restorer : BeginRestore(r, content)
    BY <1>6
  <2>2. r \in Request /\ r \notin Editor
    BY NoteAssumption DEF NoteAssumption, Request
  <2>3. call' = [call EXCEPT ![r] = d("read", NoteId, NoteText)] /\ UNCHANGED <<file, active>>
    BY <2>1 DEF BeginRestore
  <2>4. d("read", NoteId, NoteText) \in CallRecord /\ d("read", NoteId, NoteText).pc = "read"
    BY <1>2, <1>3
  <2> HIDE DEF d
  <2> QED BY <2>1, <2>2, <2>3, <2>4, LocalStep DEF Stages, Comparing
<1> QED BY <1>1, <1>4, <1>5, <1>6

\* Reading again: nothing is kept of the last round.
LEMMA AfreshInv ==
    ASSUME IInv, NEW r \in Request, NEW inner \in 1..Attempts, NEW outer \in 1..Attempts,
           NEW pc, (pc = "capture" /\ r \in Editor) \/ (pc = "read" /\ r \in Restorer),
           call' = [call EXCEPT ![r] = Afresh(@, pc, inner, outer)],
           UNCHANGED <<file, active>>
    PROVE  IInv'
<1> DEFINE d == Afresh(call[r], pc, inner, outer)
<1>1. call[r] \in CallRecord
  BY CallFacts
<1>2. d \in CallRecord /\ d.pc = pc
  BY <1>1 DEF Afresh, CallRecord, Text
<1>3. d.pc \in Stages(r) /\ ~Comparing(r, d) /\ d.pc \notin {"version", "apply"}
  BY <1>2, NoteAssumption DEF Stages, Comparing, NoteAssumption
<1>4. call' = [call EXCEPT ![r] = d]
  OBVIOUS
<1> HIDE DEF d
<1> QED BY <1>2, <1>3, <1>4, LocalStep

LEMMA RetryInv ==
    ASSUME IInv, NEW r \in Request, NEW pc,
           (pc = "capture" /\ r \in Editor) \/ (pc = "read" /\ r \in Restorer),
           Retry(r, pc), UNCHANGED <<file, active>>
    PROVE  IInv'
<1>1. call[r] \in CallRecord
  BY CallFacts
<1>2. CASE Again(call[r].outer)
  <2>1. 1 \in 1..Attempts /\ call[r].outer + 1 \in 1..Attempts
    BY <1>1, <1>2, NoteAssumption DEF NoteAssumption, Again, CallRecord
  <2>2. call' = [call EXCEPT ![r] = Afresh(@, pc, 1, call[r].outer + 1)]
    BY <1>2 DEF Retry
  <2> QED BY <2>1, <2>2, AfreshInv
<1>3. CASE ~Again(call[r].outer)
  BY <1>3, AnswerInv DEF Retry
<1> QED BY <1>2, <1>3

-----------------------------------------------------------------------------
(* The steps *)

LEMMA CaptureInv == ASSUME IInv, NEW r \in Request, Capture(r) PROVE IInv'
<1>1. CASE NoteId = NoFile
  BY <1>1, AnswerInv DEF Capture
<1>2. CASE NoteId # NoFile
  <2> DEFINE d == [call[r] EXCEPT !.pc = "captured", !.seenId = NoteId, !.seen = NoteText]
  <2>1. call' = [call EXCEPT ![r] = d] /\ UNCHANGED <<file, active>>
    BY <1>2, CallFacts DEF Capture
  <2>2. /\ d \in CallRecord /\ d.pc = "captured"
        /\ d.seenId = NoteId /\ d.seen = NoteText
    BY CallFacts DEF CallRecord
  <2>3. r \in Editor
    BY CallFacts DEF Capture, Stages
  <2>4. d.pc \in Stages(r)
    BY <2>2, <2>3 DEF Stages
  <2> HIDE DEF d
  <2> QED BY <2>1, <2>2, <2>4, LocalStep
<1> QED BY <1>1, <1>2

LEMMA CapturedInv == ASSUME IInv, NEW r \in Request, Captured(r) PROVE IInv'
<1>0. call[r] \in CallRecord /\ r \in Editor /\ Comparing(r, call[r])
  BY CallFacts, NoteAssumption DEF Captured, Stages, Comparing, NoteAssumption
<1>1. CASE ~call[r].moved
  <2> DEFINE d == [call[r] EXCEPT !.pc = "version", !.inner = 1]
  <2>1. call' = [call EXCEPT ![r] = d] /\ UNCHANGED <<file, active>>
    BY <1>1, CallFacts DEF Captured
  <2>2. /\ d \in CallRecord /\ d.pc = "version"
        /\ d.seenId = call[r].seenId /\ d.seen = call[r].seen
    <3>1. 1 \in 1..Attempts
      BY NoteAssumption DEF NoteAssumption
    <3> QED BY <1>0, <3>1 DEF CallRecord
  <2>3. d.pc \in Stages(r) /\ r \notin Restorer
    BY <1>0, <2>2, NoteAssumption DEF Stages, NoteAssumption
  <2>4. d.seenId = NoteId /\ NoteText \subseteq d.seen
    BY <1>0, <1>1, <2>2, CallFacts
  <2> HIDE DEF d
  <2> QED BY <2>1, <2>2, <2>3, <2>4, LocalStep
<1>2. CASE call[r].moved /\ Again(call[r].inner)
  <2>1. call[r].inner + 1 \in 1..Attempts /\ call[r].outer \in 1..Attempts
    BY <1>0, <1>2, NoteAssumption DEF NoteAssumption, Again, CallRecord
  <2>2. /\ call' = [call EXCEPT ![r] = Afresh(@, "capture", call[r].inner + 1, call[r].outer)]
        /\ UNCHANGED <<file, active>>
    BY <1>2 DEF Captured
  <2> DEFINE i == call[r].inner + 1
             o == call[r].outer
             pc == "capture"
  <2>3. pc = "capture" /\ r \in Editor
    BY <1>0
  <2> HIDE DEF i, o, pc
  <2>4. i \in 1..Attempts /\ o \in 1..Attempts
    BY <2>1 DEF i, o
  <2>5. call' = [call EXCEPT ![r] = Afresh(@, pc, i, o)] /\ UNCHANGED <<file, active>>
    BY <2>2 DEF i, o, pc
  <2> QED BY <2>3, <2>4, <2>5, AfreshInv
<1>3. CASE call[r].moved /\ ~Again(call[r].inner)
  BY <1>3, AnswerInv DEF Captured
<1> QED BY <1>1, <1>2, <1>3

\* Going on to the next stage with what was read.
LEMMA AtInv ==
    ASSUME IInv, NEW r \in Request, NEW pc,
           Comparing(r, call[r]) \/ r \in Creator,
           pc \in {"version", "apply"}, At(r, pc), UNCHANGED <<file, active>>,
           r \in Restorer => Restorable(r)
    PROVE  IInv'
<1> DEFINE d == [call[r] EXCEPT !.pc = pc]
<1>0. call[r] \in CallRecord
  BY CallFacts
<1>1. call' = [call EXCEPT ![r] = d] /\ call'[r] = d
  BY CallFacts DEF At
<1>2. /\ d \in CallRecord /\ d.pc = pc
      /\ d.seenId = call[r].seenId /\ d.seen = call[r].seen /\ d.moved = call[r].moved
      /\ d.id = call[r].id /\ d.expected = call[r].expected /\ d.content = call[r].content
  BY <1>0 DEF CallRecord
<1>3. d.pc \in Stages(r)
  BY <1>2 DEF Stages
<1> HIDE DEF d
<1>4. Comparing(r, d) /\ ~d.moved => d.seenId = NoteId /\ NoteText \subseteq d.seen
  <2>1. CASE Comparing(r, call[r])
    BY <1>2, <2>1, CallFacts
  <2>2. CASE r \in Creator
    BY <2>2 DEF Comparing
  <2> QED BY <2>1, <2>2
<1>5. r \in Restorer => Restorable(r)'
  BY <1>1, <1>2 DEF Restorable
<1> QED BY <1>1, <1>2, <1>3, <1>4, <1>5, LocalStep

LEMMA CheckActiveInv == ASSUME IInv, NEW r \in Request, CheckActive(r) PROVE IInv'
<1>1. CASE active
  <2>1. Comparing(r, call[r]) \/ r \in Creator
    BY DEF Comparing, CheckActive
  <2>2. r \in Restorer => Restorable(r)
    BY DEF IInv, RestoreChecked, CheckActive
  <2> QED BY <1>1, <2>1, <2>2, AtInv DEF CheckActive
<1>2. CASE ~active
  BY <1>2, AnswerInv DEF CheckActive
<1> QED BY <1>1, <1>2

LEMMA ReadForRestoreInv == ASSUME IInv, NEW r \in Request, ReadForRestore(r) PROVE IInv'
<1> DEFINE d == [call[r] EXCEPT !.pc = "compare", !.seenId = NoteId, !.seen = NoteText]
<1>1. call' = [call EXCEPT ![r] = d] /\ UNCHANGED <<file, active>>
  BY CallFacts DEF ReadForRestore
<1>2. d \in CallRecord /\ d.pc = "compare" /\ d.seenId = NoteId /\ d.seen = NoteText
  BY CallFacts DEF CallRecord
<1>3. d.pc \in Stages(r)
  BY <1>2, CallFacts DEF Stages, ReadForRestore
<1> HIDE DEF d
<1> QED BY <1>1, <1>2, <1>3, LocalStep

LEMMA CompareInv == ASSUME IInv, NEW r \in Request, Compare(r) PROVE IInv'
<1>1. CASE Restorable(r)
  <2>1. Comparing(r, call[r])
    BY CallFacts, NoteAssumption DEF Comparing, Compare, Stages, NoteAssumption
  <2> QED BY <1>1, <2>1, AtInv DEF Compare
<1>2. CASE ~Restorable(r)
  BY <1>2, AnswerInv DEF Compare
<1> QED BY <1>1, <1>2

\* A request that writes is done: the others see the document move.
LEMMA WriteInv ==
    ASSUME IInv, NEW r \in Request, NEW new \in [File -> FileRecord],
           Transact(new, [call EXCEPT ![r] = NoCall]), UNCHANGED active
    PROVE  IInv'
<1> DEFINE calls == [call EXCEPT ![r] = NoCall]
<1>1. calls \in [Request -> CallRecord] /\ \A q \in Request : calls[q] \in {call[q], NoCall}
  BY CallFacts, NoCallType
<1> HIDE DEF calls
<1>2. Transact(new, calls)
  BY DEF calls
<1> QED BY <1>1, <1>2, TransactStep

LEMMA ReplaceInv ==
    ASSUME IInv, NEW r \in Request, NEW mtime \in Clock,
           Replace(r, mtime), UNCHANGED active
    PROVE  IInv'
<1> DEFINE new == [file EXCEPT ![call[r].seenId] =
                     [state |-> "active", mtime |-> mtime, text |-> call[r].content]]
<1>1. new \in [File -> FileRecord]
  BY CallFacts DEF CallRecord, FileRecord
<1> QED BY <1>1, WriteInv DEF Replace

LEMMA ApplyUpdateInv == ASSUME IInv, NEW r \in Request, ApplyUpdate(r) PROVE IInv'
<1>1. CASE Moved(r)
  <2> DEFINE pc == "capture"
  <2>1. /\ r \in Editor /\ pc = "capture"
        /\ Retry(r, pc) /\ UNCHANGED <<file, active>>
    BY <1>1 DEF ApplyUpdate
  <2> HIDE DEF pc
  <2> QED BY <2>1, RetryInv
<1>2. CASE ~Moved(r) /\ SameVersion(r)
  BY <1>2, ReplaceInv DEF ApplyUpdate
<1>3. CASE ~Moved(r) /\ ~SameVersion(r)
  BY <1>3, AnswerInv DEF ApplyUpdate
<1> QED BY <1>1, <1>2, <1>3

\* A new file under a free identity.
LEMMA NewFileType ==
    ASSUME IInv, NEW r \in Request, NEW id \in File, NEW mtime \in Clock,
           NEW files \in [File -> FileRecord]
    PROVE  NewFile(r, id, mtime, files) \in [File -> FileRecord]
  BY CallFacts DEF NewFile, CallRecord, FileRecord

LEMMA ApplyCreateInv == ASSUME IInv, NEW r \in Request, ApplyCreate(r) PROVE IInv'
<1>1. CASE InState("active") \cup InState("deleted") = {}
  <2>1. PICK id \in InState("none"), now \in Clock :
          Transact(NewFile(r, id, now, file), [call EXCEPT ![r] = NoCall])
    BY <1>1 DEF ApplyCreate
  <2>2. NewFile(r, id, now, file) \in [File -> FileRecord]
    BY CallFacts, NewFileType DEF InState
  <2> QED BY <2>1, <2>2, WriteInv DEF ApplyCreate
<1>2. CASE InState("active") \cup InState("deleted") # {}
  BY <1>2, AnswerInv DEF ApplyCreate
<1> QED BY <1>1, <1>2

LEMMA WithoutTombstonesType == IInv => WithoutTombstones \in [File -> FileRecord]
  BY TypeParts, NoCallType DEF IInv, WithoutTombstones

LEMMA ApplyRestoreInv == ASSUME IInv, NEW r \in Request, ApplyRestore(r) PROVE IInv'
<1>1. CASE Moved(r)
  BY <1>1, RetryInv DEF ApplyRestore
<1>2. CASE ~Moved(r) /\ call[r].seenId = NoFile
  <2>1. PICK id \in InState("none") \cup InState("deleted"), mtime \in Clock :
          Transact(NewFile(r, id, mtime, WithoutTombstones), [call EXCEPT ![r] = NoCall])
    BY <1>2 DEF ApplyRestore
  <2>2. NewFile(r, id, mtime, WithoutTombstones) \in [File -> FileRecord]
    BY WithoutTombstonesType, NewFileType DEF InState
  <2> QED BY <2>1, <2>2, WriteInv DEF ApplyRestore
<1>3. CASE ~Moved(r) /\ call[r].seenId # NoFile /\ call[r].seen = call[r].content
  BY <1>3, AnswerInv DEF ApplyRestore
<1>4. CASE ~Moved(r) /\ call[r].seenId # NoFile /\ call[r].seen # call[r].content
  BY <1>4, ReplaceInv DEF ApplyRestore
<1> QED BY <1>1, <1>2, <1>3, <1>4

LEMMA StepInv == ASSUME IInv, NEW r \in Request, Step(r) PROVE IInv'
  BY CaptureInv, CapturedInv, CheckActiveInv, ReadForRestoreInv, CompareInv,
     ApplyUpdateInv, ApplyCreateInv, ApplyRestoreInv DEF Step

\* A client's transaction ends no request.
LEMMA EditInv ==
    ASSUME IInv, NEW new \in [File -> FileRecord], Transact(new, call), UNCHANGED active
    PROVE  IInv'
  BY TransactStep, TypeParts DEF IInv

\* Erasing moves no state vector, but neither does it put anything into the
\* note: what a request has seen is still all there is.
LEMMA EraseInv ==
    ASSUME IInv, NEW f \in File, NEW p \in Passage, Erase(f, p) PROVE IInv'
<1> DEFINE new == [file EXCEPT ![f].text = @ \ {p}]
<1>1. /\ file' = new /\ UNCHANGED <<active, call>>
      /\ file \in [File -> FileRecord] /\ active \in BOOLEAN /\ call \in [Request -> CallRecord]
  BY TypeParts DEF Erase, IInv
<1>2. new \in [File -> FileRecord]
  BY <1>1 DEF FileRecord, Text
<1>3. \A g \in File : /\ file'[g].state = file[g].state /\ file'[g].mtime = file[g].mtime
                      /\ file'[g].text \subseteq file[g].text
  <2> SUFFICES ASSUME NEW g \in File
               PROVE  /\ new[g].state = file[g].state /\ new[g].mtime = file[g].mtime
                      /\ new[g].text \subseteq file[g].text
    BY <1>1
  <2>1. file[g] \in FileRecord
    BY <1>1
  <2> QED BY <1>1, <2>1 DEF FileRecord
<1>4. TypeOK'
  BY <1>1, <1>2 DEF TypeOK, FileRecord, CallRecord
<1>5. Newest /\ Newest'
  BY <1>4, NoteIdIsNewest, NoteIdIsNewestNext DEF IInv
<1>6. InState("active")' = InState("active")
  BY <1>3 DEF InState
<1>7. \A g, h \in File : Newer(g, h)' <=> Newer(g, h)
  BY <1>3 DEF Newer
<1>8. NoteId' = NoteId
  <2>1. CASE InState("active") = {}
    BY <1>5, <1>6, <2>1 DEF Newest, NoFile
  <2>2. CASE InState("active") # {}
    <3>0. PICK n : n = NoteId
      OBVIOUS
    <3>1. n \in InState("active") /\ \A g \in InState("active") : Newer(n, g)
      BY <1>5, <2>2, <3>0 DEF Newest
    <3>2. n \in File /\ InState("active") \subseteq File
      BY <3>1 DEF InState
    <3>3. \A g \in InState("active")' : Newer(n, g)'
      BY <1>6, <1>7, <3>1, <3>2
    <3>4. \A x \in InState("active")' :
             (\A g \in InState("active")' : Newer(x, g)') => x = NoteId'
      BY <1>5 DEF Newest
    <3> QED BY <1>6, <3>0, <3>1, <3>3, <3>4
  <2> QED BY <2>1, <2>2
<1>9. NoteText' \subseteq NoteText
  <2>1. NoteId = NoFile \/ NoteId \in File
    BY <1>5 DEF Newest
  <2> QED BY <1>3, <1>8, <2>1 DEF NoteText, NoFile
<1>10. Undisturbed'
  BY <1>1, <1>8, <1>9 DEF IInv, Undisturbed, Comparing
<1>11. Staged' /\ RestoreChecked'
  BY <1>1 DEF IInv, Staged, Stages, RestoreChecked, Restorable
<1> QED BY <1>4, <1>10, <1>11 DEF IInv

LEMMA ClientInv == IInv /\ Client => IInv'
<1> SUFFICES ASSUME IInv, NEW f \in File,
                    \/ \E p \in Passage, mtime \in Clock : Insert(f, p, mtime)
                    \/ \E p \in Passage : Erase(f, p)
                    \/ \E text \in Text, mtime \in Clock : ClientCreates(f, text, mtime)
                    \/ ClientDeletes(f)
             PROVE  IInv'
  BY DEF Client
<1>0. file \in [File -> FileRecord] /\ file[f] \in FileRecord
  BY TypeParts DEF IInv
<1>1. ASSUME NEW p \in Passage, NEW mtime \in Clock, Insert(f, p, mtime) PROVE IInv'
  <2> DEFINE new == [file EXCEPT ![f].text = @ \cup {p}, ![f].mtime = mtime]
  <2>1. new \in [File -> FileRecord]
    BY <1>0 DEF FileRecord, Text
  <2> QED BY <1>1, <2>1, EditInv DEF Insert
<1>2. ASSUME NEW text \in Text, NEW mtime \in Clock, ClientCreates(f, text, mtime) PROVE IInv'
  <2> DEFINE new == [file EXCEPT ![f] = [state |-> "active", mtime |-> mtime, text |-> text]]
  <2>1. new \in [File -> FileRecord]
    BY <1>0 DEF FileRecord
  <2> QED BY <1>2, <2>1, EditInv DEF ClientCreates
<1>3. ASSUME ClientDeletes(f) PROVE IInv'
  <2> DEFINE new == [file EXCEPT ![f] = Tombstone]
  <2>1. new \in [File -> FileRecord]
    BY <1>0, NoCallType DEF FileRecord, Tombstone
  <2> QED BY <1>3, <2>1, EditInv DEF ClientDeletes
<1> QED BY <1>1, <1>2, <1>3, EraseInv

\* A revocation and an eviction: no request gets further.
LEMMA RevokeInv == IInv /\ Revoke => IInv'
  BY TypeParts, SameNote DEF IInv, Revoke, TypeOK, Staged, Stages, Undisturbed, Comparing,
                   RestoreChecked, Restorable

LEMMA EvictInv == IInv /\ Evict => IInv'
<1> SUFFICES ASSUME IInv, Evict PROVE IInv'
  OBVIOUS
<1>1. /\ file' \in [File -> FileRecord] /\ active' \in BOOLEAN
      /\ call' \in [Request -> CallRecord]
  BY TypeParts, NoCallType DEF IInv, Evict
<1>2. \A r \in Request : call'[r].pc = "idle"
  BY NoCallType DEF Evict
<1>3. TypeOK'
  BY <1>1 DEF TypeOK, FileRecord, CallRecord
<1>4. Staged' /\ Undisturbed' /\ RestoreChecked'
  BY <1>2 DEF Staged, Stages, Undisturbed, Comparing, RestoreChecked, Request
<1> QED BY <1>3, <1>4 DEF IInv

LEMMA NextInv == IInv /\ [Next]_vars => IInv'
<1> SUFFICES ASSUME IInv, [Next]_vars PROVE IInv'
  OBVIOUS
<1>1. CASE UNCHANGED vars
  BY <1>1, SameNote DEF vars, IInv, TypeOK, Staged, Stages, Undisturbed, Comparing,
                        RestoreChecked, Restorable
<1> QED BY <1>1, BeginInv, ClientInv, RevokeInv, EvictInv, StepInv DEF Next

\* The inductive invariant holds in every reachable state.
THEOREM Invariance == Spec => []IInv
  BY InitInv, NextInv, PTL DEF Spec

\* The type invariant (NoteWrites.TypeOK), for every instance.
THEOREM TypeCorrect == Spec => []TypeOK
<1>1. IInv => TypeOK
  BY DEF IInv
<1> QED BY Invariance, <1>1, PTL

-----------------------------------------------------------------------------
(* No write loses what its author has not seen *)

\* A transaction leaves the stage of a request that it does not end.
LEMMA TransactKeeps ==
    ASSUME IInv, NEW new, NEW calls, calls \in [Request -> CallRecord],
           Transact(new, calls), NEW q \in Request
    PROVE  call'[q].pc = calls[q].pc
<1>1. calls[q] \in CallRecord
  OBVIOUS
<1>2. call'[q] = [calls[q] EXCEPT !.moved = @ \/ Comparing(q, calls[q])]
  BY DEF Transact
<1> QED BY <1>1, <1>2 DEF CallRecord

\* A request that is at its last stage is ended, in a step that changes the
\* document, by itself alone.
LEMMA WriterSteps ==
    ASSUME IInv, Next, NEW r \in Request, Writes(r)
    PROVE  ApplyUpdate(r) \/ ApplyCreate(r) \/ ApplyRestore(r)
<1>0. /\ call \in [Request -> CallRecord] /\ call[r].pc = "apply"
      /\ call'[r].pc = "idle" /\ file' # file
  BY CallFacts, NoCallType DEF Writes
<1>1. ~Begin /\ ~Revoke /\ ~Evict
  BY <1>0 DEF Begin, BeginUpdate, BeginCreate, BeginRestore, Revoke, Evict
<1>2. ASSUME NEW new, Transact(new, call) PROVE FALSE
  BY <1>0, <1>2, TransactKeeps
<1>3. ASSUME NEW f \in File, NEW p \in Passage, Erase(f, p) PROVE FALSE
  BY <1>0, <1>3 DEF Erase
<1>4. ~Client
  BY <1>2, <1>3 DEF Client, Insert, ClientCreates, ClientDeletes
<1>5. PICK q \in Request : Step(q)
  BY <1>1, <1>4 DEF Next
<1>6. ApplyUpdate(q) \/ ApplyCreate(q) \/ ApplyRestore(q)
  BY <1>0, <1>5 DEF Step, Capture, Captured, CheckActive, ReadForRestore, Compare
<1>7. PICK new : Transact(new, [call EXCEPT ![q] = NoCall])
  BY <1>0, <1>6 DEF ApplyUpdate, ApplyCreate, ApplyRestore, Replace
<1>8. q = r
  <2> DEFINE calls == [call EXCEPT ![q] = NoCall]
  <2>1. calls \in [Request -> CallRecord] /\ (q # r => calls[r] = call[r])
    BY <1>0, NoCallType
  <2>2. call'[r].pc = calls[r].pc
    BY <1>7, <2>1, TransactKeeps
  <2> QED BY <1>0, <2>1, <2>2
<1> QED BY <1>6, <1>8

(***************************************************************************)
(* NoteWrites.NothingUnseenLost, for every instance: what is compared with *)
(* the document under the flag "not moved" is the document as it stands.   *)
(***************************************************************************)
THEOREM UnseenIsKept == Spec => NothingUnseenLost
<1>1. ASSUME IInv, Next, NEW r \in Editor, Writes(r)
      PROVE  NoteId = call[r].id /\ NoteText \subseteq call[r].expected
  <2>1. r \in Request /\ r \notin Restorer /\ r \notin Creator
    BY NoteAssumption DEF NoteAssumption, Request
  <2>2. ApplyUpdate(r)
    BY <1>1, <2>1, WriterSteps DEF ApplyCreate, ApplyRestore
  <2>3. ~Moved(r) /\ SameVersion(r)
    BY <1>1, <2>2 DEF ApplyUpdate, Writes
  <2>4. Comparing(r, call[r])
    BY <1>1, <2>1 DEF Comparing, Writes
  <2> QED BY <1>1, <2>1, <2>3, <2>4, CallFacts DEF Moved, SameVersion
<1>2. ASSUME IInv, Next, NEW r \in Restorer, Writes(r)
      PROVE  \/ NoteId = NoFile /\ call[r].id = NoFile
             \/ NoteId # NoFile /\ \/ NoteText \subseteq call[r].expected
                                   \/ NoteText \subseteq call[r].content
  <2>1. r \in Request /\ r \notin Editor /\ r \notin Creator
    BY NoteAssumption DEF NoteAssumption, Request
  <2>2. ApplyRestore(r)
    BY <1>2, <2>1, WriterSteps DEF ApplyCreate, ApplyUpdate
  <2>3. ~Moved(r)
    BY <1>2, <2>2 DEF ApplyRestore, Writes
  <2>4. Comparing(r, call[r]) /\ Restorable(r)
    BY <1>2, <2>1 DEF Comparing, Writes, IInv, RestoreChecked
  <2>5. call[r].seenId = NoteId /\ NoteText \subseteq call[r].seen
    BY <1>2, <2>1, <2>3, <2>4, CallFacts DEF Moved
  <2> QED BY <2>4, <2>5 DEF Restorable
<1>3. IInv /\ [Next]_vars =>
        [/\ \A r \in Editor : Writes(r) =>
               NoteId = call[r].id /\ NoteText \subseteq call[r].expected
         /\ \A r \in Restorer : Writes(r) =>
               \/ NoteId = NoFile /\ call[r].id = NoFile
               \/ NoteId # NoFile /\ \/ NoteText \subseteq call[r].expected
                                     \/ NoteText \subseteq call[r].content]_vars
  BY <1>1, <1>2
<1> QED BY Invariance, <1>3, PTL DEF Spec, NothingUnseenLost

-----------------------------------------------------------------------------
(* No request is kept in its loops *)

Rounds(outer) == (Attempts - outer) * (2 * Attempts + 2)

LEMMA RoundsCount ==
    ASSUME NEW o \in 1..Attempts
    PROVE  /\ Rounds(o) \in Nat
           /\ o < Attempts => Rounds(o) = Rounds(o + 1) + 2 * Attempts + 2
<1>1. Attempts \in Nat /\ o \in Nat
  BY NoteAssumption DEF NoteAssumption
<1>2. \A a \in Nat, b \in Nat : a * b \in Nat
  OBVIOUS
<1>3. Attempts - o \in Nat /\ 2 * Attempts + 2 \in Nat
  BY <1>1
<1>4. \A a \in Int, b \in Int : a * b = (a - 1) * b + b
  OBVIOUS
<1>5. (Attempts - o) - 1 = Attempts - (o + 1)
  BY <1>1
<1>6. (Attempts - o) * (2 * Attempts + 2)
        = ((Attempts - o) - 1) * (2 * Attempts + 2) + (2 * Attempts + 2)
  BY <1>3, <1>4
<1>7. (Attempts - (o + 1)) * (2 * Attempts + 2) \in Int
  BY <1>1
<1> QED BY <1>1, <1>2, <1>3, <1>5, <1>6, <1>7 DEF Rounds

\* What is left at each stage.
LEMMA RemainingIs ==
    ASSUME NEW c \in CallRecord
    PROVE  /\ c.pc = "idle" => Remaining(c) = 0
           /\ c.pc = "apply" => Remaining(c) = 1 + Rounds(c.outer)
           /\ c.pc = "version" => Remaining(c) = 2 + Rounds(c.outer)
           /\ c.pc \in {"captured", "compare"} =>
                 Remaining(c) = 3 + 2 * (Attempts - c.inner) + Rounds(c.outer)
           /\ c.pc \in {"capture", "read"} =>
                 Remaining(c) = 4 + 2 * (Attempts - c.inner) + Rounds(c.outer)
  BY DEF Remaining, Rounds

\* Only a request that has ended has nothing left.
LEMMA RemainingPositive ==
    ASSUME NEW c \in CallRecord, c.pc # "idle"
    PROVE  Remaining(c) \in Nat /\ 0 < Remaining(c)
<1>1. c.inner \in 1..Attempts /\ c.outer \in 1..Attempts /\ Attempts \in Nat
  BY NoteAssumption DEF CallRecord, NoteAssumption
<1>2. Rounds(c.outer) \in Nat
  BY <1>1, RoundsCount
<1>3. c.pc \in {"capture", "captured", "version", "apply", "read", "compare"}
  BY DEF CallRecord
<1> QED BY <1>1, <1>2, <1>3, RemainingIs

Counts(r) == call[r].pc # "idle" /\ call'[r].pc # call[r].pc
               => Remaining(call'[r]) < Remaining(call[r])

LEMMA LocalCounts ==
    ASSUME IInv, NEW q \in Request, NEW d, call' = [call EXCEPT ![q] = d],
           Remaining(d) < Remaining(call[q])
    PROVE  \A r \in Request : Counts(r)
<1> SUFFICES ASSUME NEW r \in Request PROVE Counts(r)
  OBVIOUS
<1>1. CASE r = q
  BY <1>1, CallFacts DEF Counts
<1>2. CASE r # q
  BY <1>2, CallFacts DEF Counts
<1> QED BY <1>1, <1>2

LEMMA AnswerCounts ==
    ASSUME IInv, NEW q \in Request, Answer(q), call[q].pc # "idle"
    PROVE  \A r \in Request : Counts(r)
<1>1. Remaining(NoCall) = 0
  BY NoCallType, RemainingIs
<1>2. 0 < Remaining(call[q])
  BY CallFacts, RemainingPositive
<1> DEFINE d == NoCall
<1>3. call' = [call EXCEPT ![q] = d]
  BY DEF Answer
<1>4. Remaining(d) < Remaining(call[q])
  BY <1>1, <1>2
<1> QED BY <1>3, <1>4, LocalCounts

\* Another round of the outer loop is worth more than a whole inner loop.
LEMMA RetryCounts ==
    ASSUME IInv, NEW q \in Request, NEW pc \in {"capture", "read"},
           Retry(q, pc), call[q].pc = "apply"
    PROVE  \A r \in Request : Counts(r)
<1>1. CASE Again(call[q].outer)
  <2> DEFINE c == call[q]
             d == Afresh(c, pc, 1, c.outer + 1)
  <2>1. /\ c \in CallRecord /\ c.outer \in 1..Attempts
        /\ c.outer < Attempts /\ Attempts \in Nat
    BY <1>1, CallFacts, NoteAssumption DEF CallRecord, Again, NoteAssumption
  <2>2. d \in CallRecord /\ d.pc = pc /\ d.inner = 1 /\ d.outer = c.outer + 1
    <3>1. 1 \in 1..Attempts /\ c.outer + 1 \in 1..Attempts
      BY <2>1
    <3> QED BY <2>1, <3>1 DEF Afresh, CallRecord, Text, NoFile
  <2>3. call' = [call EXCEPT ![q] = d]
    BY <1>1 DEF Retry
  <2> HIDE DEF d
  <2>4. Remaining(d) = 4 + 2 * (Attempts - 1) + Rounds(c.outer + 1)
    BY <2>2, RemainingIs
  <2>5. Remaining(c) = 1 + Rounds(c.outer)
    BY <2>1, RemainingIs
  <2>6. Rounds(c.outer) = Rounds(c.outer + 1) + 2 * Attempts + 2
    BY <2>1, RoundsCount
  <2>7. Rounds(c.outer + 1) \in Nat /\ Rounds(c.outer) \in Nat
    <3>1. c.outer + 1 \in 1..Attempts
      BY <2>1
    <3> QED BY <2>1, <3>1, RoundsCount
  <2>8. Remaining(d) < Remaining(c)
    BY <2>1, <2>4, <2>5, <2>6, <2>7
  <2> QED BY <2>3, <2>8, LocalCounts
<1>2. CASE ~Again(call[q].outer)
  BY <1>2, AnswerCounts DEF Retry
<1> QED BY <1>1, <1>2

\* A transaction leaves a request where it was or ends it.
LEMMA TransactCounts ==
    ASSUME IInv, NEW new, NEW calls, calls \in [Request -> CallRecord],
           Transact(new, calls),
           \A q \in Request : calls[q] \in {call[q], NoCall}, TypeOK'
    PROVE  \A r \in Request : Counts(r)
<1> SUFFICES ASSUME NEW r \in Request, call[r].pc # "idle", call'[r].pc # call[r].pc
             PROVE  Remaining(call'[r]) < Remaining(call[r])
  BY DEF Counts
<1>1. call'[r].pc = calls[r].pc
  BY TransactKeeps
<1>2. call'[r].pc = "idle"
  BY <1>1, NoCallType
<1>3. call'[r] \in CallRecord
  BY DEF TypeOK, CallRecord
<1> QED BY <1>2, <1>3, CallFacts, RemainingIs, RemainingPositive

LEMMA WriteCounts ==
    ASSUME IInv, NEW q \in Request, NEW new, TypeOK',
           Transact(new, [call EXCEPT ![q] = NoCall])
    PROVE  \A r \in Request : Counts(r)
<1> DEFINE calls == [call EXCEPT ![q] = NoCall]
<1>1. calls \in [Request -> CallRecord] /\ \A r \in Request : calls[r] \in {call[r], NoCall}
  BY CallFacts, NoCallType
<1> HIDE DEF calls
<1>2. Transact(new, calls)
  BY DEF calls
<1> QED BY <1>1, <1>2, TransactCounts

LEMMA CapturedCounts ==
    ASSUME IInv, NEW q \in Request, Captured(q) PROVE \A r \in Request : Counts(r)
<1> DEFINE c == call[q]
<1>1. /\ c \in CallRecord /\ c.pc = "captured" /\ Attempts \in Nat
      /\ c.inner \in 1..Attempts /\ c.outer \in 1..Attempts /\ Rounds(c.outer) \in Nat
  <2>1. c \in CallRecord /\ c.inner \in 1..Attempts /\ c.outer \in 1..Attempts
    BY CallFacts DEF CallRecord
  <2> QED BY <2>1, RoundsCount, NoteAssumption DEF Captured, NoteAssumption
<1>2. Remaining(c) = 3 + 2 * (Attempts - c.inner) + Rounds(c.outer)
  BY <1>1, RemainingIs
<1>3. CASE ~c.moved
  <2> DEFINE d == [c EXCEPT !.pc = "version", !.inner = 1]
  <2>1. call' = [call EXCEPT ![q] = d]
    BY <1>3, CallFacts DEF Captured
  <2>2. d \in CallRecord /\ d.pc = "version" /\ d.outer = c.outer
    <3>1. 1 \in 1..Attempts
      BY <1>1
    <3> QED BY <1>1, <3>1 DEF CallRecord
  <2> HIDE DEF d
  <2>3. Remaining(d) = 2 + Rounds(c.outer)
    BY <2>2, RemainingIs
  <2>4. Remaining(d) < Remaining(c)
    BY <1>1, <1>2, <2>3
  <2> QED BY <2>1, <2>4, LocalCounts
<1>4. CASE c.moved /\ Again(c.inner)
  <2> DEFINE d == Afresh(c, "capture", c.inner + 1, c.outer)
  <2>1. call' = [call EXCEPT ![q] = d]
    BY <1>4 DEF Captured
  <2>2. c.inner + 1 \in 1..Attempts
    BY <1>1, <1>4 DEF Again
  <2>3. d \in CallRecord /\ d.pc = "capture" /\ d.inner = c.inner + 1 /\ d.outer = c.outer
    BY <1>1, <2>2 DEF CallRecord, Afresh, Text, NoFile
  <2> HIDE DEF d
  <2>4. Remaining(d) = 4 + 2 * (Attempts - (c.inner + 1)) + Rounds(c.outer)
    BY <2>3, RemainingIs
  <2>5. Remaining(d) < Remaining(c)
    BY <1>1, <1>2, <2>4
  <2> QED BY <2>1, <2>5, LocalCounts
<1>5. CASE c.moved /\ ~Again(c.inner)
  <2>1. Answer(q)
    BY <1>5 DEF Captured
  <2> QED BY <1>1, <2>1, AnswerCounts
<1> QED BY <1>3, <1>4, <1>5

\* On to the next stage of the same round.
LEMMA AtCounts ==
    ASSUME IInv, NEW q \in Request, NEW pc, At(q, pc),
           \/ pc = "apply" /\ call[q].pc = "version"
           \/ pc = "version" /\ call[q].pc = "compare"
    PROVE  \A r \in Request : Counts(r)
<1> DEFINE c == call[q]
           d == [c EXCEPT !.pc = pc]
<1>1. /\ c \in CallRecord /\ Attempts \in Nat
      /\ c.inner \in 1..Attempts /\ c.outer \in 1..Attempts
  BY CallFacts, NoteAssumption DEF CallRecord, NoteAssumption
<1>2. d \in CallRecord /\ d.pc = pc /\ d.outer = c.outer
  BY <1>1 DEF CallRecord
<1>3. call' = [call EXCEPT ![q] = d]
  BY CallFacts DEF At
<1> HIDE DEF d
<1>4. Rounds(c.outer) \in Nat
  BY <1>1, RoundsCount
<1>5. Remaining(d) < Remaining(c)
  <2>1. CASE pc = "apply"
    BY <1>1, <1>2, <1>4, <2>1, RemainingIs
  <2>2. CASE pc = "version"
    BY <1>1, <1>2, <1>4, <2>2, RemainingIs
  <2> QED BY <2>1, <2>2
<1> QED BY <1>3, <1>5, LocalCounts

\* What is read is one stage further on.
LEMMA ReadCounts ==
    ASSUME IInv, NEW q \in Request, NEW pc \in {"captured", "compare"},
           call[q].pc \in {"capture", "read"},
           call' = [call EXCEPT ![q].pc = pc, ![q].seenId = NoteId, ![q].seen = NoteText]
    PROVE  \A r \in Request : Counts(r)
<1> DEFINE c == call[q]
           d == [c EXCEPT !.pc = pc, !.seenId = NoteId, !.seen = NoteText]
<1>1. /\ c \in CallRecord /\ Attempts \in Nat
      /\ c.inner \in 1..Attempts /\ c.outer \in 1..Attempts
  BY CallFacts, NoteAssumption DEF CallRecord, NoteAssumption
<1>2. d \in CallRecord /\ d.pc = pc /\ d.outer = c.outer /\ d.inner = c.inner
  BY <1>1, CallFacts DEF CallRecord
<1>3. call' = [call EXCEPT ![q] = d]
  BY CallFacts
<1> HIDE DEF d
<1>4. Rounds(c.outer) \in Nat
  BY <1>1, RoundsCount
<1>5. Remaining(d) < Remaining(c)
  BY <1>1, <1>2, <1>4, RemainingIs
<1> QED BY <1>3, <1>5, LocalCounts

LEMMA StepCounts ==
    ASSUME IInv, NEW q \in Request, Step(q), TypeOK' PROVE \A r \in Request : Counts(r)
<1>1. CASE Capture(q)
  <2>1. CASE NoteId = NoFile
    BY <1>1, <2>1, AnswerCounts DEF Capture
  <2>2. CASE NoteId # NoFile
    <3> DEFINE pc == "captured"
    <3>1. /\ pc \in {"captured", "compare"} /\ call[q].pc \in {"capture", "read"}
          /\ call' = [call EXCEPT ![q].pc = pc, ![q].seenId = NoteId, ![q].seen = NoteText]
      BY <1>1, <2>2 DEF Capture
    <3> HIDE DEF pc
    <3> QED BY <3>1, ReadCounts
  <2> QED BY <2>1, <2>2
<1>2. CASE Captured(q)
  BY <1>2, CapturedCounts
<1>3. CASE CheckActive(q)
  BY <1>3, AtCounts, AnswerCounts DEF CheckActive
<1>4. CASE ReadForRestore(q)
  <2> DEFINE pc == "compare"
  <2>1. /\ pc \in {"captured", "compare"} /\ call[q].pc \in {"capture", "read"}
        /\ call' = [call EXCEPT ![q].pc = pc, ![q].seenId = NoteId, ![q].seen = NoteText]
    BY <1>4 DEF ReadForRestore
  <2> HIDE DEF pc
  <2> QED BY <2>1, ReadCounts
<1>5. CASE Compare(q)
  BY <1>5, AtCounts, AnswerCounts DEF Compare
<1>6. CASE ApplyUpdate(q)
  <2>1. call[q].pc = "apply"
    BY <1>6 DEF ApplyUpdate
  <2>2. CASE Retry(q, "capture")
    BY <2>1, <2>2, RetryCounts
  <2>3. CASE \E now \in Clock : Replace(q, now)
    BY <2>3, WriteCounts DEF Replace
  <2>4. CASE Answer(q)
    BY <2>1, <2>4, AnswerCounts
  <2> QED BY <1>6, <2>2, <2>3, <2>4 DEF ApplyUpdate
<1>7. CASE ApplyCreate(q)
  BY <1>7, WriteCounts, AnswerCounts DEF ApplyCreate
<1>8. CASE ApplyRestore(q)
  <2>1. call[q].pc = "apply"
    BY <1>8 DEF ApplyRestore
  <2>2. CASE Retry(q, "read")
    BY <2>1, <2>2, RetryCounts
  <2>3. ASSUME NEW new, Transact(new, [call EXCEPT ![q] = NoCall])
        PROVE  \A r \in Request : Counts(r)
    BY <2>3, WriteCounts
  <2>4. CASE Answer(q)
    BY <2>1, <2>4, AnswerCounts
  <2> QED BY <1>8, <2>2, <2>3, <2>4 DEF ApplyRestore, Replace
<1> QED BY <1>1, <1>2, <1>3, <1>4, <1>5, <1>6, <1>7, <1>8 DEF Step

\* A request that has not begun has nothing to count.
LEMMA BeginCounts ==
    ASSUME IInv, Begin PROVE \A r \in Request : Counts(r)
<1>1. PICK q, d : call[q].pc = "idle" /\ call' = [call EXCEPT ![q] = d]
  BY DEF Begin, BeginUpdate, BeginCreate, BeginRestore
<1>2. call \in [Request -> CallRecord]
  BY TypeParts DEF IInv
<1> QED BY <1>1, <1>2 DEF Counts

LEMMA ClientCounts ==
    ASSUME IInv, Client, TypeOK' PROVE \A r \in Request : Counts(r)
<1>1. call \in [Request -> CallRecord] /\ \A q \in Request : call[q] \in {call[q], NoCall}
  BY TypeParts DEF IInv
<1>2. ASSUME NEW new, Transact(new, call) PROVE \A r \in Request : Counts(r)
  BY <1>1, <1>2, TransactCounts
<1>3. ASSUME UNCHANGED call PROVE \A r \in Request : Counts(r)
  BY <1>3 DEF Counts
<1> QED BY <1>2, <1>3 DEF Client, Insert, Erase, ClientCreates, ClientDeletes

LEMMA EvictCounts ==
    ASSUME IInv, Evict PROVE \A r \in Request : Counts(r)
<1> SUFFICES ASSUME NEW r \in Request, call[r].pc # "idle"
             PROVE  Remaining(call'[r]) < Remaining(call[r])
  BY DEF Counts
<1>1. call'[r] = NoCall
  BY DEF Evict
<1> QED BY <1>1, NoCallType, CallFacts, RemainingIs, RemainingPositive

\* What a request under way has left is a number.
Fits(r) == call[r].pc # "idle" => Remaining(call[r]) \in Nat

(***************************************************************************)
(* NoteWrites.EveryStepCounts, for every number of rounds: a bound on the  *)
(* steps of a request that no editing can raise.                           *)
(***************************************************************************)
THEOREM StepsCount == Spec => EveryStepCounts
<1>1. IInv /\ [Next]_vars /\ TypeOK' =>
        [\A r \in Request : call[r].pc # "idle" /\ call'[r].pc # call[r].pc
           => Remaining(call[r]) \in Nat /\ Remaining(call'[r]) < Remaining(call[r])]_vars
  <2> SUFFICES ASSUME IInv, Next, TypeOK'
               PROVE  \A r \in Request : Counts(r) /\ Fits(r)
    BY DEF Counts, Fits
  <2>1. \A r \in Request : Counts(r)
    <3>1. CASE Revoke
      BY <3>1 DEF Revoke, Counts
    <3> QED BY <3>1, BeginCounts, ClientCounts, EvictCounts, StepCounts DEF Next
  <2>2. \A r \in Request : Fits(r)
    BY CallFacts, RemainingPositive DEF Fits
  <2> QED BY <2>1, <2>2
<1> QED BY Invariance, TypeCorrect, <1>1, PTL DEF Spec, EveryStepCounts

=============================================================================
