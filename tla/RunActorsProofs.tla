---------------------------- MODULE RunActorsProofs ----------------------------
(***************************************************************************)
(* Proofs about RunActors, for any number of actors, slots, records and    *)
(* requests in flight.                                                     *)
(***************************************************************************)
EXTENDS RunActors, FiniteSetTheorems, FunctionTheorems, TLAPS

-----------------------------------------------------------------------------
(* The inductive invariant *)

\* What a request knows at each of its stages.
BegunRegister ==
    [pc : {"free", "read"}, op : {"register"}, late : SUBSET Actor, free : SUBSET Actor,
     batch : SUBSET Actor]

BegunRecover ==
    [pc : {"free", "read"}, op : {"recover"}, late : SUBSET Actor, free : SUBSET Actor,
     old : Actor, new : Actor, reason : {"expired", "abandoned"}]

ReadyRegister ==
    [pc : {"commit"}, op : {"register"},
     active : UNION {[batch -> 1..MaxActive] : batch \in SUBSET Actor}, records : Nat]

ReadyRecover ==
    [pc : {"commit"}, op : {"recover"}, old : Actor, new : Actor,
     reason : {"expired", "abandoned"}, had : BOOLEAN, active : 1..MaxActive, records : Nat]

Call == {Idle} \cup BegunRegister \cup BegunRecover \cup ReadyRegister \cup ReadyRecover

\* What a request knows and other requests cannot make untrue: its record
\* number is not ahead of the count, its slots differ from one another, and an
\* actor that had no slot when the recovery read it has none since.
CallFits(c) ==
    /\ c \in Call
    /\ c \in BegunRecover \cup ReadyRecover => status[c.old] # "none" /\ c.old # c.new
    /\ c \in ReadyRegister \cup ReadyRecover => c.records <= plane.records
    /\ c \in ReadyRegister =>
         \A a, b \in DOMAIN c.active : c.active[a] = c.active[b] => a = b
    /\ c \in ReadyRecover => (~c.had => slot[c.old] = 0)

CallsFit == call \in [Slot -> Call] /\ \A s \in Slot : CallFits(call[s])

\* Recoveries are one to one, and their first actors have left their slots.
SuccessorFits ==
    /\ successor \subseteq Actor \X Actor
    /\ \A p \in successor :
          status[p[1]] # "none" /\ slot[p[1]] = 0 /\ status[p[2]] # "none"
    /\ \A p, q \in successor : (p[1] = q[1] \/ p[2] = q[2]) => p = q

IInv == ActorsInv /\ NoCapacityLost /\ CallsFit /\ SuccessorFits

\* The stage and the operation tell the records of a request apart.
LEMMA Kinds ==
    ASSUME NEW c
    PROVE  /\ c = Idle => c.pc = "idle"
           /\ c \in BegunRegister => c.pc \in {"free", "read"} /\ c.op = "register"
           /\ c \in BegunRecover => c.pc \in {"free", "read"} /\ c.op = "recover"
           /\ c \in ReadyRegister => c.pc = "commit" /\ c.op = "register"
           /\ c \in ReadyRecover => c.pc = "commit" /\ c.op = "recover"
  BY DEF Idle, BegunRegister, BegunRecover, ReadyRegister, ReadyRecover

LEMMA IdleFits == CallFits(Idle)
  BY Kinds DEF CallFits, Call

-----------------------------------------------------------------------------
(* Slots and numbers *)

\* Actors with different slots are not more than the slots.
LEMMA SlotsBound ==
    ASSUME TypeOK, ActiveHasSlot, NEW S \in SUBSET Occupied
    PROVE  IsFiniteSet(S) /\ Cardinality(S) \in 0..MaxActive
<1> DEFINE f == [a \in S |-> slot[a]]
<1>1. S \subseteq Actor /\ IsFiniteSet(S)
  BY ActorsAssumption, FS_Subset DEF ActorsAssumption, Occupied
<1>2. \A a \in S : f[a] \in 1..MaxActive
  BY ActorsAssumption DEF ActorsAssumption, TypeOK, Occupied
<1>3. f \in Injection(S, 1..MaxActive)
  BY <1>2 DEF Injection, IsInjective, ActiveHasSlot
<1>4. IsFiniteSet(1..MaxActive) /\ Cardinality(1..MaxActive) = MaxActive
  BY ActorsAssumption, FS_Interval DEF ActorsAssumption
<1>5. Cardinality(S) <= MaxActive
  BY <1>3, <1>4, FS_Injection
<1> QED BY <1>1, <1>5, FS_CardinalityType, ActorsAssumption DEF ActorsAssumption

LEMMA SlotsBoundNext ==
    (TypeOK /\ ActiveHasSlot => IsFiniteSet(Occupied) /\ Cardinality(Occupied) \in 0..MaxActive)'
<1>1. TypeOK /\ ActiveHasSlot => IsFiniteSet(Occupied) /\ Cardinality(Occupied) \in 0..MaxActive
  BY SlotsBound
<1> QED BY <1>1, PTL

\* The record slots of a batch are the numbers that follow the last.
LEMMA NumberedIs ==
    ASSUME NEW names, IsFiniteSet(names), NEW first \in Nat
    PROVE  LET numbers == first..(first + Cardinality(names) - 1)
           IN  /\ Numbered(names, first) \in [names -> numbers]
               /\ {Numbered(names, first)[a] : a \in names} = numbers
<1> DEFINE numbers == first..(first + Cardinality(names) - 1)
<1>1. Cardinality(names) \in Nat
  BY FS_CardinalityType
<1>2. IsFiniteSet(numbers) /\ Cardinality(numbers) = Cardinality(names)
  <2>1. PICK last : last = first + Cardinality(names) - 1
    OBVIOUS
  <2>2. last \in Int /\ first \in Int
        /\ (IF first > last THEN 0 ELSE last - first + 1) = Cardinality(names)
    BY <1>1, <2>1
  <2>3. IsFiniteSet(first..last) /\ Cardinality(first..last) = Cardinality(names)
    BY <2>2, FS_Interval
  <2> QED BY <2>1, <2>3
<1>3. ExistsBijection(names, numbers)
  <2> HIDE DEF numbers
  <2> QED BY <1>2, FS_SameCardinalityBij
<1>4. Assignments(names, numbers) # {}
  <2>1. PICK f : f \in Bijection(names, numbers)
    BY <1>3 DEF ExistsBijection
  <2>2. f \in Assignments(names, numbers)
    BY <2>1 DEF Bijection, Injection, IsInjective, Assignments
  <2> QED BY <2>2
<1> DEFINE f == Numbered(names, first)
<1>5. f \in Assignments(names, numbers)
  BY <1>4 DEF Numbered
<1> HIDE DEF f
<1>6. f \in Injection(names, numbers)
  BY <1>5 DEF Assignments, Injection, IsInjective
<1>7. f \in Surjection(names, numbers)
  <2> HIDE DEF numbers
  <2> QED BY <1>2, <1>6, FS_Injection
<1>8. f \in [names -> numbers] /\ {f[a] : a \in names} = numbers
  BY <1>7 DEF Surjection
<1> QED BY <1>8 DEF f

-----------------------------------------------------------------------------
(* Steps of requests *)

\* What a step may do to the rows without another request noticing.
Forward ==
    /\ plane.records \in Nat /\ plane'.records \in Nat /\ plane.records <= plane'.records
    /\ \A a \in Actor : status[a] # "none" =>
          status'[a] # "none" /\ (slot[a] = 0 => slot'[a] = 0)

LEMMA StillFits ==
    ASSUME Forward, NEW c, CallFits(c) PROVE CallFits(c)'
<1>1. c \in BegunRecover \cup ReadyRecover => c.old \in Actor
  BY DEF BegunRecover, ReadyRecover
<1>2. c \in ReadyRegister \cup ReadyRecover => c.records \in Nat
  BY DEF ReadyRegister, ReadyRecover
<1>3. c \in ReadyRecover => (~c.had => status[c.old] # "none" /\ slot[c.old] = 0)
  BY DEF CallFits
<1> QED BY <1>1, <1>2, <1>3 DEF CallFits, Forward

LEMMA CallsStep ==
    ASSUME CallsFit, Forward, NEW s \in Slot, NEW c, Proceed(s, c), CallFits(c)'
    PROVE  CallsFit'
<1>1. call' = [call EXCEPT ![s] = c] /\ c \in Call /\ call \in [Slot -> Call]
  BY DEF Proceed, CallsFit, CallFits
<1>2. call' \in [Slot -> Call]
  BY <1>1
<1>3. ASSUME NEW q \in Slot PROVE CallFits(call[q])'
  <2>1. PICK d : d = call'[q]
    OBVIOUS
  <2>2. CASE q = s
    <3>1. d = c
      BY <1>1, <2>1, <2>2
    <3>2. CallFits(d)'
      BY <3>1
    <3> QED BY <2>1, <3>2 DEF CallFits
  <2>3. CASE q # s
    <3>1. d = call[q]
      BY <1>1, <2>1, <2>3
    <3>2. CallFits(d)
      BY <3>1 DEF CallsFit
    <3>3. CallFits(d)'
      BY <3>2, StillFits
    <3> QED BY <2>1, <3>3 DEF CallFits
  <2> QED BY <2>2, <2>3
<1> QED BY <1>2, <1>3 DEF CallsFit

LEMMA CallsStay == ASSUME CallsFit, Forward, UNCHANGED call PROVE CallsFit'
<1>1. ASSUME NEW q \in Slot PROVE CallFits(call[q])'
  <2>1. PICK d : d = call[q] /\ CallFits(d)
    BY DEF CallsFit
  <2>2. CallFits(d)'
    BY <2>1, StillFits
  <2> QED BY <2>1, <2>2 DEF CallFits
<1> QED BY <1>1 DEF CallsFit

LEMMA SameRowsForward == ASSUME TypeOK, UNCHANGED rows PROVE Forward
  BY ActorsAssumption DEF TypeOK, rows, Forward, ActorsAssumption

\* A step that leaves the rows alone.
LEMMA RowsInv ==
    ASSUME IInv, UNCHANGED rows, open' \in BOOLEAN, lapsed' \subseteq Actor, CallsFit'
    PROVE  IInv'
<1>1. TypeOK' /\ ActiveHasSlot' /\ RecordsDense'
  BY DEF IInv, ActorsInv, TypeOK, ActiveHasSlot, RecordsDense, Occupied, rows
<1>2. NoCapacityLost' /\ SuccessorFits'
  BY DEF IInv, NoCapacityLost, SuccessorFits, Occupied, rows
<1> QED BY <1>1, <1>2 DEF IInv, ActorsInv

LEMMA InitInv == Init => IInv
<1> SUFFICES ASSUME Init PROVE IInv
  OBVIOUS
<1>1. TypeOK /\ ActiveHasSlot
  BY ActorsAssumption DEF Init, TypeOK, ActiveHasSlot, Occupied, ActorsAssumption
<1>2. RecordsDense
  BY DEF Init, RecordsDense
<1>3. NoCapacityLost
  <2>1. Occupied = {}
    BY DEF Init, Occupied
  <2> QED BY <2>1, FS_EmptySet DEF Init, NoCapacityLost
<1>4. CallsFit
  BY IdleFits DEF Init, CallsFit, Call
<1>5. SuccessorFits
  BY DEF Init, SuccessorFits
<1> QED BY <1>1, <1>2, <1>3, <1>4, <1>5 DEF IInv, ActorsInv

LEMMA BeginRegisterInv ==
    ASSUME IInv, NEW s \in Slot, NEW batch \in SUBSET Actor, BeginRegister(s, batch)
    PROVE  IInv'
<1>0. TypeOK /\ CallsFit
  BY DEF IInv, ActorsInv
<1>1. PICK c : c = [pc |-> First, op |-> "register", late |-> lapsed, free |-> Overdue(lapsed),
                    batch |-> batch]
  OBVIOUS
<1>2. Proceed(s, c) /\ UNCHANGED <<open, lapsed, rows>>
  BY <1>1 DEF BeginRegister, Begin
<1>3. c \in BegunRegister
  BY <1>0, <1>1 DEF BegunRegister, First, Overdue, TypeOK
<1>4. CallFits(c)'
  BY <1>3, Kinds DEF CallFits, Call
<1>5. CallsFit'
  BY <1>0, <1>2, <1>4, CallsStep, SameRowsForward
<1> QED BY <1>0, <1>2, <1>5, RowsInv DEF TypeOK

LEMMA BeginRecoverInv ==
    ASSUME IInv, NEW s \in Slot, NEW old \in Actor, NEW new \in Actor,
           NEW reason \in {"expired", "abandoned"}, BeginRecover(s, old, new, reason)
    PROVE  IInv'
<1>0. TypeOK /\ CallsFit
  BY DEF IInv, ActorsInv
<1>1. PICK c : c = [pc |-> First, op |-> "recover", late |-> lapsed, free |-> Overdue(lapsed),
                    old |-> old, new |-> new, reason |-> reason]
  OBVIOUS
<1>2. Proceed(s, c) /\ UNCHANGED <<open, lapsed, rows>>
  BY <1>1 DEF BeginRecover, Begin
<1>3. c \in BegunRecover /\ c.old = old /\ c.new = new
  BY <1>0, <1>1 DEF BegunRecover, First, Overdue, TypeOK
<1>4. CallFits(c)
  BY <1>3, Kinds DEF CallFits, Call, BeginRecover
<1>5. CallFits(c)'
  BY <1>0, <1>2, <1>4, StillFits, SameRowsForward
<1>6. CallsFit'
  BY <1>0, <1>2, <1>5, CallsStep, SameRowsForward
<1> QED BY <1>0, <1>2, <1>6, RowsInv DEF TypeOK

\* A request that ends.
LEMMA EndInv ==
    ASSUME IInv, NEW s \in Slot, Proceed(s, Idle), UNCHANGED <<open, lapsed, rows>>
    PROVE  IInv'
<1>0. TypeOK /\ CallsFit
  BY DEF IInv, ActorsInv
<1>1. PICK c : c = Idle
  OBVIOUS
<1>2. CallFits(c)
  BY <1>1, IdleFits
<1>3. CallFits(c)'
  BY <1>0, <1>2, StillFits, SameRowsForward
<1>4. CallsFit'
  BY <1>0, <1>1, <1>3, CallsStep, SameRowsForward
<1> QED BY <1>0, <1>4, RowsInv DEF TypeOK

\* A request in flight, by its stage and operation.
LEMMA CallKnown ==
    ASSUME IInv, NEW s \in Slot
    PROVE  /\ CallFits(call[s])
           /\ call[s].pc = "free" => call[s] \in BegunRegister \cup BegunRecover
           /\ call[s].pc = "read" /\ call[s].op = "register" => call[s] \in BegunRegister
           /\ call[s].pc = "read" /\ call[s].op = "recover" => call[s] \in BegunRecover
           /\ call[s].pc = "commit" /\ call[s].op = "register" => call[s] \in ReadyRegister
           /\ call[s].pc = "commit" /\ call[s].op = "recover" => call[s] \in ReadyRecover
<1>1. CallFits(call[s]) /\ call[s] \in Call
  BY DEF IInv, CallsFit
<1> QED BY <1>1, Kinds DEF Call

\* Going from freeing slots to reading changes nothing of what is known.
LEMMA FreedFits ==
    ASSUME NEW c, CallFits(c), c \in BegunRegister \cup BegunRecover
    PROVE  CallFits([c EXCEPT !.pc = "read"])
<1> DEFINE d == [c EXCEPT !.pc = "read"]
<1>1. CASE c \in BegunRegister
  <2>1. d \in BegunRegister
    BY <1>1 DEF BegunRegister
  <2> HIDE DEF d
  <2>2. CallFits(d)
    BY <2>1, Kinds DEF CallFits, Call
  <2> QED BY <2>2 DEF d
<1>2. CASE c \in BegunRecover
  <2>1. d \in BegunRecover /\ d.old = c.old /\ d.new = c.new
    BY <1>2 DEF BegunRecover
  <2> HIDE DEF d
  <2>2. CallFits(d)
    BY <1>2, <2>1, Kinds DEF CallFits, Call
  <2> QED BY <2>2 DEF d
<1> QED BY <1>1, <1>2

(***************************************************************************)
(* Freeing slots: whoever got a slot since the select keeps its status     *)
(* exactly if it keeps its slot, and the count is taken anew.              *)
(***************************************************************************)
LEMMA ReconcileInv == ASSUME IInv, NEW s \in Slot, Reconcile(s) PROVE IInv'
<1> DEFINE free == call[s].free
<1>0. TypeOK /\ ActiveHasSlot /\ RecordsDense /\ NoCapacityLost /\ CallsFit /\ SuccessorFits
  BY DEF IInv, ActorsInv
<1>1. /\ slot' = [a \in Actor |-> IF a \in free THEN 0 ELSE slot[a]]
      /\ status' = [a \in Actor |-> IF a \in free /\ status[a] = "active" THEN "expired"
                                   ELSE status[a]]
      /\ UNCHANGED <<open, lapsed, record, successor>>
  BY DEF Reconcile, Freed
<1>2. Occupied' \subseteq Occupied /\ Occupied' = {a \in Actor : Freed(free)[a] # 0}
  BY <1>0, <1>1 DEF Occupied, Freed, TypeOK
<1>3. Counted(free) = Cardinality(Occupied') /\ Counted(free) \in 0..MaxActive
  <2>1. PICK S : S = Occupied'
    OBVIOUS
  <2>2. Cardinality(S) \in 0..MaxActive
    BY <1>0, <1>2, <2>1, SlotsBound
  <2> QED BY <1>2, <2>1, <2>2 DEF Counted
<1>4. /\ plane' = [plane EXCEPT !.active = Counted(free)]
      /\ account' = [account EXCEPT !.active = Counted(free)]
  BY DEF Reconcile
<1> HIDE DEF free
<1>5. TypeOK'
  <2>1. slot' \in [Actor -> 0..MaxActive]
    BY <1>0, <1>1, ActorsAssumption DEF TypeOK, ActorsAssumption
  <2>2. status' \in [Actor -> {"none", "active", "expired", "revoked"}]
    BY <1>0, <1>1 DEF TypeOK
  <2>3. /\ plane' \in [active : 0..MaxActive, records : 0..MaxRecords]
        /\ account' \in [active : 0..MaxActive, records : 0..MaxRecords]
    BY <1>0, <1>3, <1>4 DEF TypeOK
  <2> QED BY <1>0, <1>1, <2>1, <2>2, <2>3 DEF TypeOK
<1>6. ActiveHasSlot'
  BY <1>0, <1>1 DEF ActiveHasSlot, Occupied
<1>7. plane'.records = plane.records
  BY <1>0, <1>4 DEF TypeOK
<1>8. RecordsDense'
  BY <1>0, <1>1, <1>7 DEF RecordsDense
<1>9. NoCapacityLost'
  BY <1>0, <1>3, <1>4, <1>5, ActorsAssumption DEF NoCapacityLost, TypeOK, ActorsAssumption
<1>10. Forward
  BY <1>0, <1>1, <1>7, ActorsAssumption DEF Forward, TypeOK, ActorsAssumption
<1>11. SuccessorFits'
  BY <1>0, <1>1 DEF SuccessorFits
<1>12. CallsFit'
  <2>1. PICK c : c = call[s]
    OBVIOUS
  <2>2. CallFits(c) /\ c \in BegunRegister \cup BegunRecover
    BY <2>1, CallKnown DEF Reconcile
  <2>3. PICK d : d = [c EXCEPT !.pc = "read"] /\ CallFits(d)
    BY <2>2, FreedFits
  <2>4. CallFits(d)'
    BY <1>10, <2>3, StillFits
  <2>5. Proceed(s, d)
    BY <2>1, <2>3 DEF Reconcile
  <2> QED BY <1>0, <1>10, <2>4, <2>5, CallsStep
<1> QED BY <1>5, <1>6, <1>8, <1>9, <1>11, <1>12 DEF IInv, ActorsInv

LEMMA ReadRegisterInv == ASSUME IInv, NEW s \in Slot, ReadRegister(s) PROVE IInv'
<1>0. TypeOK /\ CallsFit /\ UNCHANGED <<open, lapsed, rows>>
  BY DEF IInv, ActorsInv, ReadRegister
<1> DEFINE n == Cardinality(call[s].batch)
<1>1. CASE Proceed(s, Idle)
  BY <1>0, <1>1, EndInv
<1>2. ASSUME NEW f \in Assignments(call[s].batch, Lowest(n)),
             Proceed(s, [pc |-> "commit", op |-> "register", active |-> f,
                         records |-> plane.records])
      PROVE  IInv'
  <2>1. PICK batch : batch = call[s].batch /\ batch \in SUBSET Actor
    BY CallKnown DEF ReadRegister, BegunRegister
  <2>2. Lowest(n) \subseteq 1..MaxActive
    BY DEF Lowest, FreeSlots
  <2>3. f \in [batch -> 1..MaxActive] /\ \A a, b \in batch : f[a] = f[b] => a = b
    BY <1>2, <2>1, <2>2 DEF Assignments
  <2>4. PICK c : c = [pc |-> "commit", op |-> "register", active |-> f, records |-> plane.records]
    OBVIOUS
  <2>5. plane.records \in Nat
    BY <1>0, ActorsAssumption DEF TypeOK, ActorsAssumption
  <2>6. c \in ReadyRegister /\ c.active = f /\ c.records = plane.records
    <3>1. f \in UNION {[b -> 1..MaxActive] : b \in SUBSET Actor}
      BY <2>1, <2>3
    <3> QED BY <2>4, <2>5, <3>1 DEF ReadyRegister
  <2>7. CallFits(c)
    BY <2>3, <2>5, <2>6, Kinds DEF CallFits, Call
  <2>8. CallFits(c)'
    BY <1>0, <2>7, StillFits, SameRowsForward
  <2>9. CallsFit'
    BY <1>0, <1>2, <2>4, <2>8, CallsStep, SameRowsForward
  <2> QED BY <1>0, <2>9, RowsInv DEF TypeOK
<1> QED BY <1>1, <1>2 DEF ReadRegister

LEMMA ReadRecoverInv == ASSUME IInv, NEW s \in Slot, ReadRecover(s) PROVE IInv'
<1>0. TypeOK /\ CallsFit /\ UNCHANGED <<open, lapsed, rows>>
  BY DEF IInv, ActorsInv, ReadRecover
<1> DEFINE old == call[s].old
<1>1. CASE Proceed(s, Idle)
  BY <1>0, <1>1, EndInv
<1>2. ASSUME NEW i \in (IF slot[old] # 0 THEN {slot[old]} ELSE Lowest(1)),
             Proceed(s, [pc |-> "commit", op |-> "recover", old |-> old,
                         new |-> call[s].new, reason |-> call[s].reason,
                         had |-> slot[old] # 0, active |-> i, records |-> plane.records])
      PROVE  IInv'
  <2>1. /\ call[s] \in BegunRecover /\ CallFits(call[s])
        /\ old \in Actor /\ call[s].new \in Actor
        /\ call[s].reason \in {"expired", "abandoned"}
    BY CallKnown DEF ReadRecover, BegunRecover
  <2>2. status[old] # "none" /\ old # call[s].new
    BY <2>1 DEF CallFits
  <2>3. i \in 1..MaxActive
    <3>1. Lowest(1) \subseteq 1..MaxActive
      BY DEF Lowest, FreeSlots
    <3>2. slot[old] \in 0..MaxActive
      BY <1>0, <2>1 DEF TypeOK
    <3> QED BY <1>2, <3>1, <3>2, ActorsAssumption DEF ActorsAssumption
  <2>4. plane.records \in Nat
    BY <1>0, ActorsAssumption DEF TypeOK, ActorsAssumption
  <2>5. PICK c : c = [pc |-> "commit", op |-> "recover", old |-> old,
                      new |-> call[s].new, reason |-> call[s].reason,
                      had |-> slot[old] # 0, active |-> i, records |-> plane.records]
    OBVIOUS
  <2>7. /\ c \in ReadyRecover /\ c.old = old /\ c.new = call[s].new
        /\ c.records = plane.records /\ (~c.had => slot[c.old] = 0)
    <3>1. (slot[old] # 0) \in BOOLEAN
      OBVIOUS
    <3> QED BY <2>1, <2>3, <2>4, <2>5, <3>1 DEF ReadyRecover
  <2>8. CallFits(c)
    BY <2>2, <2>4, <2>7, Kinds DEF CallFits, Call
  <2>9. CallFits(c)'
    BY <1>0, <2>8, StillFits, SameRowsForward
  <2>10. CallsFit'
    BY <1>0, <1>2, <2>5, <2>9, CallsStep, SameRowsForward
  <2> QED BY <1>0, <2>10, RowsInv DEF TypeOK
<1> QED BY <1>1, <1>2 DEF ReadRecover

LEMMA CompleteInv == IInv /\ Complete => IInv'
<1> SUFFICES ASSUME IInv, Complete PROVE IInv'
  OBVIOUS
<1>0. TypeOK /\ ActiveHasSlot /\ RecordsDense /\ NoCapacityLost /\ CallsFit /\ SuccessorFits
  BY DEF IInv, ActorsInv
<1>1. /\ status' = [a \in Actor |-> IF status[a] = "active" THEN "revoked" ELSE status[a]]
      /\ slot' = [a \in Actor |-> 0] /\ open' = FALSE
      /\ plane' = [plane EXCEPT !.active = 0] /\ account' = [account EXCEPT !.active = 0]
      /\ UNCHANGED <<lapsed, record, successor, call>>
  BY DEF Complete
<1>2. TypeOK' /\ plane'.active = 0 /\ plane'.records = plane.records
  <2>1. 0 \in 0..MaxActive
    BY ActorsAssumption DEF ActorsAssumption
  <2>2. /\ plane' \in [active : 0..MaxActive, records : 0..MaxRecords]
        /\ account' \in [active : 0..MaxActive, records : 0..MaxRecords]
        /\ plane'.active = 0 /\ plane'.records = plane.records
    BY <1>0, <1>1, <2>1 DEF TypeOK
  <2>3. slot' \in [Actor -> 0..MaxActive]
    BY <1>1, <2>1
  <2>4. status' \in [Actor -> {"none", "active", "expired", "revoked"}]
    BY <1>0, <1>1 DEF TypeOK
  <2> QED BY <1>0, <1>1, <2>2, <2>3, <2>4 DEF TypeOK
<1>3. Occupied' = {}
  BY <1>1 DEF Occupied
<1>4. ActiveHasSlot' /\ RecordsDense'
  BY <1>0, <1>1, <1>2, <1>3 DEF ActiveHasSlot, RecordsDense
<1>5. NoCapacityLost'
  <2>1. Cardinality({}) = 0
    BY FS_EmptySet
  <2> QED BY <1>0, <1>1, <1>2, <1>3, <2>1 DEF NoCapacityLost
<1>6. Forward
  BY <1>0, <1>1, <1>2, ActorsAssumption DEF Forward, TypeOK, ActorsAssumption
<1>7. SuccessorFits' /\ CallsFit'
  BY <1>0, <1>1, <1>6, CallsStay DEF SuccessorFits
<1> QED BY <1>2, <1>4, <1>5, <1>7 DEF IInv, ActorsInv

LEMMA LapseInv == ASSUME IInv, NEW a \in Actor, Lapse(a) PROVE IInv'
<1>1. CallsFit' /\ UNCHANGED rows
  BY CallsStay, SameRowsForward DEF IInv, ActorsInv, Lapse
<1>2. open' \in BOOLEAN /\ lapsed' \subseteq Actor
  BY DEF IInv, ActorsInv, TypeOK, Lapse
<1> QED BY <1>1, <1>2, RowsInv

-----------------------------------------------------------------------------
(* The batches that insert actors *)

\* A record number that no row has is the next, whenever it was read.
LEMMA NextRecord ==
    ASSUME TypeOK, RecordsDense, NEW records \in Nat, records <= plane.records,
           records + 1 \notin {record[a] : a \in Actor}
    PROVE  records = plane.records
<1>1. plane.records \in Nat
  BY ActorsAssumption DEF TypeOK, ActorsAssumption
<1>2. records + 1 \notin 1..plane.records
  BY DEF RecordsDense
<1> QED BY <1>1, <1>2

\* Actors without a row have no slot.
LEMMA UnusedHasNoSlot ==
    ASSUME TypeOK, ActiveHasSlot, NEW a \in Actor, Unused(a) PROVE slot[a] = 0
  BY DEF Unused, ActiveHasSlot

LEMMA CommitRegisterInv == ASSUME IInv, NEW s \in Slot, CommitRegister(s) PROVE IInv'
<1> DEFINE active == call[s].active
           batch == DOMAIN active
           n == Cardinality(batch)
           number == Numbered(batch, call[s].records + 1)
           fits == /\ Inserts(active, call[s].records + 1, slot)
                   /\ plane.active + n <= MaxActive /\ plane.records + n <= MaxRecords
<1>0. TypeOK /\ ActiveHasSlot /\ RecordsDense /\ NoCapacityLost /\ CallsFit /\ SuccessorFits
  BY DEF IInv, ActorsInv
<1>1. Proceed(s, Idle) /\ UNCHANGED <<open, lapsed, successor>>
  BY DEF CommitRegister
<1>2. CASE ~fits
  BY <1>1, <1>2, EndInv DEF CommitRegister, rows
<1>3. CASE fits
  <2>1. /\ status' = [a \in Actor |-> IF a \in batch THEN "active" ELSE status[a]]
        /\ slot' = [a \in Actor |-> IF a \in batch THEN active[a] ELSE slot[a]]
        /\ record' = [a \in Actor |-> IF a \in batch THEN number[a] ELSE record[a]]
        /\ plane' = [active |-> plane.active + n, records |-> plane.records + n]
        /\ account' = [active |-> account.active + n, records |-> account.records + n]
    BY <1>3 DEF CommitRegister
  <2>2. /\ batch \subseteq Actor /\ active \in [batch -> 1..MaxActive]
        /\ \A a, b \in batch : active[a] = active[b] => a = b
        /\ call[s].records \in Nat /\ call[s].records <= plane.records
    <3>1. call[s] \in ReadyRegister /\ CallFits(call[s])
      BY CallKnown DEF CommitRegister
    <3>2. PICK names \in SUBSET Actor : active \in [names -> 1..MaxActive]
      BY <3>1 DEF ReadyRegister
    <3>3. batch = names
      BY <3>2
    <3> QED BY <3>1, <3>2, <3>3 DEF CallFits, ReadyRegister
  <2>3. /\ \A a \in batch : status[a] = "none" /\ slot[a] = 0
        /\ \A a \in batch, b \in Actor : active[a] # slot[b]
    BY <1>0, <1>3, <2>2, UnusedHasNoSlot DEF Inserts, Unused
  <2>4. call[s].records = plane.records
    BY <1>0, <1>3, <2>2, NextRecord DEF Inserts
  <2>5. IsFiniteSet(batch) /\ n \in Nat
    BY <2>2, ActorsAssumption, FS_Subset, FS_CardinalityType DEF ActorsAssumption
  <2>6. plane.records \in Nat /\ plane.active \in Nat /\ MaxActive \in Nat /\ MaxRecords \in Nat
    BY <1>0, ActorsAssumption DEF TypeOK, ActorsAssumption
  <2> DEFINE numbers == (plane.records + 1)..(plane.records + n)
  <2>7. number \in [batch -> numbers] /\ {number[a] : a \in batch} = numbers
    <3>1. PICK first : first = call[s].records + 1 /\ first \in Nat
      BY <2>2
    <3>2. first + n - 1 = plane.records + n /\ first = plane.records + 1
      BY <2>4, <2>5, <2>6, <3>1
    <3>3. /\ Numbered(batch, first) \in [batch -> first..(first + n - 1)]
          /\ {Numbered(batch, first)[a] : a \in batch} = first..(first + n - 1)
      <4> HIDE DEF batch
      <4> QED BY <2>5, <3>1, NumberedIs
    <3> QED BY <3>1, <3>2, <3>3
  <2>8. plane' \in [active : 0..MaxActive, records : 0..MaxRecords] /\ account' = plane'
    BY <1>0, <1>3, <2>1, <2>5, <2>6 DEF NoCapacityLost
  <2> HIDE DEF active, batch, n, number
  <2>9. TypeOK'
    <3>1. slot' \in [Actor -> 0..MaxActive]
      BY <1>0, <2>1, <2>2, <2>6 DEF TypeOK
    <3>2. record' \in [Actor -> 0..MaxRecords]
      <4>1. numbers \subseteq 0..MaxRecords
        BY <1>3, <2>5, <2>6
      <4>2. \A a \in batch : number[a] \in 0..MaxRecords
        BY <2>7, <4>1
      <4> QED BY <1>0, <2>1, <4>2 DEF TypeOK
    <3>3. status' \in [Actor -> {"none", "active", "expired", "revoked"}]
      BY <1>0, <2>1 DEF TypeOK
    <3> QED BY <1>0, <1>1, <2>8, <3>1, <3>2, <3>3 DEF TypeOK
  <2>10. ActiveHasSlot'
    <3>1. \A a \in Actor : (status[a] = "active" <=> slot[a] # 0)'
      BY <1>0, <2>1, <2>2, <2>6 DEF ActiveHasSlot
    <3>2. \A a, b \in Occupied' : slot'[a] = slot'[b] => a = b
      BY <1>0, <2>1, <2>2, <2>3 DEF ActiveHasSlot, Occupied
    <3> QED BY <3>1, <3>2 DEF ActiveHasSlot
  <2>11. RecordsDense'
    <3>1. {b \in Actor : status'[b] # "none"} = {b \in Actor : status[b] # "none"} \cup batch
      BY <2>1, <2>2
    <3>2. {record'[a] : a \in {b \in Actor : status'[b] # "none"}}
            = {record[a] : a \in {b \in Actor : status[b] # "none"}} \cup {number[a] : a \in batch}
      BY <2>1, <2>2, <2>3, <3>1
    <3>3. 1..plane.records \cup numbers = 1..(plane.records + n)
      BY <2>5, <2>6
    <3>4. plane'.records = plane.records + n
      BY <2>1
    <3> QED BY <1>0, <2>7, <3>2, <3>3, <3>4 DEF RecordsDense
  <2>12. NoCapacityLost'
    <3>1. IsFiniteSet(Occupied) /\ Cardinality(Occupied) \in Nat
      BY <1>0, <2>6, SlotsBound
    <3>2. Occupied' = Occupied \cup batch
      BY <2>1, <2>2, <2>6 DEF Occupied
    <3>3. Occupied \cap batch = {}
      BY <2>3 DEF Occupied
    <3>4. Cardinality(Occupied \cup batch) = Cardinality(Occupied) + n
      <4>1. Cardinality(Occupied \cup batch)
              = Cardinality(Occupied) + Cardinality(batch) - Cardinality({})
        BY <2>5, <3>1, <3>3, FS_Union
      <4> QED BY <2>5, <3>1, <4>1, FS_EmptySet DEF n
    <3>5. plane'.active = plane.active + n /\ plane.active <= Cardinality(Occupied)
      BY <1>0, <2>1 DEF NoCapacityLost
    <3> QED BY <2>5, <2>6, <2>8, <3>1, <3>2, <3>4, <3>5 DEF NoCapacityLost
  <2>13. Forward
    BY <2>1, <2>3, <2>5, <2>6 DEF Forward
  <2>14. SuccessorFits'
    BY <1>0, <1>1, <2>1, <2>3 DEF SuccessorFits
  <2>15. CallsFit'
    <3>1. PICK c : c = Idle /\ CallFits(c)
      BY IdleFits
    <3> QED BY <1>0, <1>1, <2>13, <3>1, StillFits, CallsStep
  <2> QED BY <2>9, <2>10, <2>11, <2>12, <2>14, <2>15 DEF IInv, ActorsInv
<1> QED BY <1>2, <1>3

LEMMA CommitRecoverInv == ASSUME IInv, NEW s \in Slot, CommitRecover(s) PROVE IInv'
<1> DEFINE old == call[s].old
           new == call[s].new
           left == Left(s)
           fits == /\ Inserts([a \in {new} |-> call[s].active], call[s].records + 1, Freed({old}))
                   /\ plane.active >= left /\ plane.active - left + 1 <= MaxActive
                   /\ plane.records < MaxRecords
                   /\ NotSucceeded(old)
<1>0. TypeOK /\ ActiveHasSlot /\ RecordsDense /\ NoCapacityLost /\ CallsFit /\ SuccessorFits
  BY DEF IInv, ActorsInv
<1>1. Proceed(s, Idle) /\ UNCHANGED <<open, lapsed>>
  BY DEF CommitRecover
<1>2. CASE ~fits
  BY <1>1, <1>2, EndInv DEF CommitRecover
<1>3. CASE fits
  <2>1. /\ status' = [status EXCEPT ![new] = "active",
                          ![old] = IF status[old] \notin {"active", "expired"} THEN @
                                   ELSE IF call[s].reason = "expired" THEN "expired"
                                   ELSE "revoked"]
        /\ slot' = [Freed({old}) EXCEPT ![new] = call[s].active]
        /\ record' = [record EXCEPT ![new] = call[s].records + 1]
        /\ plane' = [active |-> plane.active - left + 1, records |-> plane.records + 1]
        /\ account' = [active |-> account.active + 1 - left, records |-> account.records + 1]
        /\ successor' = successor \cup {<<old, new>>}
    BY <1>3 DEF CommitRecover
  <2>2. /\ old \in Actor /\ new \in Actor /\ old # new /\ status[old] # "none"
        /\ call[s].active \in 1..MaxActive
        /\ call[s].records \in Nat /\ call[s].records <= plane.records
        /\ call[s].had \/ slot[old] = 0
    <3>1. call[s] \in ReadyRecover /\ CallFits(call[s])
      BY CallKnown DEF CommitRecover
    <3> QED BY <3>1 DEF CallFits, ReadyRecover
  <2> DEFINE number == call[s].active
  <2> HIDE DEF old, new, number
  <2>3. /\ status[new] = "none" /\ slot[new] = 0
        /\ \A b \in Actor : b # old => number # slot[b]
        /\ call[s].records + 1 \notin {record[a] : a \in Actor}
        /\ \A b \in Actor : <<old, b>> \notin successor
    <3>1. DOMAIN [a \in {new} |-> call[s].active] = {new}
      OBVIOUS
    <3>2. Unused(new) /\ call[s].active \notin {Freed({old})[b] : b \in Actor}
      BY <1>3, <3>1 DEF Inserts
    <3> QED BY <1>0, <1>3, <2>2, <3>2, UnusedHasNoSlot
          DEF Inserts, Unused, Freed, NotSucceeded, number
  <2>4. call[s].records = plane.records
    BY <1>0, <2>2, <2>3, NextRecord
  <2>5. /\ plane.records \in Nat /\ plane.active \in Nat /\ MaxActive \in Nat /\ MaxRecords \in Nat
        /\ left \in {0, 1}
    BY <1>0, ActorsAssumption DEF TypeOK, ActorsAssumption, Left
  <2>6. /\ slot' = [a \in Actor |-> IF a = new THEN number ELSE IF a = old THEN 0 ELSE slot[a]]
        /\ record' = [a \in Actor |-> IF a = new THEN plane.records + 1 ELSE record[a]]
    BY <1>0, <2>1, <2>2, <2>4 DEF Freed, TypeOK, number
  <2>7. /\ status' \in [Actor -> {"none", "active", "expired", "revoked"}]
        /\ status'[new] = "active" /\ status'[old] \in {"expired", "revoked"}
        /\ \A a \in Actor \ {old, new} : status'[a] = status[a]
    <3>1. \/ status'[old] = status[old] /\ status[old] \notin {"active", "expired"}
          \/ status'[old] \in {"expired", "revoked"}
      BY <1>0, <2>1, <2>2 DEF TypeOK
    <3> QED BY <1>0, <2>1, <2>2, <3>1 DEF TypeOK
  <2>8. plane' \in [active : 0..MaxActive, records : 0..MaxRecords] /\ account' = plane'
    <3>1. plane.active - left + 1 = plane.active + 1 - left /\ plane.active - left + 1 \in 0..MaxActive
      BY <1>3, <2>5
    <3>2. plane.records + 1 \in 0..MaxRecords
      BY <1>3, <2>5
    <3> QED BY <1>0, <2>1, <3>1, <3>2 DEF NoCapacityLost
  <2> HIDE DEF left
  <2>9. TypeOK'
    <3>1. slot' \in [Actor -> 0..MaxActive]
      BY <1>0, <2>2, <2>5, <2>6 DEF TypeOK, number
    <3>2. record' \in [Actor -> 0..MaxRecords]
      BY <1>0, <1>3, <2>5, <2>6 DEF TypeOK
    <3> QED BY <1>0, <1>1, <2>7, <2>8, <3>1, <3>2 DEF TypeOK
  <2>10. ActiveHasSlot'
    <3>0. number # 0
      BY <2>2, <2>5 DEF number
    <3>1. \A a \in Actor : (status[a] = "active" <=> slot[a] # 0)'
      BY <1>0, <2>2, <2>6, <2>7, <3>0 DEF ActiveHasSlot
    <3>2. \A a, b \in Occupied' : slot'[a] = slot'[b] => a = b
      BY <1>0, <2>2, <2>3, <2>6 DEF ActiveHasSlot, Occupied
    <3> QED BY <3>1, <3>2 DEF ActiveHasSlot
  <2>11. RecordsDense'
    <3>1. {b \in Actor : status'[b] # "none"} = {b \in Actor : status[b] # "none"} \cup {new}
      BY <2>2, <2>7
    <3>2. {record'[a] : a \in {b \in Actor : status'[b] # "none"}}
            = {record[a] : a \in {b \in Actor : status[b] # "none"}} \cup {plane.records + 1}
      BY <2>2, <2>3, <2>6, <3>1
    <3>3. 1..plane.records \cup {plane.records + 1} = 1..(plane.records + 1)
      BY <2>5
    <3>4. plane'.records = plane.records + 1
      BY <2>1
    <3> QED BY <1>0, <3>2, <3>3, <3>4 DEF RecordsDense
  <2>12. NoCapacityLost'
    <3>1. IsFiniteSet(Occupied) /\ Cardinality(Occupied) \in Nat
      BY <1>0, <2>5, SlotsBound
    <3>2. Occupied' = (Occupied \ {old}) \cup {new}
      BY <2>2, <2>5, <2>6 DEF Occupied, number
    <3>3. new \notin Occupied /\ (old \in Occupied => left = 1)
      BY <2>2, <2>3 DEF Occupied, left, Left, old
    <3>4. /\ IsFiniteSet(Occupied \ {old})
          /\ Cardinality(Occupied \ {old}) = IF old \in Occupied THEN Cardinality(Occupied) - 1
                                              ELSE Cardinality(Occupied)
      BY <3>1, FS_RemoveElement
    <3>5. Cardinality(Occupied') = Cardinality(Occupied \ {old}) + 1
      BY <3>2, <3>3, <3>4, FS_AddElement
    <3>6. plane'.active = plane.active - left + 1 /\ plane.active <= Cardinality(Occupied)
      BY <1>0, <2>1 DEF NoCapacityLost
    <3>7. plane'.active <= Cardinality(Occupied')
      BY <2>5, <3>1, <3>3, <3>4, <3>5, <3>6 DEF left
    <3> QED BY <2>8, <3>7 DEF NoCapacityLost
  <2>13. Forward
    <3>1. plane'.records = plane.records + 1
      BY <2>1
    <3>2. \A a \in Actor : status[a] # "none" =>
             status'[a] # "none" /\ (slot[a] = 0 => slot'[a] = 0)
      BY <2>2, <2>3, <2>6, <2>7
    <3> QED BY <2>5, <3>1, <3>2 DEF Forward
  <2>14. SuccessorFits'
    <3>1. successor' = successor \cup {<<old, new>>} /\ successor \subseteq Actor \X Actor
      BY <1>0, <2>1 DEF SuccessorFits
    <3>2. \A p \in successor : status'[p[1]] # "none" /\ slot'[p[1]] = 0 /\ status'[p[2]] # "none"
      BY <1>0, <2>13, <3>1 DEF SuccessorFits, Forward
    <3>3. status'[old] # "none" /\ slot'[old] = 0 /\ status'[new] # "none"
      BY <2>2, <2>6, <2>7
    <3>4. \A p \in successor : p[1] # old /\ p[2] # new
      BY <1>0, <2>3, <3>1 DEF SuccessorFits
    <3>5. \A p, q \in successor' : (p[1] = q[1] \/ p[2] = q[2]) => p = q
      BY <1>0, <3>1, <3>4 DEF SuccessorFits
    <3>6. successor' \subseteq Actor \X Actor
      BY <2>2, <3>1
    <3>7. \A p \in successor' : status'[p[1]] # "none" /\ slot'[p[1]] = 0 /\ status'[p[2]] # "none"
      BY <3>1, <3>2, <3>3
    <3> QED BY <3>5, <3>6, <3>7 DEF SuccessorFits
  <2>15. CallsFit'
    <3>1. PICK c : c = Idle /\ CallFits(c)
      BY IdleFits
    <3> QED BY <1>0, <1>1, <2>13, <3>1, StillFits, CallsStep
  <2> QED BY <2>9, <2>10, <2>11, <2>12, <2>14, <2>15 DEF IInv, ActorsInv
<1> QED BY <1>2, <1>3

-----------------------------------------------------------------------------
(* The theorems *)

LEMMA RequestInv == ASSUME IInv, NEW s \in Slot, Request(s) PROVE IInv'
<1>1. CASE Fail(s)
  BY <1>1, EndInv DEF Fail
<1> QED BY <1>1, BeginRegisterInv, BeginRecoverInv, ReconcileInv, ReadRegisterInv,
           CommitRegisterInv, ReadRecoverInv, CommitRecoverInv DEF Request

LEMMA NextInv == IInv /\ [Next]_vars => IInv'
<1> SUFFICES ASSUME IInv, [Next]_vars PROVE IInv'
  OBVIOUS
<1>1. CASE UNCHANGED vars
  <2>1. UNCHANGED rows /\ CallsFit'
    BY <1>1, CallsStay, SameRowsForward DEF vars, rows, IInv, ActorsInv
  <2> QED BY <1>1, <2>1, RowsInv DEF vars, IInv, ActorsInv, TypeOK
<1> QED BY <1>1, RequestInv, CompleteInv, LapseInv DEF Next

\* The inductive invariant holds in every reachable state.
THEOREM Invariance == Spec => []IInv
  BY InitInv, NextInv, PTL DEF Spec

(***************************************************************************)
(* RunActors.ActorsInv, for every instance: an active actor holds a slot   *)
(* of its own, and the records are numbered without gaps.                  *)
(***************************************************************************)
THEOREM ActorsStand == Spec => []ActorsInv
<1>1. IInv => ActorsInv
  BY DEF IInv
<1> QED BY Invariance, <1>1, PTL

(***************************************************************************)
(* RunActors.NoCapacityLost, for every instance: the counters agree and    *)
(* never count a slot that nobody holds.                                   *)
(***************************************************************************)
THEOREM CapacityKept == Spec => []NoCapacityLost
<1>1. IInv => NoCapacityLost
  BY DEF IInv
<1> QED BY Invariance, <1>1, PTL

\* An actor that is retired is made active by no request: registrations and
\* recoveries insert only actors that have no row.
LEMMA RetiredStays ==
    ASSUME IInv, Next, NEW a \in Actor, status[a] \in {"expired", "revoked"}
    PROVE  status'[a] # "active"
<1>0. status \in [Actor -> {"none", "active", "expired", "revoked"}]
  BY DEF IInv, ActorsInv, TypeOK
<1>1. CASE \E s \in Slot : Request(s)
  <2>1. PICK s \in Slot : Request(s)
    BY <1>1
  <2>2. CASE CommitRegister(s)
    <3>1. CASE UNCHANGED status
      BY <3>1
    <3>2. CASE Inserts(call[s].active, call[s].records + 1, slot)
               /\ status' = [b \in Actor |-> IF b \in DOMAIN call[s].active THEN "active"
                                            ELSE status[b]]
      BY <3>2 DEF Inserts, Unused
    <3> QED BY <2>2, <3>1, <3>2 DEF CommitRegister
  <2>3. CASE CommitRecover(s)
    <3>1. CASE UNCHANGED status
      BY <3>1
    <3>2. CASE /\ Inserts([b \in {call[s].new} |-> call[s].active], call[s].records + 1,
                          Freed({call[s].old}))
               /\ status' = [status EXCEPT ![call[s].new] = "active",
                      ![call[s].old] = IF status[call[s].old] \notin {"active", "expired"} THEN @
                                       ELSE IF call[s].reason = "expired" THEN "expired"
                                       ELSE "revoked"]
      <4>1. /\ call[s].old \in Actor /\ call[s].new \in Actor /\ call[s].old # call[s].new
        BY <2>3, CallKnown DEF CommitRecover, CallFits, ReadyRecover
      <4>2. Unused(call[s].new)
        BY <3>2 DEF Inserts
      <4>3. a # call[s].new
        BY <4>2 DEF Unused
      <4> QED BY <1>0, <3>2, <4>1, <4>3
    <3> QED BY <2>3, <3>1, <3>2 DEF CommitRecover, rows
  <2>4. CASE Reconcile(s)
    BY <2>4 DEF Reconcile
  <2> QED BY <2>1, <2>2, <2>3, <2>4
        DEF Request, BeginRegister, BeginRecover, Begin, ReadRegister, ReadRecover, Fail, rows
<1>2. CASE Complete
  BY <1>2 DEF Complete
<1>3. CASE \E b \in Actor : Lapse(b)
  BY <1>3 DEF Lapse, rows
<1> QED BY <1>1, <1>2, <1>3 DEF Next

(***************************************************************************)
(* RunActors.NeverRevived, for every instance.                             *)
(***************************************************************************)
THEOREM RetiredForGood == Spec => NeverRevived
<1>1. IInv /\ IInv' /\ [Next]_vars =>
        [/\ \A a \in Actor : status[a] \in {"expired", "revoked"} => status'[a] # "active"
         /\ \A p, q \in successor' : (p[1] = q[1] \/ p[2] = q[2]) => p = q
         /\ \A p \in successor' : slot'[p[1]] = 0]_vars
  <2> SUFFICES ASSUME IInv, IInv', Next
               PROVE  /\ \A a \in Actor : status[a] \in {"expired", "revoked"} => status'[a] # "active"
                      /\ \A p, q \in successor' : (p[1] = q[1] \/ p[2] = q[2]) => p = q
                      /\ \A p \in successor' : slot'[p[1]] = 0
    OBVIOUS
  <2>1. SuccessorFits'
    BY DEF IInv
  <2> QED BY <2>1, RetiredStays DEF SuccessorFits
<1> QED BY Invariance, <1>1, PTL DEF Spec, NeverRevived

=============================================================================
