----------------------------- MODULE RunActors -----------------------------
(***************************************************************************)
(* The actors of an elastic run: they are registered in batches into a     *)
(* bounded number of active slots, their lifetimes run out, and an actor   *)
(* that is lost is replaced by a successor that inherits its slot.         *)
(*                                                                         *)
(* A request first frees the slots of actors whose lifetime is over        *)
(* (select, then a batch), then reads counts and free slots, and commits   *)
(* in a later batch.  Other requests run in between; the unique indexes    *)
(* and CHECKs of project_elastic_actor_slots and project_elastic_planes    *)
(* are what the batch relies on.                                           *)
(*                                                                         *)
(* What is abstracted.  Time is the set of actors whose lifetime is over;  *)
(* a request knows that set as it was when it began.  The lease, receipts  *)
(* and keys are in LeadContinuity and LeadRun: here a request that loses   *)
(* its lease ends without a commit (Fail).  Counts and free slots are read *)
(* in one step: a commit between the two reads takes the record slot the   *)
(* request would use, and its batch fails either way.  Completion is one   *)
(* step; LeadRun has its reads.  Deltas and scopes are left out.           *)
(***************************************************************************)
EXTENDS Naturals, FiniteSets

CONSTANTS
    Actor,          \* actor ids
    Slot,           \* requests in flight
    MaxActive,      \* MAX_R3_ACTIVE_ACTORS
    MaxRecords,     \* MAX_R3_ACTOR_RECORDS
    MaxBatch,       \* MAX_R3_REGISTER_BATCH
    MinActors       \* MIN_HANDS_OFF_ACTORS

ASSUME ActorsAssumption ==
    /\ IsFiniteSet(Actor)
    /\ MaxActive \in Nat /\ MaxRecords \in Nat /\ MaxBatch \in Nat /\ MinActors \in Nat

VARIABLES
    open,       \* the run is active
    status,     \* project_actors.status
    lapsed,     \* actors whose expires_at has passed
    slot,       \* active_slot, 0 for NULL
    record,     \* record_slot, 0 for an actor without a row
    plane,      \* counters of project_elastic_planes
    account,    \* counters of project_elastic_accounts
    successor,  \* rows of project_actor_recoveries
    call        \* requests in flight

vars == <<open, status, lapsed, slot, record, plane, account, successor, call>>
rows == <<status, slot, record, plane, account, successor>>

Idle == [pc |-> "idle"]

Proceed(s, c) == call' = [call EXCEPT ![s] = c]

Occupied == {a \in Actor : slot[a] # 0}

FreeSlots == 1..MaxActive \ {slot[a] : a \in Actor}

Unused(a) == status[a] = "none"

-----------------------------------------------------------------------------

\* The SELECT of reconcileExpiredElasticActors.
Overdue(late) == {a \in late : status[a] = "active" /\ slot[a] # 0}

\* Both requests begin alike; with nothing overdue there is nothing to free.
First == IF Overdue(lapsed) = {} THEN "read" ELSE "free"

Begin(s, intent) ==
    /\ call[s] = Idle /\ open
    /\ Proceed(s, intent)
    /\ UNCHANGED <<open, lapsed, rows>>

\* registerRunActorsBatch
BeginRegister(s, batch) ==
    /\ batch # {} /\ Cardinality(batch) <= MaxBatch /\ \A a \in batch : Unused(a)
    /\ Begin(s, [pc |-> First, op |-> "register", late |-> lapsed, free |-> Overdue(lapsed),
                 batch |-> batch])

\* recoverRunActor: reason is "expired" or "abandoned".
BeginRecover(s, old, new, reason) ==
    /\ status[old] # "none" /\ old # new
    /\ Begin(s, [pc |-> First, op |-> "recover", late |-> lapsed, free |-> Overdue(lapsed),
                 old |-> old, new |-> new, reason |-> reason])

\* (mutant) the statuses change and the slots stay
KeepSlots(free) == slot

Freed(free) == [a \in Actor |-> IF a \in free THEN 0 ELSE slot[a]]

\* The counters are computed again from the slots.
Counted(free) == Cardinality({a \in Actor : Freed(free)[a] # 0})

\* The batch of reconcileExpiredElasticActors.
Reconcile(s) ==
    LET free == call[s].free
    IN  /\ call[s].pc = "free"
        /\ status' = [a \in Actor |-> IF a \in free /\ status[a] = "active" THEN "expired"
                                      ELSE status[a]]
        /\ slot' = Freed(free)
        /\ plane' = [plane EXCEPT !.active = Counted(free)]
        /\ account' = [account EXCEPT !.active = Counted(free)]
        /\ Proceed(s, [call[s] EXCEPT !.pc = "read"])
        /\ UNCHANGED <<open, lapsed, record, successor>>

\* readAvailableActiveSlots takes the lowest; any assignment in order of the
\* batch is as good as another.
Lowest(n) == {i \in FreeSlots : Cardinality({j \in FreeSlots : j < i}) < n}

Assignments(names, numbers) ==
    {f \in [names -> numbers] : \A a, b \in names : f[a] = f[b] => a = b}

\* Capacity by the counters, identifiers not in use, then the free slots.
ReadRegister(s) ==
    LET n == Cardinality(call[s].batch)
        fits == /\ n + plane.active <= MaxActive /\ n + plane.records <= MaxRecords
                /\ \A a \in call[s].batch : Unused(a)
                /\ Cardinality(FreeSlots) >= n
    IN  /\ call[s].pc = "read" /\ call[s].op = "register"
        /\ \/ /\ fits
              /\ \E f \in Assignments(call[s].batch, Lowest(n)) :
                    Proceed(s, [pc |-> "commit", op |-> "register", active |-> f,
                                records |-> plane.records])
           \/ ~fits /\ Proceed(s, Idle)
        /\ UNCHANGED <<open, lapsed, rows>>

\* (mutant) an actor may be recovered again
SucceededAgain(old) == TRUE

\* The recovery read before, and the unique index its insertion meets.
NotSucceeded(old) == \A b \in Actor : <<old, b>> \notin successor

\* The checks of recoverRunActor.
CanRecover(s) ==
    /\ status[call[s].old] # "revoked"
    /\ call[s].reason = "expired" => call[s].old \in call[s].late
    /\ NotSucceeded(call[s].old)

ReadRecover(s) ==
    LET old == call[s].old
        fits == /\ CanRecover(s) /\ Unused(call[s].new)
                /\ plane.records < MaxRecords
                /\ slot[old] # 0 \/ FreeSlots # {}
    IN  /\ call[s].pc = "read" /\ call[s].op = "recover"
        /\ \/ /\ fits
              /\ \E i \in (IF slot[old] # 0 THEN {slot[old]} ELSE Lowest(1)) :
                    Proceed(s, [pc |-> "commit", op |-> "recover", old |-> old,
                                new |-> call[s].new, reason |-> call[s].reason,
                                had |-> slot[old] # 0, active |-> i, records |-> plane.records])
           \/ ~fits /\ Proceed(s, Idle)
        /\ UNCHANGED <<open, lapsed, rows>>

\* The unique indexes of slots and records, and the primary key of actors.
Inserts(active, first, after) ==
    /\ \A a \in DOMAIN active : Unused(a) /\ active[a] \notin {after[b] : b \in Actor}
    /\ first \notin {record[a] : a \in Actor}

Numbered(names, first) ==
    CHOOSE f \in Assignments(names, first..(first + Cardinality(names) - 1)) : TRUE

CommitRegister(s) ==
    LET active == call[s].active
        batch == DOMAIN active
        n == Cardinality(batch)
        number == Numbered(batch, call[s].records + 1)
    IN  /\ call[s].pc = "commit" /\ call[s].op = "register"
        /\ IF /\ Inserts(active, call[s].records + 1, slot)
              /\ plane.active + n <= MaxActive /\ plane.records + n <= MaxRecords
           THEN /\ status' = [a \in Actor |-> IF a \in batch THEN "active" ELSE status[a]]
                /\ slot' = [a \in Actor |-> IF a \in batch THEN active[a] ELSE slot[a]]
                /\ record' = [a \in Actor |-> IF a \in batch THEN number[a] ELSE record[a]]
                /\ plane' = [active |-> plane.active + n, records |-> plane.records + n]
                /\ account' = [active |-> account.active + n, records |-> account.records + n]
           ELSE UNCHANGED <<status, slot, record, plane, account>>
        /\ Proceed(s, Idle)
        /\ UNCHANGED <<open, lapsed, successor>>

\* (mutant) the slot of the actor that is replaced stays counted
NothingLeft(s) == 0

Left(s) == IF call[s].had THEN 1 ELSE 0

\* The batch of recoverRunActor: the plane loses the slot that was read before
\* it gains one, and its CHECK refuses a negative count.
CommitRecover(s) ==
    LET old == call[s].old
        new == call[s].new
        left == Left(s)
    IN  /\ call[s].pc = "commit" /\ call[s].op = "recover"
        /\ IF /\ Inserts([a \in {new} |-> call[s].active], call[s].records + 1, Freed({old}))
              /\ plane.active >= left /\ plane.active - left + 1 <= MaxActive
              /\ plane.records < MaxRecords
              /\ NotSucceeded(old)
           THEN /\ status' = [status EXCEPT ![new] = "active",
                                 ![old] = IF status[old] \notin {"active", "expired"} THEN @
                                          ELSE IF call[s].reason = "expired" THEN "expired"
                                          ELSE "revoked"]
                /\ slot' = [Freed({old}) EXCEPT ![new] = call[s].active]
                /\ record' = [record EXCEPT ![new] = call[s].records + 1]
                /\ plane' = [active |-> plane.active - left + 1, records |-> plane.records + 1]
                /\ account' = [active |-> account.active + 1 - left,
                               records |-> account.records + 1]
                /\ successor' = successor \cup {<<old, new>>}
           ELSE UNCHANGED rows
        /\ Proceed(s, Idle)
        /\ UNCHANGED <<open, lapsed>>

\* actor_count of the run: the actors that were registered, not those recovered.
Registered ==
    {a \in Actor : status[a] # "none" /\ \A old \in Actor : <<old, a>> \notin successor}

\* completeLeadWorkItem
Complete ==
    /\ open /\ Cardinality(Registered) >= MinActors
    /\ open' = FALSE
    /\ status' = [a \in Actor |-> IF status[a] = "active" THEN "revoked" ELSE status[a]]
    /\ slot' = [a \in Actor |-> 0]
    /\ plane' = [plane EXCEPT !.active = 0]
    /\ account' = [account EXCEPT !.active = 0]
    /\ UNCHANGED <<lapsed, record, successor, call>>

\* expires_at passes.
Lapse(a) ==
    /\ status[a] # "none" /\ a \notin lapsed
    /\ lapsed' = lapsed \cup {a}
    /\ UNCHANGED <<open, rows, call>>

\* The request ends without a commit.
Fail(s) ==
    /\ call[s] # Idle
    /\ Proceed(s, Idle)
    /\ UNCHANGED <<open, lapsed, rows>>

-----------------------------------------------------------------------------

Init ==
    /\ open = TRUE /\ lapsed = {} /\ successor = {}
    /\ status = [a \in Actor |-> "none"]
    /\ slot = [a \in Actor |-> 0] /\ record = [a \in Actor |-> 0]
    /\ plane = [active |-> 0, records |-> 0] /\ account = plane
    /\ call = [s \in Slot |-> Idle]

Request(s) ==
    \/ \E batch \in SUBSET Actor : BeginRegister(s, batch)
    \/ \E old, new \in Actor, reason \in {"expired", "abandoned"} :
          BeginRecover(s, old, new, reason)
    \/ Reconcile(s)
    \/ ReadRegister(s) \/ CommitRegister(s) \/ ReadRecover(s) \/ CommitRecover(s)
    \/ Fail(s)

Next == (\E s \in Slot : Request(s)) \/ Complete \/ (\E a \in Actor : Lapse(a))

Spec == Init /\ [][Next]_vars

-----------------------------------------------------------------------------
(* Properties *)

\* Counters, slots and statuses are within the CHECKs of their tables.
TypeOK ==
    /\ open \in BOOLEAN /\ lapsed \subseteq Actor
    /\ status \in [Actor -> {"none", "active", "expired", "revoked"}]
    /\ slot \in [Actor -> 0..MaxActive] /\ record \in [Actor -> 0..MaxRecords]
    /\ plane \in [active : 0..MaxActive, records : 0..MaxRecords]
    /\ account \in [active : 0..MaxActive, records : 0..MaxRecords]

\* An actor is active exactly as long as it has a slot, and no two share one:
\* neither a stale list of overdue actors nor a stale slot takes a slot from an
\* actor that is active (reconcileExpiredElasticActors, recoverRunActor).
ActiveHasSlot ==
    /\ \A a \in Actor : status[a] = "active" <=> slot[a] # 0
    /\ \A a, b \in Occupied : slot[a] = slot[b] => a = b

\* The two counters agree, and never count an actor that holds no slot: capacity
\* is not lost, whatever requests overlap.
NoCapacityLost ==
    plane = account /\ plane.active <= Cardinality(Occupied)

\* Every actor has its own record slot and the records are counted exactly.
RecordsDense ==
    {record[a] : a \in {b \in Actor : status[b] # "none"}} = 1..plane.records

\* An actor that was replaced or retired never acts again, it has at most one
\* successor, and an actor succeeds at most one other.
NeverRevived ==
    [][/\ \A a \in Actor : status[a] \in {"expired", "revoked"} => status'[a] # "active"
       /\ \A p, q \in successor' : (p[1] = q[1] \/ p[2] = q[2]) => p = q
       /\ \A p \in successor' : slot'[p[1]] = 0]_vars

\* The state invariant of the actors: an active actor holds a slot of its own
\* though slots are read before the batch that takes them, and the records of
\* the run are numbered without gaps whoever inserted them.
ActorsInv == TypeOK /\ ActiveHasSlot /\ RecordsDense

=============================================================================
