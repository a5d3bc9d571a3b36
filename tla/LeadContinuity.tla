--------------------------- MODULE LeadContinuity ---------------------------
(***************************************************************************)
(* The lead of one project: a lease with a fencing token, the requests     *)
(* that act under it (checkpoints and continuity drills) and the schedule  *)
(* that asks for them.                                                     *)
(*                                                                         *)
(* A request reads the clock once, is authorised against the lease, puts   *)
(* its body in R2, and commits in one D1 batch that checks the fence       *)
(* again.  In between the lease may expire, be revoked, released or        *)
(* claimed by another lead, and the same request may be delivered twice.   *)
(*                                                                         *)
(* What is abstracted.  A batch inserts its rows and the receipt of its    *)
(* request together: one entry of `log' stands for both, and the entries   *)
(* of operation "checkpoint" are the continuity points, named by their     *)
(* place in the log.  A claim makes a new lease identity and a new token,  *)
(* so the token stands for both.  An idempotency key is used under one     *)
(* grant and one operation; the rest of a request (token, predecessor,     *)
(* release) is what its hash tells apart.  A stale work packet, a failed   *)
(* R2 put and an evicted worker all end a request without a commit         *)
(* (Fail).  The other operations of a lead are in LeadRun.                 *)
(***************************************************************************)
EXTENDS Naturals, Sequences, FiniteSets

CONSTANTS
    Lead,           \* collaboration grants with the scope project.lead
    Key,            \* idempotency keys
    Slot,           \* requests in flight
    Cron,           \* overlapping invocations of the scheduled handler
    LeaseTime,      \* leaseExpiresInSeconds
    Interval,       \* seconds between scheduled requests, for each kind
    MaxTime,        \* bound: the clock
    MaxToken,       \* bound: claims
    MaxLog,         \* bound: committed requests
    MaxSchedule,    \* bound: activations of a policy binding
    MaxRevoked,     \* bound: revoked grants
    InFlight,       \* bound: requests and invocations in flight at once
    NoLead          \* the holder of a lease nobody has claimed yet

Kind == {"point", "drill"}

ASSUME ContinuityAssumption ==
    /\ LeaseTime \in Nat \ {0} /\ MaxTime \in Nat /\ MaxToken \in Nat
    /\ MaxLog \in Nat /\ MaxSchedule \in Nat \ {0} /\ MaxRevoked \in Nat /\ InFlight \in Nat
    /\ Interval \in [Kind -> Nat \ {0}]
    /\ NoLead \notin Lead /\ Slot \cap Cron = {}

Token == 1..MaxToken
Operation == {"checkpoint", "drill"}

VARIABLES
    clock,      \* seconds, for the workers and for D1
    granted,    \* leads whose grant, source grant and vault are active
    lease,      \* the row of project_lead_leases
    log,        \* committed rows with their receipts, in commit order
    call,       \* requests in flight
    schedule,   \* rows of project_operational_schedules
    due,        \* rows of project_operational_requests
    cron        \* invocations of the scheduled handler in flight

vars == <<clock, granted, lease, log, call, schedule, due, cron>>
leaseVars == <<granted, lease>>
planVars == <<schedule, due, cron>>

NoLease == [token |-> 0, holder |-> NoLead, status |-> "revoked", expires |-> 0]

Idle == [pc |-> "idle"]

-----------------------------------------------------------------------------
(* The lease *)

\* leaseFromRow: what the row says at a given time.
ActiveAt(time) == lease.status = "active" /\ lease.expires > time

\* The lease is the one the request names, held by the caller, and active.
Holds(l, t, time) == ActiveAt(time) /\ lease.holder = l /\ lease.token = t

\* LIVE_FENCE_SQL, evaluated inside the batch.
LiveFence(l, t, time) == Holds(l, t, time) /\ l \in granted

\* The WHERE clause of the upsert in claimProjectLeadLeaseRow.
Claimable(now) ==
    lease.status = "revoked" \/ lease.expires <= now \/ lease.holder \notin granted

Busy == {s \in Slot : call[s] # Idle} \cup {c \in Cron : cron[c] # Idle}

\* A free slot, within the bound on what is in flight.
Free(s) == call[s] = Idle /\ Cardinality(Busy) < InFlight

Answer(s) == call' = [call EXCEPT ![s] = Idle]

Claims == {s \in Slot : call[s].pc = "claim"}

\* claimProjectLead up to the upsert.  A claim repeated with the key of the
\* present lease is answered from the row: that step changes nothing.
BeginClaim(s, l) ==
    /\ Free(s) /\ l \in granted
    /\ lease.token + Cardinality(Claims) < MaxToken
    /\ call' = [call EXCEPT ![s] = [pc |-> "claim", lead |-> l, now |-> clock]]
    /\ UNCHANGED <<clock, granted, lease, log, planVars>>

CommitClaim(s) ==
    /\ call[s].pc = "claim"
    /\ lease' = IF Claimable(call[s].now)
                THEN [token |-> lease.token + 1, holder |-> call[s].lead, status |-> "active",
                      expires |-> call[s].now + LeaseTime]
                ELSE lease
    /\ Answer(s)
    /\ UNCHANGED <<clock, granted, log, planVars>>

BeginRenew(s, l) ==
    /\ Free(s) /\ l \in granted /\ lease.holder = l
    /\ call' = [call EXCEPT ![s] =
          [pc |-> "renew", lead |-> l, token |-> lease.token, now |-> clock]]
    /\ UNCHANGED <<clock, granted, lease, log, planVars>>

CommitRenew(s) ==
    /\ call[s].pc = "renew"
    /\ lease' = IF Holds(call[s].lead, call[s].token, call[s].now)
                THEN [lease EXCEPT !.expires = call[s].now + LeaseTime]
                ELSE lease
    /\ Answer(s)
    /\ UNCHANGED <<clock, granted, log, planVars>>

\* revokeProjectLead, by the owner.
RevokeLease ==
    /\ lease.status = "active"
    /\ lease' = [lease EXCEPT !.status = "revoked"]
    /\ UNCHANGED <<clock, granted, log, call, planVars>>

RevokeGrant(l) ==
    /\ l \in granted /\ Cardinality(Lead \ granted) < MaxRevoked
    /\ granted' = granted \ {l}
    /\ UNCHANGED <<clock, lease, log, call, planVars>>

-----------------------------------------------------------------------------
(* Requests under the lease *)

Points == {i \in DOMAIN log : log[i].op = "checkpoint"}

\* readLatestContinuityPoint: the point without a child; 0 when there is none.
Latest ==
    LET leaf == {i \in Points : \A j \in Points : log[j].ref # i}
    IN  IF leaf = {} THEN 0 ELSE CHOOSE i \in leaf : TRUE

\* (mutant) receipts are looked up under the lease instead of the grant
ReceivedUnderLease(op, l, k) ==
    \E i \in DOMAIN log :
       log[i].op = op /\ log[i].lead = l /\ log[i].key = k /\ log[i].token = lease.token

\* The receipt of a request, whatever its hash.
Received(op, l, k) ==
    \E i \in DOMAIN log : log[i].op = op /\ log[i].lead = l /\ log[i].key = k

DueRow(sched, kind, window) ==
    {d \in due : d.sched = sched /\ d.kind = kind /\ d.window = window}

Pending(d) == d.status = "pending"

\* checkpointProject up to its batch.  A request whose receipt exists is
\* answered from it, or refused when its hash differs.
BeginCheckpoint(s, l, k, release) ==
    /\ Free(s) /\ l \in granted
    /\ ~Received("checkpoint", l, k)
    /\ Holds(l, lease.token, clock)
    /\ call' = [call EXCEPT ![s] =
          [pc |-> "checkpoint", lead |-> l, key |-> k, token |-> lease.token,
           ref |-> Latest, release |-> release]]
    /\ UNCHANGED <<clock, granted, lease, log, planVars>>

\* The drill is run under another lease than the one that wrote its source.
ReplacedLead(d) == log[d.source].token # lease.token

\* completeContinuityDrill up to its batch.
BeginDrill(s, l, k, d) ==
    /\ Free(s) /\ l \in granted
    /\ Holds(l, lease.token, clock)
    /\ ~Received("drill", l, k)
    /\ d \in due /\ d.kind = "drill" /\ Pending(d) /\ ReplacedLead(d)
    /\ call' = [call EXCEPT ![s] =
          [pc |-> "drill", lead |-> l, key |-> k, now |-> clock,
           token |-> lease.token, ref |-> d.source, sched |-> d.sched, window |-> d.window]]
    /\ UNCHANGED <<clock, granted, lease, log, planVars>>

\* (mutant) the batch relies on the check made when the request began
FenceAtStart(s) == TRUE

\* The clock the batch compares the lease with: unixepoch() for a continuity
\* point, the time the request began for a drill.
FenceHolds(s) ==
    LiveFence(call[s].lead, call[s].token,
              IF call[s].pc = "checkpoint" THEN clock ELSE call[s].now)

\* The primary key of the receipts.
FreshKey(s) == ~Received(call[s].pc, call[s].lead, call[s].key)

Entry(s) ==
    [op |-> call[s].pc, lead |-> call[s].lead, key |-> call[s].key,
     token |-> call[s].token, ref |-> call[s].ref]

\* (mutant) any point may be the parent of the next
AnyParent(s) == TRUE

\* live_parent_valid
ParentValid(s) == Latest = call[s].ref

\* The batch of a checkpoint: the point, its receipt and, for the memory
\* facade, the release of the lease.
CommitCheckpoint(s) ==
    /\ call[s].pc = "checkpoint"
    /\ IF FenceHolds(s) /\ ParentValid(s) /\ FreshKey(s)
       THEN /\ Len(log) < MaxLog
            /\ log' = Append(log, Entry(s))
            /\ lease' = IF call[s].release THEN [lease EXCEPT !.status = "revoked"] ELSE lease
       ELSE UNCHANGED <<log, lease>>
    /\ Answer(s)
    /\ UNCHANGED <<clock, granted, planVars>>

Complete(d) == [d EXCEPT !.status = "completed"]

\* The request is completed by this batch.
Open(s) == {d \in DueRow(call[s].sched, "drill", call[s].window) : Pending(d)}

CommitDrill(s) ==
    /\ call[s].pc = "drill"
    /\ IF FenceHolds(s) /\ FreshKey(s) /\ Open(s) # {}
       THEN /\ Len(log) < MaxLog
            /\ log' = Append(log, Entry(s))
            /\ due' = (due \ Open(s)) \cup {Complete(d) : d \in Open(s)}
       ELSE UNCHANGED <<log, due>>
    /\ Answer(s)
    /\ UNCHANGED <<clock, leaseVars, schedule, cron>>

\* The request ends without a commit: its worker is evicted, a put fails or
\* its work packet went stale.
Fail(s) ==
    /\ call[s] # Idle
    /\ Answer(s)
    /\ UNCHANGED <<clock, leaseVars, log, planVars>>

-----------------------------------------------------------------------------
(* The schedule *)

\* activateProjectPolicyBinding: the schedule of the binding it supersedes is
\* paused in the same batch.  The unique index of active bindings refuses the
\* batch of a second activation, so one step stands for the read and the batch.
Activate ==
    /\ Len(schedule) < MaxSchedule
    /\ schedule' = Append([i \in DOMAIN schedule |-> [schedule[i] EXCEPT !.status = "paused"]],
                          [status |-> "active", next |-> [k \in Kind |-> clock + Interval[k]]])
    /\ UNCHANGED <<clock, leaseVars, log, call, due, cron>>

\* runScheduledPolicyOperations: select the schedules that are due.
CronRead(c, n) ==
    /\ cron[c] = Idle /\ Cardinality(Busy) < InFlight
    /\ n \in DOMAIN schedule /\ schedule[n].status = "active"
    /\ \E k \in Kind : schedule[n].next[k] <= clock
    /\ cron' = [cron EXCEPT ![c] =
          [pc |-> "check", kind |-> "point", sched |-> n, next |-> schedule[n].next,
           time |-> clock, made |-> {}, source |-> 0]]
    /\ UNCHANGED <<clock, leaseVars, log, call, schedule, due>>

\* After the request of one kind: the other, then the batch that advances.
Onward(row, made) ==
    IF row.kind = "point"
    THEN [row EXCEPT !.pc = "check", !.kind = "drill", !.made = made, !.source = 0]
    ELSE [row EXCEPT !.pc = "advance", !.made = made, !.source = 0]

Overlaps(row) == \E d \in due : d.sched = row.sched /\ d.kind = row.kind /\ Pending(d)

\* A drill needs a continuity point to restore.
NoSource(row) == row.kind = "drill" /\ Latest = 0

\* createScheduledRequest up to its batch.
CronCheck(c) ==
    LET row == cron[c]
        exists == DueRow(row.sched, row.kind, row.next[row.kind]) # {}
        skip == \/ row.next[row.kind] > row.time
                \/ NoSource(row)
                \/ ~exists /\ Overlaps(row)
    IN  /\ row.pc = "check"
        /\ cron' = [cron EXCEPT ![c] =
              IF skip THEN Onward(row, row.made)
              ELSE IF exists THEN Onward(row, row.made \cup {row.kind})
              ELSE [row EXCEPT !.pc = "insert",
                               !.source = IF row.kind = "drill" THEN Latest ELSE 0]]
        /\ UNCHANGED <<clock, leaseVars, log, call, schedule, due>>

\* The batch; a row another invocation inserted counts as created.
CronInsert(c) ==
    LET row == cron[c]
        window == row.next[row.kind]
    IN  /\ row.pc = "insert"
        /\ due' = IF DueRow(row.sched, row.kind, window) # {} THEN due
                  ELSE due \cup {[sched |-> row.sched, kind |-> row.kind, window |-> window,
                                  source |-> row.source, status |-> "pending"]}
        /\ cron' = [cron EXCEPT ![c] = Onward(row, row.made \cup {row.kind})]
        /\ UNCHANGED <<clock, leaseVars, log, call, schedule>>

\* nextDueAfter: windows that were missed are skipped together.
NextDue(window, kind, time) ==
    window + ((time - window) \div Interval[kind] + 1) * Interval[kind]

\* (mutant) every kind that was due moves on
AllDue(row) == {k \in Kind : row.next[k] <= row.time}

Advanced(row) == row.made

CronAdvance(c) ==
    LET row == cron[c]
        old == schedule[row.sched]
        new == [k \in Kind |->
                  IF k \in Advanced(row) /\ old.next[k] = row.next[k]
                  THEN NextDue(row.next[k], k, row.time) ELSE old.next[k]]
    IN  /\ row.pc = "advance"
        /\ schedule' = [schedule EXCEPT ![row.sched].next = new]
        /\ cron' = [cron EXCEPT ![c] = Idle]
        /\ UNCHANGED <<clock, leaseVars, log, call, due>>

\* The invocation ends early.
CronCrash(c) ==
    /\ cron[c] # Idle
    /\ cron' = [cron EXCEPT ![c] = Idle]
    /\ UNCHANGED <<clock, leaseVars, log, call, schedule, due>>

Tick ==
    /\ clock < MaxTime
    /\ clock' = clock + 1
    /\ UNCHANGED <<leaseVars, log, call, planVars>>

-----------------------------------------------------------------------------

Init ==
    /\ clock = 0 /\ granted = Lead /\ lease = NoLease /\ log = <<>>
    /\ call = [s \in Slot |-> Idle]
    /\ schedule = <<>> /\ due = {} /\ cron = [c \in Cron |-> Idle]

Begin(s) ==
    \E l \in Lead :
       \/ BeginClaim(s, l)
       \/ BeginRenew(s, l)
       \/ \E k \in Key :
             \/ \E release \in BOOLEAN : BeginCheckpoint(s, l, k, release)
             \/ \E d \in due : BeginDrill(s, l, k, d)

Commit(s) ==
    \/ CommitClaim(s) \/ CommitRenew(s)
    \/ CommitCheckpoint(s) \/ CommitDrill(s)

CronStep(c) ==
    \/ \E n \in DOMAIN schedule : CronRead(c, n)
    \/ CronCheck(c) \/ CronInsert(c) \/ CronAdvance(c)

Step ==
    \/ \E s \in Slot : Begin(s) \/ Commit(s) \/ Fail(s)
    \/ \E c \in Cron : CronStep(c)
    \/ RevokeLease \/ (\E l \in Lead : RevokeGrant(l)) \/ Activate \/ Tick

Next == Step \/ \E c \in Cron : CronCrash(c)

Spec == Init /\ [][Next]_vars

-----------------------------------------------------------------------------
(* Properties *)

Calls ==
    {Idle}
    \cup [pc : {"claim"}, lead : Lead, now : 0..MaxTime]
    \cup [pc : {"renew"}, lead : Lead, token : Token, now : 0..MaxTime]
    \cup [pc : {"checkpoint"}, lead : Lead, key : Key, token : Token,
          ref : 0..MaxLog, release : BOOLEAN]
    \cup [pc : {"drill"}, lead : Lead, key : Key, now : 0..MaxTime, token : Token,
          ref : 1..MaxLog, sched : 1..MaxSchedule, window : Nat]

Entries == [op : Operation, lead : Lead, key : Key, token : Token, ref : 0..MaxLog]

Due ==
    {d \in [sched : 1..MaxSchedule, kind : Kind, window : Nat, source : 0..MaxLog,
            status : {"pending", "completed"}] :
       d.kind = "point" <=> d.source = 0}

\* The rows and requests have the fields their tables and types declare; a
\* drill always names the point it restores.
TypeOK ==
    /\ clock \in 0..MaxTime /\ granted \subseteq Lead
    /\ lease \in [token : 0..MaxToken, holder : Lead \cup {NoLead}, status : {"active", "revoked"},
                  expires : Nat]
    /\ log \in Seq(Entries) /\ Len(log) <= MaxLog
    /\ call \in [Slot -> Calls]
    /\ schedule \in Seq([status : {"active", "paused"}, next : [Kind -> Nat]])
    /\ Len(schedule) <= MaxSchedule
    /\ \A d \in due : d \in Due

\* Every batch commits under the token the lease has at that moment and for
\* its holder: once a successor has claimed, nothing a former lead began
\* earlier is written, whichever clock its fence compares (LIVE_FENCE_SQL).
OnlyTheHolderCommits ==
    [][\A i \in DOMAIN log' \ DOMAIN log :
          log'[i].token = lease.token /\ log'[i].lead = lease.holder
          /\ lease.status = "active"]_vars

\* A request takes effect at most once, however often and however concurrently
\* it is delivered (the receipts' primary keys).
NoSecondAppend ==
    \A i, j \in DOMAIN log :
       (log[i].op = log[j].op /\ log[i].lead = log[j].lead /\ log[i].key = log[j].key) => i = j

\* The continuity points form one chain, through every change of lead: each
\* names the point committed before it (live_parent_valid, parent_key).
OneChain ==
    \A i \in Points :
       /\ log[i].ref \in {0} \cup Points /\ log[i].ref < i
       /\ \A j \in Points : j < i => j <= log[i].ref

\* A drill is completed once, by a lease claimed after the one that wrote the
\* point it restores (completeContinuityDrill).
DrillsByReplacement ==
    /\ \A i \in DOMAIN log : log[i].op = "drill" =>
          log[i].ref \in Points /\ log[log[i].ref].token < log[i].token
    /\ Cardinality({i \in DOMAIN log : log[i].op = "drill"})
          = Cardinality({d \in due : ~Pending(d)})

\* Overlapping invocations of the scheduled handler never leave two requests
\* of one kind waiting (createScheduledRequest).
OnePending ==
    \A d, e \in due : (Pending(d) /\ Pending(e) /\ d.sched = e.sched /\ d.kind = e.kind) => d = e

\* A window is left behind only after its request was recorded, though the
\* record and the advance are two batches and invocations overlap and crash.
WindowsAreAsked ==
    [][\A n \in DOMAIN schedule : \A k \in Kind :
          schedule'[n].next[k] # schedule[n].next[k] =>
             /\ schedule'[n].next[k] > schedule[n].next[k]
             /\ DueRow(n, k, schedule[n].next[k]) # {}]_vars

\* The state invariant of a project's lead: continuity points form one chain
\* though several leads checkpoint in flight, a drill is answered by a lead
\* that replaced another, and no schedule has two requests of a kind waiting
\* though cron runs overlap and crash.
ContinuityInv == TypeOK /\ OneChain /\ DrillsByReplacement /\ OnePending

=============================================================================
