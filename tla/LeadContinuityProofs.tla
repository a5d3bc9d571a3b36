------------------------ MODULE LeadContinuityProofs ------------------------
(***************************************************************************)
(* Proofs about LeadContinuity, for any leads, keys, requests, cron        *)
(* invocations, intervals and bounds.                                      *)
(***************************************************************************)
EXTENDS LeadContinuity, FiniteSetTheorems, SequenceTheorems, WellFoundedInduction, TLAPS

-----------------------------------------------------------------------------
(* The inductive invariant *)

\* Tokens only grow, and claims in flight will not exceed the bound.
LeaseFits ==
    /\ lease.token = 0 => lease.holder = NoLead
    /\ IsFiniteSet(Claims) /\ lease.token + Cardinality(Claims) <= MaxToken
    /\ \A i \in DOMAIN log : log[i].token <= lease.token

\* A drill in flight restores a point of an earlier lease.
DrillsFit ==
    \A s \in Slot : call[s].pc = "drill" =>
       call[s].ref \in Points /\ log[call[s].ref].token < call[s].token

\* A scheduled request has its window for itself, in a window the schedule has
\* reached, and a drill has a point to restore.
DueFits ==
    /\ IsFiniteSet(due)
    /\ \A d, e \in due : (d.sched = e.sched /\ d.kind = e.kind /\ d.window = e.window) => d = e
    /\ \A d \in due : /\ d.sched \in DOMAIN schedule
                      /\ d.window <= schedule[d.sched].next[d.kind]
                      /\ d.kind = "drill" => d.source \in Points

CronRow ==
    [pc : {"check", "insert", "advance"}, kind : Kind, sched : Nat, next : [Kind -> Nat],
     time : 0..MaxTime, made : SUBSET Kind, source : 0..MaxLog]

\* What an invocation of the handler has read.  The windows it read are those
\* of now, or were asked for before the schedule left them; what it counts as
\* made was made; and when it is about to insert, whatever waits is not older.
RowFits(row) ==
    row # Idle =>
       /\ row \in CronRow /\ row.sched \in DOMAIN schedule
       /\ \A k \in Kind :
             /\ row.next[k] <= schedule[row.sched].next[k]
             /\ row.next[k] < schedule[row.sched].next[k] => DueRow(row.sched, k, row.next[k]) # {}
             /\ k \in row.made => /\ row.next[k] <= row.time
                                  /\ DueRow(row.sched, k, row.next[k]) # {}
       /\ row.pc = "insert" =>
             /\ row.next[row.kind] <= row.time
             /\ IF row.kind = "drill" THEN row.source \in Points ELSE row.source = 0
             /\ \A d \in due : (Pending(d) /\ d.sched = row.sched /\ d.kind = row.kind)
                                  => row.next[row.kind] <= d.window

RowsFit == cron = [c \in Cron |-> cron[c]] /\ \A c \in Cron : RowFits(cron[c])

IInv == /\ ContinuityInv /\ NoSecondAppend
        /\ LeaseFits /\ DrillsFit /\ DueFits /\ RowsFit

-----------------------------------------------------------------------------
(* Facts about the log, the calls and the rows *)

\* The least member of a set of natural numbers.
LEMMA LeastNatural ==
    ASSUME NEW S \in SUBSET Nat, S # {}
    PROVE  \E n \in S : \A m \in S : n <= m
<1> DEFINE R == OpToRel(<, Nat)
<1>1. IsWellFoundedOn(R, Nat)
  BY NatLessThanWellFounded
<1>2. PICK n \in S : \A m \in S : ~ (<<m, n>> \in R)
  BY <1>1, WFMin
<1>3. \A m \in S : ~(m < n)
  BY <1>2 DEF OpToRel
<1> QED BY <1>3

LEMMA LogIs ==
    ASSUME TypeOK
    PROVE  /\ Len(log) \in Nat /\ DOMAIN log = 1..Len(log)
           /\ \A i \in DOMAIN log : log[i] \in Entries
           /\ Points \subseteq 1..Len(log) /\ Points \subseteq 1..MaxLog
<1>1. log \in Seq(Entries) /\ Len(log) <= MaxLog /\ MaxLog \in Nat
  BY ContinuityAssumption DEF TypeOK, ContinuityAssumption
<1>2. Len(log) \in Nat /\ DOMAIN log = 1..Len(log) /\ \A i \in DOMAIN log : log[i] \in Entries
  BY <1>1
<1> QED BY <1>1, <1>2 DEF Points

LEMMA ScheduleIs ==
    ASSUME TypeOK
    PROVE  /\ Len(schedule) \in Nat /\ DOMAIN schedule = 1..Len(schedule)
           /\ DOMAIN schedule \subseteq 1..MaxSchedule
           /\ \A n \in DOMAIN schedule : /\ schedule[n].next \in [Kind -> Nat]
                                         /\ \A k \in Kind : schedule[n].next[k] \in Nat
<1> DEFINE Rows == [status : {"active", "paused"}, next : [Kind -> Nat]]
<1>1. schedule \in Seq(Rows) /\ Len(schedule) <= MaxSchedule /\ MaxSchedule \in Nat
  BY ContinuityAssumption DEF TypeOK, ContinuityAssumption
<1>2. /\ Len(schedule) \in Nat /\ DOMAIN schedule = 1..Len(schedule)
      /\ \A n \in DOMAIN schedule : schedule[n] \in Rows
  <2> HIDE DEF Rows
  <2> QED BY <1>1
<1>3. \A r \in Rows : r.next \in [Kind -> Nat] /\ \A k \in Kind : r.next[k] \in Nat
  OBVIOUS
<1> QED
  <2> HIDE DEF Rows
  <2> QED BY <1>1, <1>2, <1>3

LEMMA ScheduleIsNext ==
    (TypeOK => \A n \in DOMAIN schedule : \A k \in Kind : schedule[n].next[k] \in Nat)'
<1>1. TypeOK => \A n \in DOMAIN schedule : \A k \in Kind : schedule[n].next[k] \in Nat
  BY ScheduleIs
<1> QED BY <1>1, PTL

\* The stage tells the requests in flight apart, and gives their fields.
LEMMA Kinds ==
    ASSUME NEW c \in Calls
    PROVE  /\ c.pc = "claim" => c.lead \in Lead /\ c.now \in 0..MaxTime
           /\ c.pc = "renew" => c.lead \in Lead /\ c.token \in Token /\ c.now \in 0..MaxTime
           /\ c.pc = "checkpoint" =>
                 /\ c.lead \in Lead /\ c.key \in Key /\ c.token \in Token
                 /\ c.ref \in 0..MaxLog /\ c.release \in BOOLEAN
           /\ c.pc = "drill" =>
                 /\ c.lead \in Lead /\ c.key \in Key /\ c.token \in Token
                 /\ c.now \in 0..MaxTime /\ c.ref \in 1..MaxLog
                 /\ c.sched \in 1..MaxSchedule /\ c.window \in Nat
  BY DEF Calls, Idle

LEMMA IdleCall == Idle \in Calls /\ Idle.pc = "idle"
  BY DEF Calls, Idle

LEMMA DueIs ==
    ASSUME TypeOK, NEW d \in due
    PROVE  /\ d \in [sched : 1..MaxSchedule, kind : Kind, window : Nat, source : 0..MaxLog,
                     status : {"pending", "completed"}]
           /\ d.sched \in 1..MaxSchedule /\ d.kind \in Kind /\ d.window \in Nat
           /\ d.source \in 0..MaxLog /\ (d.kind = "point" <=> d.source = 0)
  BY DEF TypeOK, Due

LEMMA SameLog ==
    ASSUME UNCHANGED log
    PROVE  /\ Points' = Points
           /\ OneChain => OneChain'
           /\ NoSecondAppend => NoSecondAppend'
  BY DEF Points, OneChain, NoSecondAppend

LEMMA SameDrills ==
    ASSUME UNCHANGED <<log, due>> PROVE DrillsByReplacement => DrillsByReplacement'
  BY DEF DrillsByReplacement, Points, Pending

-----------------------------------------------------------------------------
(* The chain of continuity points *)

\* A point without a child is the last point there is.
LEMMA LeafIsLast ==
    ASSUME TypeOK, OneChain, NEW i \in Points, \A j \in Points : log[j].ref # i, NEW j \in Points
    PROVE  j <= i
<1>1. Points \subseteq Nat /\ \A x \in Points : log[x].ref \in {0} \cup Points
                           /\ log[x].ref < x /\ \A y \in Points : y < x => y <= log[x].ref
  BY LogIs DEF OneChain
<1> DEFINE S == {x \in Points : i < x}
<1>2. SUFFICES ASSUME S # {} PROVE FALSE
  BY <1>1
<1>3. PICK m \in S : \A x \in S : m <= x
  BY <1>1, <1>2, LeastNatural
<1>4. PICK r : r = log[m].ref
  OBVIOUS
<1>5. /\ m \in Points /\ m \in Nat /\ i < m
      /\ r \in {0} \cup Points /\ r < m /\ i <= r
  BY <1>1, <1>3, <1>4
<1>6. i \in Nat /\ i > 0
  BY LogIs
<1>7. r \in Points /\ r \in Nat
  BY <1>1, <1>5, <1>6
<1>8. r \notin S
  BY <1>3, <1>5, <1>7
<1>9. r = i
  BY <1>5, <1>6, <1>7, <1>8
<1> QED BY <1>4, <1>5, <1>9

\* While there are points one of them has no child.
LEMMA LeafExists ==
    ASSUME TypeOK, OneChain, Points # {}
    PROVE  \E i \in Points : \A j \in Points : log[j].ref # i
<1>1. /\ Len(log) \in Nat /\ Points \subseteq 1..Len(log)
      /\ \A x \in Points : log[x].ref \in {0} \cup Points /\ log[x].ref < x
  BY LogIs DEF OneChain
<1> DEFINE S == {n \in Nat : \A x \in Points : x <= n}
<1>2. Len(log) \in S
  BY <1>1
<1>3. PICK n \in S : \A m \in S : n <= m
  BY <1>2, LeastNatural
<1>4. n > 0
  <2>1. PICK x : x \in Points
    OBVIOUS
  <2>2. x \in 1..Len(log) /\ x <= n
    BY <1>1, <1>3, <2>1
  <2> QED BY <1>1, <2>2
<1>5. n \in Points
  <2> SUFFICES ASSUME n \notin Points PROVE FALSE
    OBVIOUS
  <2>1. n - 1 \in S
    BY <1>1, <1>3, <1>4
  <2> QED BY <1>3, <2>1
<1>6. \A x \in Points : log[x].ref # n
  BY <1>1, <1>3
<1> QED BY <1>5, <1>6

\* readLatestContinuityPoint answers the last point, and 0 only for no point.
LEMMA LatestIs ==
    ASSUME TypeOK, OneChain
    PROVE  /\ Latest \in {0} \cup Points
           /\ Latest \in 0..MaxLog
           /\ \A j \in Points : j <= Latest
<1> DEFINE leaf == {i \in Points : \A j \in Points : log[j].ref # i}
<1>1. Latest = IF leaf = {} THEN 0 ELSE CHOOSE i \in leaf : TRUE
  BY DEF Latest
<1>2. leaf = {} => Points = {}
  BY LeafExists
<1>3. CASE leaf = {}
  BY <1>1, <1>2, <1>3, ContinuityAssumption DEF ContinuityAssumption
<1>4. CASE leaf # {}
  <2>1. Latest \in leaf
    BY <1>1, <1>4
  <2>2. \A j \in Points : j <= Latest
    BY <2>1, LeafIsLast
  <2> QED BY <2>1, <2>2, LogIs
<1> QED BY <1>3, <1>4

LEMMA InitInv == Init => IInv
<1> SUFFICES ASSUME Init PROVE IInv
  OBVIOUS
<1> USE DEF Init
<1>1. Points = {} /\ Claims = {} /\ DOMAIN log = {} /\ Len(log) = 0 /\ Len(schedule) = 0
  BY IdleCall DEF Points, Claims
<1>2. IsFiniteSet({}) /\ Cardinality({}) = 0
  BY FS_EmptySet
<1>3. TypeOK
  <2>1. /\ 0 \in 0..MaxTime /\ 0 \in 0..MaxToken /\ 0 \in Nat
        /\ 0 <= MaxLog /\ 0 <= MaxSchedule
    BY ContinuityAssumption DEF ContinuityAssumption
  <2>2. log \in Seq(Entries) /\ schedule \in Seq([status : {"active", "paused"}, next : [Kind -> Nat]])
    OBVIOUS
  <2>3. call \in [Slot -> Calls]
    BY IdleCall
  <2> QED BY <1>1, <2>1, <2>2, <2>3 DEF TypeOK, NoLease
<1>4. OneChain /\ OnePending /\ NoSecondAppend
  BY <1>1 DEF OneChain, OnePending, NoSecondAppend
<1>5. DrillsByReplacement
  <2>1. {i \in DOMAIN log : log[i].op = "drill"} = {} /\ {d \in due : ~Pending(d)} = {}
    BY <1>1
  <2> QED BY <1>1, <1>2, <2>1 DEF DrillsByReplacement
<1>6. LeaseFits
  BY <1>1, <1>2, ContinuityAssumption DEF LeaseFits, ContinuityAssumption, NoLease
<1>7. DrillsFit
  BY IdleCall DEF DrillsFit
<1>8. DueFits
  BY <1>2 DEF DueFits
<1>9. RowsFit
  BY DEF RowsFit, RowFits
<1> QED BY <1>3, <1>4, <1>5, <1>6, <1>7, <1>8, <1>9 DEF IInv, ContinuityInv

-----------------------------------------------------------------------------
(* Requests in flight *)

\* A request that is not a new claim leaves no more claims in flight.
LEMMA FewerClaims ==
    ASSUME IInv, NEW s \in Slot, NEW c \in Calls, c.pc # "claim",
           call' = [call EXCEPT ![s] = c]
    PROVE  /\ IsFiniteSet(Claims') /\ Cardinality(Claims') \in Nat
           /\ Cardinality(Claims') <= Cardinality(Claims)
           /\ call[s].pc = "claim" => Cardinality(Claims') = Cardinality(Claims) - 1
<1>1. call \in [Slot -> Calls] /\ IsFiniteSet(Claims)
  BY DEF IInv, ContinuityInv, TypeOK, LeaseFits
<1>2. \A q \in Slot : call'[q] = IF q = s THEN c ELSE call[q]
  BY <1>1
<1>3. Claims' = Claims \ {s}
  BY <1>2 DEF Claims
<1>4. call[s].pc = "claim" <=> s \in Claims
  BY DEF Claims
<1>5. /\ IsFiniteSet(Claims \ {s})
      /\ Cardinality(Claims \ {s}) = IF s \in Claims THEN Cardinality(Claims) - 1 ELSE Cardinality(Claims)
  <2> HIDE DEF Claims
  <2> QED BY <1>1, FS_RemoveElement
<1>6. Cardinality(Claims) \in Nat /\ Cardinality(Claims \ {s}) \in Nat
  BY <1>1, <1>5, FS_CardinalityType
<1> QED BY <1>3, <1>4, <1>5, <1>6

\* Only the requests in flight change.
LEMMA CallInv ==
    ASSUME IInv, NEW s \in Slot, NEW c \in Calls,
           call' = [call EXCEPT ![s] = c],
           c.pc = "drill" => c.ref \in Points /\ log[c.ref].token < c.token,
           UNCHANGED <<clock, granted, lease, log, planVars>>,
           IsFiniteSet(Claims'), lease.token + Cardinality(Claims') <= MaxToken
    PROVE  IInv'
<1> USE DEF planVars
<1>1. call \in [Slot -> Calls]
  BY DEF IInv, ContinuityInv, TypeOK
<1>2. call' \in [Slot -> Calls] /\ \A q \in Slot : call'[q] = IF q = s THEN c ELSE call[q]
  BY <1>1
<1>3. TypeOK'
  BY <1>2 DEF IInv, ContinuityInv, TypeOK
<1>4. Points' = Points /\ OneChain' /\ NoSecondAppend'
  BY SameLog DEF IInv, ContinuityInv
<1>5. DrillsByReplacement'
  BY SameDrills DEF IInv, ContinuityInv
<1>6. OnePending'
  BY DEF IInv, ContinuityInv, OnePending, Pending
<1>7. LeaseFits'
  BY DEF IInv, LeaseFits
<1>8. DrillsFit'
  BY <1>2, <1>4 DEF IInv, DrillsFit
<1>9. DueFits'
  BY <1>4 DEF IInv, DueFits
<1>10. RowsFit'
  BY <1>4 DEF IInv, RowsFit, RowFits, CronRow, DueRow, Pending
<1> QED BY <1>3, <1>4, <1>5, <1>6, <1>7, <1>8, <1>9, <1>10 DEF IInv, ContinuityInv

\* A request that is not a claim and restores nothing.
LEMMA PlainInv ==
    ASSUME IInv, NEW s \in Slot, NEW c \in Calls, c.pc \notin {"claim", "drill"},
           call' = [call EXCEPT ![s] = c],
           UNCHANGED <<clock, granted, lease, log, planVars>>
    PROVE  IInv'
<1>1. IsFiniteSet(Claims') /\ Cardinality(Claims') \in Nat /\ Cardinality(Claims') <= Cardinality(Claims)
  BY FewerClaims
<1>2. lease.token \in Nat /\ MaxToken \in Nat /\ lease.token + Cardinality(Claims) <= MaxToken
      /\ Cardinality(Claims) \in Nat
  BY FS_CardinalityType, ContinuityAssumption
     DEF IInv, ContinuityInv, TypeOK, LeaseFits, ContinuityAssumption
<1>3. lease.token + Cardinality(Claims') <= MaxToken
  BY <1>1, <1>2
<1> QED BY <1>1, <1>3, CallInv

LEMMA FailInv == ASSUME IInv, NEW s \in Slot, Fail(s) PROVE IInv'
  BY IdleCall, PlainInv DEF Fail, Answer, leaseVars, planVars

LEMMA BeginClaimInv ==
    ASSUME IInv, NEW s \in Slot, NEW l \in Lead, BeginClaim(s, l) PROVE IInv'
<1> DEFINE c == [pc |-> "claim", lead |-> l, now |-> clock]
<1>1. clock \in 0..MaxTime /\ call \in [Slot -> Calls] /\ IsFiniteSet(Claims) /\ lease.token \in Nat
  BY DEF IInv, ContinuityInv, TypeOK, LeaseFits
<1>2. c \in Calls
  BY <1>1 DEF Calls
<1>3. call' = [call EXCEPT ![s] = c] /\ s \notin Claims
      /\ lease.token + Cardinality(Claims) < MaxToken
      /\ UNCHANGED <<clock, granted, lease, log, planVars>>
  BY IdleCall DEF BeginClaim, Free, Claims
<1>4. Claims' = Claims \cup {s}
  <2>1. \A q \in Slot : call'[q] = IF q = s THEN c ELSE call[q]
    BY <1>1, <1>3
  <2>2. \A q \in Slot : call'[q].pc = "claim" <=> q = s \/ call[q].pc = "claim"
    BY <2>1
  <2> QED BY <2>2 DEF Claims
<1>5. /\ IsFiniteSet(Claims \cup {s}) /\ Cardinality(Claims) \in Nat
      /\ Cardinality(Claims \cup {s}) = Cardinality(Claims) + 1
  <2> HIDE DEF Claims
  <2> QED BY <1>1, <1>3, FS_AddElement, FS_CardinalityType
<1>6. IsFiniteSet(Claims') /\ lease.token + Cardinality(Claims') <= MaxToken
  BY <1>1, <1>3, <1>4, <1>5, ContinuityAssumption DEF ContinuityAssumption
<1>7. c.pc # "drill"
  OBVIOUS
<1> HIDE DEF c
<1> QED BY <1>2, <1>3, <1>6, <1>7, CallInv

\* An active lease has been claimed, so it has a holder and a token.
LEMMA HeldToken ==
    ASSUME IInv, NEW l \in Lead, lease.holder = l PROVE lease.token \in Token
<1>1. lease.token \in 0..MaxToken /\ MaxToken \in Nat
  BY ContinuityAssumption DEF IInv, ContinuityInv, TypeOK, ContinuityAssumption
<1>2. lease.token # 0
  BY ContinuityAssumption DEF IInv, LeaseFits, ContinuityAssumption
<1> QED BY <1>1, <1>2 DEF Token

LEMMA BeginRenewInv ==
    ASSUME IInv, NEW s \in Slot, NEW l \in Lead, BeginRenew(s, l) PROVE IInv'
<1> DEFINE c == [pc |-> "renew", lead |-> l, token |-> lease.token, now |-> clock]
<1>1. lease.token \in Token /\ clock \in 0..MaxTime
  BY HeldToken DEF BeginRenew, IInv, ContinuityInv, TypeOK
<1>2. c \in Calls /\ c.pc \notin {"claim", "drill"}
  BY <1>1 DEF Calls
<1>3. call' = [call EXCEPT ![s] = c] /\ UNCHANGED <<clock, granted, lease, log, planVars>>
  BY DEF BeginRenew
<1> HIDE DEF c
<1> QED BY <1>2, <1>3, PlainInv

LEMMA BeginCheckpointInv ==
    ASSUME IInv, NEW s \in Slot, NEW l \in Lead, NEW k \in Key, NEW release \in BOOLEAN,
           BeginCheckpoint(s, l, k, release)
    PROVE  IInv'
<1> DEFINE c == [pc |-> "checkpoint", lead |-> l, key |-> k, token |-> lease.token,
                 ref |-> Latest, release |-> release]
<1>1. lease.token \in Token
  BY HeldToken DEF BeginCheckpoint, Holds
<1>2. Latest \in 0..MaxLog
  BY LatestIs DEF IInv, ContinuityInv
<1>3. c \in Calls /\ c.pc \notin {"claim", "drill"}
  BY <1>1, <1>2 DEF Calls
<1>4. call' = [call EXCEPT ![s] = c] /\ UNCHANGED <<clock, granted, lease, log, planVars>>
  BY DEF BeginCheckpoint
<1> HIDE DEF c
<1> QED BY <1>3, <1>4, PlainInv

LEMMA BeginDrillInv ==
    ASSUME IInv, NEW s \in Slot, NEW l \in Lead, NEW k \in Key, NEW d \in due,
           BeginDrill(s, l, k, d)
    PROVE  IInv'
<1> DEFINE c == [pc |-> "drill", lead |-> l, key |-> k, now |-> clock,
                 token |-> lease.token, ref |-> d.source, sched |-> d.sched, window |-> d.window]
<1>1. lease.token \in Token /\ clock \in 0..MaxTime /\ MaxToken \in Nat
  BY HeldToken, ContinuityAssumption
     DEF BeginDrill, Holds, IInv, ContinuityInv, TypeOK, ContinuityAssumption
<1>2. d.source \in Points /\ log[d.source].token # lease.token
  BY DEF BeginDrill, ReplacedLead, IInv, DueFits
<1>3. TypeOK
  BY DEF IInv, ContinuityInv
<1>4. d.source \in 1..MaxLog /\ d.sched \in 1..MaxSchedule /\ d.window \in Nat
  BY <1>2, <1>3, LogIs, DueIs
<1>5. c \in Calls /\ c.pc # "claim"
  BY <1>1, <1>4 DEF Calls
<1>6. log[d.source].token < lease.token
  <2>1. d.source \in DOMAIN log /\ log[d.source] \in Entries
    BY <1>2, <1>3, LogIs DEF Points
  <2>2. log[d.source].token \in Token /\ log[d.source].token <= lease.token
    BY <2>1 DEF Entries, IInv, LeaseFits
  <2> QED BY <1>1, <1>2, <2>2 DEF Token
<1>7. c.ref \in Points /\ log[c.ref].token < c.token
  BY <1>2, <1>6
<1>8. call' = [call EXCEPT ![s] = c] /\ UNCHANGED <<clock, granted, lease, log, planVars>>
  BY DEF BeginDrill
<1> HIDE DEF c
<1>9. IsFiniteSet(Claims') /\ Cardinality(Claims') \in Nat /\ Cardinality(Claims') <= Cardinality(Claims)
  BY <1>5, <1>8, FewerClaims
<1>10. lease.token + Cardinality(Claims) <= MaxToken /\ Cardinality(Claims) \in Nat
  BY FS_CardinalityType DEF IInv, LeaseFits
<1>11. lease.token + Cardinality(Claims') <= MaxToken
  BY <1>1, <1>9, <1>10 DEF Token
<1> QED BY <1>5, <1>7, <1>8, <1>9, <1>11, CallInv

\* A request ends in a step that changes the lease and not the log.
LEMMA LeaseInv ==
    ASSUME IInv, NEW s \in Slot, Answer(s),
           UNCHANGED <<clock, granted, log, planVars>>,
           lease' \in [token : 0..MaxToken, holder : Lead \cup {NoLead},
                       status : {"active", "revoked"}, expires : Nat],
           lease'.token = 0 => lease'.holder = NoLead,
           \/ lease'.token = lease.token
           \/ lease'.token = lease.token + 1 /\ call[s].pc = "claim"
    PROVE  IInv'
<1> USE DEF planVars
<1>1. /\ call \in [Slot -> Calls] /\ call' = [call EXCEPT ![s] = Idle]
      /\ Idle \in Calls /\ Idle.pc \notin {"claim", "drill"}
  BY IdleCall DEF IInv, ContinuityInv, TypeOK, Answer
<1>2. call' \in [Slot -> Calls] /\ \A q \in Slot : call'[q] = IF q = s THEN Idle ELSE call[q]
  BY <1>1
<1>3. TypeOK'
  BY <1>2 DEF IInv, ContinuityInv, TypeOK
<1>4. Points' = Points /\ OneChain' /\ NoSecondAppend'
  BY SameLog DEF IInv, ContinuityInv
<1>5. DrillsByReplacement'
  BY SameDrills DEF IInv, ContinuityInv
<1>6. OnePending'
  BY DEF IInv, ContinuityInv, OnePending, Pending
<1>7. LeaseFits'
  <2>1. /\ lease.token \in Nat /\ lease'.token \in Nat /\ MaxToken \in Nat
        /\ Cardinality(Claims) \in Nat /\ lease.token + Cardinality(Claims) <= MaxToken
    BY <1>3, FS_CardinalityType, ContinuityAssumption
       DEF IInv, ContinuityInv, TypeOK, LeaseFits, ContinuityAssumption
  <2>2. /\ IsFiniteSet(Claims') /\ Cardinality(Claims') \in Nat
        /\ Cardinality(Claims') <= Cardinality(Claims)
        /\ call[s].pc = "claim" => Cardinality(Claims') = Cardinality(Claims) - 1
    BY <1>1, FewerClaims
  <2>3. lease'.token + Cardinality(Claims') <= MaxToken
    BY <2>1, <2>2
  <2>4. ASSUME NEW i \in DOMAIN log PROVE log[i].token <= lease'.token
    <3>1. log[i] \in Entries /\ log[i].token <= lease.token
      BY LogIs DEF IInv, ContinuityInv, LeaseFits
    <3>2. log[i].token \in Nat
      BY <3>1 DEF Entries, Token
    <3> QED BY <2>1, <3>1, <3>2
  <2> QED BY <2>2, <2>3, <2>4 DEF LeaseFits
<1>8. DrillsFit'
  BY <1>1, <1>2, <1>4 DEF IInv, DrillsFit
<1>9. DueFits'
  BY <1>4 DEF IInv, DueFits
<1>10. RowsFit'
  BY <1>4 DEF IInv, RowsFit, RowFits, CronRow, DueRow, Pending
<1> QED BY <1>3, <1>4, <1>5, <1>6, <1>7, <1>8, <1>9, <1>10 DEF IInv, ContinuityInv

LEMMA LeaseIs ==
    ASSUME IInv
    PROVE  /\ lease \in [token : 0..MaxToken, holder : Lead \cup {NoLead},
                         status : {"active", "revoked"}, expires : Nat]
           /\ lease.token \in 0..MaxToken /\ lease.expires \in Nat
           /\ lease.token = 0 => lease.holder = NoLead
           /\ \A s \in Slot : call[s] \in Calls
           /\ LeaseTime \in Nat /\ MaxToken \in Nat /\ MaxTime \in Nat
  BY ContinuityAssumption DEF IInv, ContinuityInv, TypeOK, LeaseFits, ContinuityAssumption

LEMMA CommitClaimInv == ASSUME IInv, NEW s \in Slot, CommitClaim(s) PROVE IInv'
<1>1. /\ call[s].pc = "claim" /\ call[s].lead \in Lead /\ call[s].now \in 0..MaxTime
      /\ UNCHANGED <<clock, granted, log, planVars>> /\ Answer(s)
  BY LeaseIs, Kinds DEF CommitClaim
<1>2. CASE Claimable(call[s].now)
  <2>1. lease' = [token |-> lease.token + 1, holder |-> call[s].lead, status |-> "active",
                  expires |-> call[s].now + LeaseTime]
    BY <1>2 DEF CommitClaim
  <2>2. lease.token + 1 \in 0..MaxToken
    <3>1. s \in Claims /\ IsFiniteSet(Claims) /\ lease.token + Cardinality(Claims) <= MaxToken
      BY <1>1 DEF Claims, IInv, LeaseFits
    <3>2. Cardinality(Claims) \in Nat /\ Cardinality(Claims) # 0
      <4> HIDE DEF Claims
      <4> QED BY <3>1, FS_CardinalityType, FS_EmptySet
    <3> QED BY <3>1, <3>2, LeaseIs
  <2>3. call[s].now + LeaseTime \in Nat
    BY <1>1, LeaseIs
  <2> QED BY <1>1, <2>1, <2>2, <2>3, LeaseIs, LeaseInv
<1>3. CASE ~Claimable(call[s].now)
  <2>1. lease' = lease
    BY <1>3 DEF CommitClaim
  <2> QED BY <1>1, <2>1, LeaseIs, LeaseInv
<1> QED BY <1>2, <1>3

LEMMA CommitRenewInv == ASSUME IInv, NEW s \in Slot, CommitRenew(s) PROVE IInv'
<1>1. /\ call[s].now \in 0..MaxTime
      /\ UNCHANGED <<clock, granted, log, planVars>> /\ Answer(s)
      /\ lease' = [lease EXCEPT !.expires = call[s].now + LeaseTime] \/ lease' = lease
  BY LeaseIs, Kinds DEF CommitRenew
<1>2. call[s].now + LeaseTime \in Nat
  BY <1>1, LeaseIs
<1> QED BY <1>1, <1>2, LeaseIs, LeaseInv

\* A step that leaves every row and request alone but the clock, the grants
\* and the status of the lease.
LEMMA QuietInv ==
    ASSUME IInv, UNCHANGED <<log, call, schedule, due>>, RowsFit',
           clock' \in 0..MaxTime, granted' \subseteq Lead,
           lease' \in [token : 0..MaxToken, holder : Lead \cup {NoLead},
                       status : {"active", "revoked"}, expires : Nat],
           lease'.token = lease.token, lease'.holder = lease.holder
    PROVE  IInv'
<1>1. TypeOK'
  BY DEF IInv, ContinuityInv, TypeOK
<1>2. Points' = Points /\ OneChain' /\ NoSecondAppend'
  BY SameLog DEF IInv, ContinuityInv
<1>3. DrillsByReplacement'
  BY SameDrills DEF IInv, ContinuityInv
<1>4. OnePending'
  BY DEF IInv, ContinuityInv, OnePending, Pending
<1>5. LeaseFits'
  <2>1. Claims' = Claims
    BY DEF Claims
  <2> QED BY <2>1 DEF IInv, LeaseFits
<1>6. DrillsFit'
  BY <1>2 DEF IInv, DrillsFit
<1>7. DueFits'
  BY <1>2 DEF IInv, DueFits
<1> QED BY <1>1, <1>2, <1>3, <1>4, <1>5, <1>6, <1>7 DEF IInv, ContinuityInv

LEMMA RowsSame ==
    ASSUME IInv, UNCHANGED <<log, schedule, due, cron>> PROVE RowsFit'
<1>1. Points' = Points
  BY SameLog
<1> QED BY <1>1 DEF IInv, RowsFit, RowFits, CronRow, DueRow, Pending

LEMMA RevokeLeaseInv == IInv /\ RevokeLease => IInv'
<1> SUFFICES ASSUME IInv, RevokeLease PROVE IInv'
  OBVIOUS
<1>1. /\ UNCHANGED <<clock, granted, log, call, schedule, due, cron>>
      /\ lease' = [lease EXCEPT !.status = "revoked"]
  BY DEF RevokeLease, planVars
<1>2. clock \in 0..MaxTime /\ granted \subseteq Lead
  BY DEF IInv, ContinuityInv, TypeOK
<1> QED BY <1>1, <1>2, LeaseIs, RowsSame, QuietInv

LEMMA RevokeGrantInv == ASSUME IInv, NEW l \in Lead, RevokeGrant(l) PROVE IInv'
<1>1. UNCHANGED <<clock, lease, log, call, schedule, due, cron>> /\ granted' = granted \ {l}
  BY DEF RevokeGrant, planVars
<1>2. clock \in 0..MaxTime /\ granted' \subseteq Lead
  BY <1>1 DEF IInv, ContinuityInv, TypeOK
<1> QED BY <1>1, <1>2, LeaseIs, RowsSame, QuietInv

LEMMA TickInv == IInv /\ Tick => IInv'
<1> SUFFICES ASSUME IInv, Tick PROVE IInv'
  OBVIOUS
<1>1. UNCHANGED <<granted, lease, log, call, schedule, due, cron>>
      /\ clock' = clock + 1 /\ clock < MaxTime
  BY DEF Tick, leaseVars, planVars
<1>2. granted \subseteq Lead /\ clock \in 0..MaxTime
  BY DEF IInv, ContinuityInv, TypeOK
<1>3. clock' \in 0..MaxTime
  BY <1>1, <1>2, LeaseIs
<1> QED BY <1>1, <1>2, <1>3, LeaseIs, RowsSame, QuietInv

-----------------------------------------------------------------------------
(* The handler of the schedule *)

Asked(n, k, w) == \E d \in due : d.sched = n /\ d.kind = k /\ d.window = w

LEMMA AskedIs == ASSUME NEW n, NEW k, NEW w PROVE DueRow(n, k, w) # {} <=> Asked(n, k, w)
  BY DEF DueRow, Asked

\* What a step may do to what the invocations have read: points and requests
\* stay, a schedule moves on only from a window that was asked for, and a new
\* request is one for the window of its schedule.
Forward ==
    /\ TypeOK /\ TypeOK' /\ Points \subseteq Points'
    /\ \A d \in due : \E e \in due' : e.sched = d.sched /\ e.kind = d.kind /\ e.window = d.window
    /\ DOMAIN schedule \subseteq DOMAIN schedule'
    /\ \A n \in DOMAIN schedule : \A k \in Kind :
          schedule'[n].next[k] # schedule[n].next[k] =>
             schedule'[n].next[k] > schedule[n].next[k] /\ Asked(n, k, schedule[n].next[k])
    /\ \A d \in due' : Pending(d) =>
          d \in due \/ (d.sched \in DOMAIN schedule /\ d.window = schedule[d.sched].next[d.kind])

LEMMA StillFits == ASSUME Forward, NEW row, RowFits(row) PROVE RowFits(row)'
<1> SUFFICES ASSUME row # Idle PROVE RowFits(row)'
  BY DEF RowFits
<1>1. row \in CronRow /\ row.sched \in DOMAIN schedule
  BY DEF RowFits
<1>2. row.sched \in DOMAIN schedule'
  BY <1>1 DEF Forward
<1>3. \A k \in Kind : /\ row.next[k] \in Nat
                      /\ schedule[row.sched].next[k] \in Nat
                      /\ schedule'[row.sched].next[k] \in Nat
  <2>1. row.next \in [Kind -> Nat]
    BY <1>1 DEF CronRow
  <2>2. TypeOK /\ (TypeOK => \A n \in DOMAIN schedule : \A k \in Kind : schedule[n].next[k] \in Nat)
    BY ScheduleIs DEF Forward
  <2>3. (TypeOK => \A n \in DOMAIN schedule : \A k \in Kind : schedule[n].next[k] \in Nat)'
    BY ScheduleIsNext
  <2>4. TypeOK'
    BY DEF Forward
  <2> QED BY <1>1, <1>2, <2>1, <2>2, <2>3, <2>4
<1>4. \A n, k, w : Asked(n, k, w) => Asked(n, k, w)'
  BY DEF Forward, Asked
<1>5. ASSUME NEW k \in Kind
      PROVE  /\ row.next[k] <= schedule'[row.sched].next[k]
             /\ row.next[k] < schedule'[row.sched].next[k] => Asked(row.sched, k, row.next[k])'
             /\ k \in row.made => row.next[k] <= row.time /\ Asked(row.sched, k, row.next[k])'
  <2>1. /\ row.next[k] <= schedule[row.sched].next[k]
        /\ row.next[k] < schedule[row.sched].next[k] => Asked(row.sched, k, row.next[k])
        /\ k \in row.made => row.next[k] <= row.time /\ Asked(row.sched, k, row.next[k])
    BY AskedIs DEF RowFits
  <2>2. schedule'[row.sched].next[k] # schedule[row.sched].next[k] =>
             /\ schedule'[row.sched].next[k] > schedule[row.sched].next[k]
             /\ Asked(row.sched, k, schedule[row.sched].next[k])
    BY <1>1 DEF Forward
  <2>3. PICK old, new : old = schedule[row.sched].next[k] /\ new = schedule'[row.sched].next[k]
    OBVIOUS
  <2>4. row.next[k] <= new /\ (row.next[k] < new => Asked(row.sched, k, row.next[k]))
    BY <1>3, <2>1, <2>2, <2>3
  <2> QED BY <1>4, <2>1, <2>3, <2>4
<1>6. row.pc = "insert" =>
         /\ row.next[row.kind] <= row.time
         /\ IF row.kind = "drill" THEN row.source \in Points' ELSE row.source = 0
         /\ \A d \in due' : (Pending(d) /\ d.sched = row.sched /\ d.kind = row.kind)
                               => row.next[row.kind] <= d.window
  <2> SUFFICES ASSUME row.pc = "insert"
               PROVE  /\ row.next[row.kind] <= row.time
                      /\ IF row.kind = "drill" THEN row.source \in Points' ELSE row.source = 0
                      /\ \A d \in due' : (Pending(d) /\ d.sched = row.sched /\ d.kind = row.kind)
                                            => row.next[row.kind] <= d.window
    OBVIOUS
  <2>1. row.kind \in Kind
    BY <1>1 DEF CronRow
  <2>2. /\ row.next[row.kind] <= row.time
        /\ IF row.kind = "drill" THEN row.source \in Points ELSE row.source = 0
        /\ \A d \in due : (Pending(d) /\ d.sched = row.sched /\ d.kind = row.kind)
                             => row.next[row.kind] <= d.window
        /\ row.next[row.kind] <= schedule[row.sched].next[row.kind]
    BY <2>1 DEF RowFits
  <2>3. \A d \in due' : Pending(d) =>
          d \in due \/ d.window = schedule[d.sched].next[d.kind]
    BY DEF Forward
  <2>4. Points \subseteq Points'
    BY DEF Forward
  <2> QED BY <2>2, <2>3, <2>4
<1>7. CronRow' = CronRow
  BY DEF CronRow
<1>8. \A n, k, w : DueRow(n, k, w)' # {} <=> Asked(n, k, w)'
  BY DEF DueRow, Asked
<1> QED BY <1>1, <1>2, <1>5, <1>6, <1>7, <1>8 DEF RowFits, Pending

LEMMA RowsStay == ASSUME RowsFit, Forward, UNCHANGED cron PROVE RowsFit'
<1>1. ASSUME NEW c \in Cron PROVE RowFits(cron[c])'
  <2>1. PICK row : row = cron[c] /\ RowFits(row)
    BY DEF RowsFit
  <2>2. RowFits(row)'
    BY <2>1, StillFits
  <2> QED BY <2>1, <2>2 DEF RowFits
<1> QED BY <1>1 DEF RowsFit

LEMMA RowsStep ==
    ASSUME RowsFit, Forward, NEW c \in Cron, NEW row, RowFits(row)',
           cron' = [cron EXCEPT ![c] = row]
    PROVE  RowsFit'
<1>1. cron = [b \in Cron |-> cron[b]]
  BY DEF RowsFit
<1>2. cron' = [b \in Cron |-> cron'[b]]
  BY <1>1
<1>3. ASSUME NEW b \in Cron PROVE RowFits(cron[b])'
  <2>1. PICK r : r = cron'[b]
    OBVIOUS
  <2>2. CASE b = c
    <3>1. r = row
      BY <1>1, <2>1, <2>2
    <3>2. RowFits(r)'
      BY <3>1
    <3> QED BY <2>1, <3>2 DEF RowFits
  <2>3. CASE b # c
    <3>1. r = cron[b]
      BY <1>1, <2>1, <2>3
    <3>2. RowFits(r)
      BY <3>1 DEF RowsFit
    <3>3. RowFits(r)'
      BY <3>2, StillFits
    <3> QED BY <2>1, <3>3 DEF RowFits
  <2> QED BY <2>2, <2>3
<1> QED BY <1>2, <1>3 DEF RowsFit

LEMMA PlanForward == ASSUME TypeOK, TypeOK', UNCHANGED <<log, schedule, due>> PROVE Forward
<1>1. Points' = Points
  BY SameLog
<1> QED BY <1>1 DEF Forward

\* Only an invocation of the handler changes.
LEMMA CronInv ==
    ASSUME IInv, NEW c \in Cron, NEW row, RowFits(row),
           cron' = [cron EXCEPT ![c] = row],
           UNCHANGED <<clock, granted, lease, log, call, schedule, due>>
    PROVE  IInv'
<1>1. TypeOK /\ TypeOK' /\ RowsFit
  BY DEF IInv, ContinuityInv, TypeOK
<1>2. Forward
  BY <1>1, PlanForward
<1>3. RowFits(row)'
  BY <1>2, StillFits
<1>4. RowsFit'
  BY <1>1, <1>2, <1>3, RowsStep
<1>5. clock \in 0..MaxTime /\ granted \subseteq Lead
  BY <1>1 DEF TypeOK
<1> QED BY <1>4, <1>5, LeaseIs, QuietInv

LEMMA CronCrashInv == ASSUME IInv, NEW c \in Cron, CronCrash(c) PROVE IInv'
<1>1. PICK row : row = Idle /\ RowFits(row)
  BY DEF RowFits
<1>2. cron' = [cron EXCEPT ![c] = row] /\ UNCHANGED <<clock, granted, lease, log, call, schedule, due>>
  BY <1>1 DEF CronCrash, leaseVars
<1> QED BY <1>1, <1>2, CronInv

LEMMA CronReadInv ==
    ASSUME IInv, NEW c \in Cron, NEW n \in DOMAIN schedule, CronRead(c, n) PROVE IInv'
<1>1. PICK row : row = [pc |-> "check", kind |-> "point", sched |-> n, next |-> schedule[n].next,
                        time |-> clock, made |-> {}, source |-> 0]
  OBVIOUS
<1>2. cron' = [cron EXCEPT ![c] = row] /\ UNCHANGED <<clock, granted, lease, log, call, schedule, due>>
  BY <1>1 DEF CronRead, leaseVars
<1>3. TypeOK
  BY DEF IInv, ContinuityInv
<1>4. schedule[n].next \in [Kind -> Nat] /\ n \in Nat /\ clock \in 0..MaxTime /\ 0 \in 0..MaxLog
      /\ \A k \in Kind : schedule[n].next[k] \in Nat
  BY <1>3, ScheduleIs, LatestIs, ContinuityAssumption DEF TypeOK, ContinuityAssumption
<1>5. row \in CronRow
  BY <1>1, <1>4 DEF CronRow, Kind
<1>6. RowFits(row)
  BY <1>1, <1>4, <1>5 DEF RowFits
<1> QED BY <1>2, <1>6, CronInv

\* What an invocation goes on with after the request of one kind.
LEMMA OnwardFits ==
    ASSUME TypeOK, NEW row, row # Idle, RowFits(row), NEW made \in SUBSET Kind,
           made = row.made
           \/ /\ made = row.made \cup {row.kind} /\ row.next[row.kind] <= row.time
              /\ DueRow(row.sched, row.kind, row.next[row.kind]) # {}
    PROVE  RowFits(Onward(row, made))
<1>1. row \in CronRow
  BY DEF RowFits
<1>2. PICK r : r = Onward(row, made)
  OBVIOUS
<1>3. /\ r \in CronRow /\ r.pc # "insert"
      /\ r.sched = row.sched /\ r.next = row.next /\ r.time = row.time /\ r.made = made
  <2>1. 0 \in 0..MaxLog
    BY ContinuityAssumption DEF ContinuityAssumption
  <2>2. CASE row.kind = "point"
    <3>1. r = [row EXCEPT !.pc = "check", !.kind = "drill", !.made = made, !.source = 0]
      BY <1>2, <2>2 DEF Onward
    <3> QED BY <1>1, <2>1, <3>1 DEF CronRow, Kind
  <2>3. CASE row.kind # "point"
    <3>1. r = [row EXCEPT !.pc = "advance", !.made = made, !.source = 0]
      BY <1>2, <2>3 DEF Onward
    <3> QED BY <1>1, <2>1, <3>1 DEF CronRow, Kind
  <2> QED BY <2>2, <2>3
<1>4. RowFits(r)
  BY <1>3 DEF RowFits
<1> QED BY <1>2, <1>4

LEMMA CronCheckInv == ASSUME IInv, NEW c \in Cron, CronCheck(c) PROVE IInv'
<1>1. PICK row : row = cron[c]
  OBVIOUS
<1> DEFINE exists == DueRow(row.sched, row.kind, row.next[row.kind]) # {}
           skip == \/ row.next[row.kind] > row.time
                   \/ NoSource(row)
                   \/ ~exists /\ Overlaps(row)
<1>2. /\ row.pc = "check"
      /\ cron' = [cron EXCEPT ![c] =
            IF skip THEN Onward(row, row.made)
            ELSE IF exists THEN Onward(row, row.made \cup {row.kind})
            ELSE [row EXCEPT !.pc = "insert",
                             !.source = IF row.kind = "drill" THEN Latest ELSE 0]]
      /\ UNCHANGED <<clock, granted, lease, log, call, schedule, due>>
  BY <1>1 DEF CronCheck, leaseVars
<1>3. row # Idle /\ RowFits(row) /\ TypeOK /\ OneChain
  BY <1>1, <1>2 DEF Idle, IInv, ContinuityInv, RowsFit
<1>4. /\ row \in CronRow /\ row.kind \in Kind /\ row.made \in SUBSET Kind
      /\ row.next[row.kind] \in Nat /\ row.time \in Nat
  <2>1. row \in CronRow
    BY <1>3 DEF RowFits
  <2>2. row.kind \in Kind /\ row.made \in SUBSET Kind /\ row.next \in [Kind -> Nat] /\ row.time \in 0..MaxTime
    BY <2>1 DEF CronRow
  <2> QED BY <2>1, <2>2
<1>5. CASE skip
  <2>1. PICK r : r = Onward(row, row.made) /\ RowFits(r)
    BY <1>3, <1>4, OnwardFits
  <2>2. cron' = [cron EXCEPT ![c] = r]
    BY <1>2, <1>5, <2>1
  <2> QED BY <1>2, <2>1, <2>2, CronInv
<1>6. CASE ~skip /\ exists
  <2>1. row.next[row.kind] <= row.time
    BY <1>4, <1>6
  <2>2. PICK r : r = Onward(row, row.made \cup {row.kind}) /\ RowFits(r)
    BY <1>3, <1>4, <1>6, <2>1, OnwardFits
  <2>3. cron' = [cron EXCEPT ![c] = r]
    BY <1>2, <1>6, <2>2
  <2> QED BY <1>2, <2>2, <2>3, CronInv
<1>7. CASE ~skip /\ ~exists
  <2>1. PICK r : r = [row EXCEPT !.pc = "insert", !.source = IF row.kind = "drill" THEN Latest ELSE 0]
    OBVIOUS
  <2>2. cron' = [cron EXCEPT ![c] = r]
    BY <1>2, <1>7, <2>1
  <2>3. row.next[row.kind] <= row.time /\ ~NoSource(row) /\ ~Overlaps(row)
    BY <1>4, <1>7
  <2>4. /\ Latest \in {0} \cup Points /\ Latest \in 0..MaxLog /\ 0 \in 0..MaxLog
        /\ row.kind = "drill" => Latest \in Points
    BY <1>3, <2>3, LatestIs, ContinuityAssumption DEF NoSource, ContinuityAssumption
  <2>5. /\ r \in CronRow /\ r.pc = "insert" /\ r.kind = row.kind
        /\ r.sched = row.sched /\ r.next = row.next /\ r.time = row.time /\ r.made = row.made
        /\ r.source = IF row.kind = "drill" THEN Latest ELSE 0
    BY <1>4, <2>1, <2>4 DEF CronRow
  <2>6. \A d \in due : ~(Pending(d) /\ d.sched = row.sched /\ d.kind = row.kind)
    BY <2>3 DEF Overlaps
  <2>7. RowFits(r)
    BY <1>3, <2>3, <2>4, <2>5, <2>6 DEF RowFits
  <2> QED BY <1>2, <2>2, <2>7, CronInv
<1> QED BY <1>5, <1>6, <1>7

\* The batch that records the request of a window.
LEMMA CronInsertInv == ASSUME IInv, NEW c \in Cron, CronInsert(c) PROVE IInv'
<1>1. PICK row : row = cron[c]
  OBVIOUS
<1>2. PICK window : window = row.next[row.kind]
  OBVIOUS
<1>3. PICK r : r = Onward(row, row.made \cup {row.kind})
  OBVIOUS
<1>4. /\ row.pc = "insert" /\ cron' = [cron EXCEPT ![c] = r]
      /\ due' = IF DueRow(row.sched, row.kind, window) # {} THEN due
                ELSE due \cup {[sched |-> row.sched, kind |-> row.kind, window |-> window,
                                source |-> row.source, status |-> "pending"]}
      /\ UNCHANGED <<clock, granted, lease, log, call, schedule>>
  BY <1>1, <1>2, <1>3 DEF CronInsert, leaseVars
<1>5. /\ row # Idle /\ RowFits(row) /\ TypeOK /\ OneChain /\ RowsFit /\ DueFits
      /\ OnePending /\ DrillsByReplacement
  BY <1>1, <1>4 DEF Idle, IInv, ContinuityInv, RowsFit
<1>6. /\ row \in CronRow /\ row.sched \in DOMAIN schedule
      /\ row.kind \in Kind /\ row.made \in SUBSET Kind /\ row.source \in 0..MaxLog
      /\ window \in Nat
  <2>1. row \in CronRow /\ row.sched \in DOMAIN schedule
    BY <1>5 DEF RowFits
  <2>2. /\ row.kind \in Kind /\ row.made \in SUBSET Kind /\ row.next \in [Kind -> Nat]
        /\ row.source \in 0..MaxLog
    BY <2>1 DEF CronRow
  <2> QED BY <1>2, <2>1, <2>2
<1>7. /\ window <= row.time /\ window <= schedule[row.sched].next[row.kind]
      /\ window < schedule[row.sched].next[row.kind] => DueRow(row.sched, row.kind, window) # {}
      /\ IF row.kind = "drill" THEN row.source \in Points ELSE row.source = 0
      /\ \A d \in due : (Pending(d) /\ d.sched = row.sched /\ d.kind = row.kind) => window <= d.window
  BY <1>2, <1>4, <1>5, <1>6 DEF RowFits
<1>8. CASE DueRow(row.sched, row.kind, window) # {}
  <2>1. RowFits(r)
    BY <1>2, <1>3, <1>5, <1>6, <1>7, <1>8, OnwardFits
  <2>2. UNCHANGED due
    BY <1>4, <1>8
  <2> QED BY <1>4, <2>1, <2>2, CronInv
<1>9. CASE DueRow(row.sched, row.kind, window) = {}
  <2>1. PICK e : e = [sched |-> row.sched, kind |-> row.kind, window |-> window,
                      source |-> row.source, status |-> "pending"]
    OBVIOUS
  <2>2. /\ due' = due \cup {e} /\ e.sched = row.sched /\ e.kind = row.kind /\ e.window = window
        /\ e.source = row.source /\ e.status = "pending"
    BY <1>4, <1>9, <2>1
  <2>3. ~Asked(row.sched, row.kind, window)
    BY <1>9, AskedIs
  <2>4. row.sched \in 1..MaxSchedule /\ row.source \in 0..MaxLog
        /\ schedule[row.sched].next[row.kind] \in Nat /\ Points \subseteq 1..MaxLog
    BY <1>5, <1>6, ScheduleIs, LogIs
  <2>5. e \in Due
    BY <1>6, <1>7, <2>1, <2>4 DEF Due, Kind
  <2>6. TypeOK'
    BY <1>4, <1>5, <2>2, <2>5 DEF TypeOK
  <2>7. Points' = Points /\ OneChain' /\ NoSecondAppend'
    BY <1>4, SameLog DEF IInv, ContinuityInv
  <2>8. window = schedule[row.sched].next[row.kind]
    BY <1>6, <1>7, <1>9, <2>4
  <2>9. \A d \in due : ~(Pending(d) /\ d.sched = e.sched /\ d.kind = e.kind)
    <3> SUFFICES ASSUME NEW d \in due, Pending(d), d.sched = e.sched, d.kind = e.kind PROVE FALSE
      OBVIOUS
    <3>1. d.window \in Nat /\ window <= d.window /\ d.window <= schedule[row.sched].next[row.kind]
      BY <1>5, <1>7, <2>2, DueIs DEF DueFits
    <3>2. d.window = window
      BY <1>6, <2>8, <3>1
    <3> QED BY <2>2, <2>3, <3>2 DEF Asked
  <2>10. OnePending'
    BY <1>5, <2>2, <2>9 DEF OnePending, Pending
  <2>11. DrillsByReplacement'
    <3>1. {d \in due' : ~Pending(d)} = {d \in due : ~Pending(d)}
      BY <2>2 DEF Pending
    <3> QED BY <1>4, <1>5, <2>7, <3>1 DEF DrillsByReplacement, Pending
  <2>12. LeaseFits' /\ DrillsFit'
    <3>1. Claims' = Claims
      BY <1>4 DEF Claims
    <3> QED BY <1>4, <2>7, <3>1 DEF IInv, LeaseFits, DrillsFit
  <2>13. DueFits'
    <3>1. IsFiniteSet(due')
      <4> QED BY <1>5, <2>2, FS_AddElement DEF DueFits
    <3>2. \A d \in due : ~(d.sched = e.sched /\ d.kind = e.kind /\ d.window = e.window)
      BY <2>2, <2>3 DEF Asked
    <3>3. /\ e.sched \in DOMAIN schedule /\ e.window <= schedule[e.sched].next[e.kind]
          /\ e.kind = "drill" => e.source \in Points
      BY <1>6, <1>7, <2>2
    <3>4. \A d, f \in due' :
             (d.sched = f.sched /\ d.kind = f.kind /\ d.window = f.window) => d = f
      BY <1>5, <2>2, <3>2 DEF DueFits
    <3>5. \A d \in due' : /\ d.sched \in DOMAIN schedule
                          /\ d.window <= schedule[d.sched].next[d.kind]
                          /\ d.kind = "drill" => d.source \in Points
      BY <1>5, <2>2, <3>3 DEF DueFits
    <3> QED BY <1>4, <2>7, <3>1, <3>4, <3>5 DEF DueFits
  <2>14. Forward
    BY <1>4, <1>5, <1>6, <2>2, <2>6, <2>7, <2>8 DEF Forward
  <2>15. RowFits(row)'
    BY <1>5, <2>14, StillFits
  <2>16. (DueRow(row.sched, row.kind, window) # {})'
    BY <2>2 DEF DueRow
  <2>17. RowFits(r)'
    <3>1. /\ r \in CronRow /\ r.pc # "insert"
          /\ r.sched = row.sched /\ r.next = row.next /\ r.time = row.time
          /\ r.made = row.made \cup {row.kind}
      <4>1. 0 \in 0..MaxLog
        BY ContinuityAssumption DEF ContinuityAssumption
      <4>2. CASE row.kind = "point"
        <5>1. r = [row EXCEPT !.pc = "check", !.kind = "drill", !.made = row.made \cup {row.kind}, !.source = 0]
          BY <1>3, <4>2 DEF Onward
        <5> QED BY <1>6, <4>1, <5>1 DEF CronRow, Kind
      <4>3. CASE row.kind # "point"
        <5>1. r = [row EXCEPT !.pc = "advance", !.made = row.made \cup {row.kind}, !.source = 0]
          BY <1>3, <4>3 DEF Onward
        <5> QED BY <1>6, <4>1, <5>1 DEF CronRow, Kind
      <4> QED BY <4>2, <4>3
    <3>2. CronRow' = CronRow
      BY DEF CronRow
    <3> QED BY <1>2, <1>5, <1>7, <2>15, <2>16, <3>1, <3>2 DEF RowFits
  <2>18. RowsFit'
    BY <1>4, <1>5, <2>14, <2>17, RowsStep
  <2> QED BY <2>6, <2>7, <2>10, <2>11, <2>12, <2>13, <2>18 DEF IInv, ContinuityInv
<1> QED BY <1>8, <1>9

-----------------------------------------------------------------------------
(* The schedule *)

\* Only the schedule and the invocations change.
LEMMA ScheduleInv ==
    ASSUME IInv, UNCHANGED <<clock, granted, lease, log, call, due>>,
           TypeOK', Forward, RowsFit'
    PROVE  IInv'
<1>1. Points' = Points /\ OneChain' /\ NoSecondAppend'
  BY SameLog DEF IInv, ContinuityInv
<1>2. DrillsByReplacement'
  BY SameDrills DEF IInv, ContinuityInv
<1>3. OnePending'
  BY DEF IInv, ContinuityInv, OnePending, Pending
<1>4. LeaseFits' /\ DrillsFit'
  <2>1. Claims' = Claims
    BY DEF Claims
  <2> QED BY <1>1, <2>1 DEF IInv, LeaseFits, DrillsFit
<1>5. DueFits'
  <2>1. ASSUME NEW d \in due
        PROVE  /\ d.sched \in DOMAIN schedule'
               /\ d.window <= schedule'[d.sched].next[d.kind]
               /\ d.kind = "drill" => d.source \in Points
    <3>1. /\ d.sched \in DOMAIN schedule /\ d.sched \in DOMAIN schedule' /\ d.kind \in Kind
          /\ d.window \in Nat /\ d.window <= schedule[d.sched].next[d.kind]
          /\ d.kind = "drill" => d.source \in Points
      BY DueIs DEF IInv, ContinuityInv, DueFits, Forward
    <3>2. schedule[d.sched].next[d.kind] \in Nat /\ schedule'[d.sched].next[d.kind] \in Nat
      BY <3>1, ScheduleIs, ScheduleIsNext DEF IInv, ContinuityInv
    <3>3. \/ schedule'[d.sched].next[d.kind] = schedule[d.sched].next[d.kind]
          \/ schedule'[d.sched].next[d.kind] > schedule[d.sched].next[d.kind]
      BY <3>1 DEF Forward
    <3> QED BY <3>1, <3>2, <3>3
  <2> QED BY <1>1, <2>1 DEF IInv, DueFits
<1> QED BY <1>1, <1>2, <1>3, <1>4, <1>5 DEF IInv, ContinuityInv

\* A new binding pauses the others and leaves their windows.
LEMMA ActivateKeeps ==
    ASSUME IInv, Activate
    PROVE  /\ UNCHANGED <<clock, granted, lease, log, call, due, cron>> /\ TypeOK'
           /\ DOMAIN schedule \subseteq DOMAIN schedule'
           /\ \A n \in DOMAIN schedule : schedule'[n].next = schedule[n].next
<1> DEFINE Rows == [status : {"active", "paused"}, next : [Kind -> Nat]]
           paused == [i \in DOMAIN schedule |-> [schedule[i] EXCEPT !.status = "paused"]]
<1>1. PICK new : new = [status |-> "active", next |-> [k \in Kind |-> clock + Interval[k]]]
  OBVIOUS
<1>2. /\ Len(schedule) < MaxSchedule /\ schedule' = Append(paused, new)
      /\ UNCHANGED <<clock, granted, lease, log, call, due, cron>>
  BY <1>1 DEF Activate, leaseVars
<1>3. TypeOK /\ RowsFit /\ schedule \in Seq(Rows) /\ MaxSchedule \in Nat
  BY ContinuityAssumption DEF IInv, ContinuityInv, TypeOK, ContinuityAssumption
<1>4. Len(schedule) \in Nat /\ DOMAIN schedule = 1..Len(schedule)
  BY <1>3, ScheduleIs
<1>5. new \in Rows
  BY <1>1, <1>3, ContinuityAssumption DEF TypeOK, ContinuityAssumption
<1>6. \A i \in DOMAIN schedule : schedule[i] \in Rows
  <2> HIDE DEF Rows
  <2> QED BY <1>3
<1>7. \A i \in DOMAIN schedule : paused[i] \in Rows /\ paused[i].next = schedule[i].next
  BY <1>6
<1>8. paused \in Seq(Rows) /\ Len(paused) = Len(schedule)
  <2>1. paused \in [1..Len(schedule) -> Rows]
    BY <1>4, <1>7
  <2> HIDE DEF paused, Rows
  <2> QED BY <1>4, <2>1, SeqDef, LenProperties
<1>9. /\ schedule' \in Seq(Rows) /\ Len(schedule') = Len(schedule) + 1
      /\ DOMAIN schedule \subseteq DOMAIN schedule'
      /\ \A i \in DOMAIN schedule : schedule'[i] = paused[i]
  <2> HIDE DEF paused, Rows
  <2> QED BY <1>2, <1>4, <1>5, <1>8, AppendProperties
<1>10. TypeOK'
  <2>1. Len(schedule') <= MaxSchedule
    BY <1>2, <1>3, <1>4, <1>9
  <2> QED BY <1>2, <1>3, <1>9, <2>1 DEF TypeOK
<1> QED BY <1>2, <1>7, <1>9, <1>10

LEMMA ActivateInv == IInv /\ Activate => IInv'
<1> SUFFICES ASSUME IInv, Activate PROVE IInv'
  OBVIOUS
<1>1. TypeOK /\ RowsFit
  BY DEF IInv, ContinuityInv
<1>2. /\ UNCHANGED <<clock, granted, lease, log, call, due, cron>> /\ TypeOK'
      /\ DOMAIN schedule \subseteq DOMAIN schedule'
      /\ \A n \in DOMAIN schedule : schedule'[n].next = schedule[n].next
  BY ActivateKeeps
<1>3. Forward
  <2>1. Points' = Points
    BY <1>2, SameLog
  <2> QED BY <1>1, <1>2, <2>1 DEF Forward
<1>4. RowsFit'
  BY <1>1, <1>2, <1>3, RowsStay
<1> QED BY <1>2, <1>3, <1>4, ScheduleInv

\* The next window is after the one that was asked for.
LEMMA NextDueIs ==
    ASSUME NEW k \in Kind, NEW window \in Nat, NEW time \in Nat, window <= time
    PROVE  NextDue(window, k, time) \in Nat /\ NextDue(window, k, time) > window
<1>1. Interval[k] \in Nat /\ Interval[k] > 0
  BY ContinuityAssumption DEF ContinuityAssumption
<1>2. PICK i \in Nat, late \in Nat : i = Interval[k] /\ i > 0 /\ late = time - window
  BY <1>1
<1>3. PICK q \in Nat : q = late \div i
  BY <1>2
<1>4. (q + 1) * i \in Nat /\ (q + 1) * i > 0
  BY <1>2
<1>5. NextDue(window, k, time) = window + (q + 1) * i
  BY <1>2, <1>3 DEF NextDue
<1> QED BY <1>4, <1>5

\* What the batch that advances a schedule leaves in it.
LEMMA AdvanceIs ==
    ASSUME IInv, NEW c \in Cron, CronAdvance(c)
    PROVE  /\ UNCHANGED <<clock, granted, lease, log, call, due>> /\ cron' = [cron EXCEPT ![c] = Idle]
           /\ TypeOK' /\ DOMAIN schedule' = DOMAIN schedule
           /\ \A n \in DOMAIN schedule : \A k \in Kind :
                 schedule'[n].next[k] # schedule[n].next[k] =>
                    schedule'[n].next[k] > schedule[n].next[k] /\ Asked(n, k, schedule[n].next[k])
<1> DEFINE Rows == [status : {"active", "paused"}, next : [Kind -> Nat]]
<1>1. PICK row : row = cron[c]
  OBVIOUS
<1>2. PICK n : n = row.sched
  OBVIOUS
<1>3. PICK new : new = [k \in Kind |->
                          IF k \in Advanced(row) /\ schedule[n].next[k] = row.next[k]
                          THEN NextDue(row.next[k], k, row.time) ELSE schedule[n].next[k]]
  OBVIOUS
<1>4. /\ row.pc = "advance" /\ schedule' = [schedule EXCEPT ![n].next = new]
      /\ UNCHANGED <<clock, granted, lease, log, call, due>> /\ cron' = [cron EXCEPT ![c] = Idle]
  BY <1>1, <1>2, <1>3 DEF CronAdvance, leaseVars
<1>5. row # Idle /\ RowFits(row) /\ TypeOK
  BY <1>1, <1>4 DEF Idle, IInv, ContinuityInv, RowsFit
<1>6. row \in CronRow /\ n \in DOMAIN schedule /\ row.time \in Nat
      /\ \A k \in Kind : /\ row.next[k] \in Nat
                         /\ k \in row.made => row.next[k] <= row.time /\ Asked(n, k, row.next[k])
  <2>1. row \in CronRow /\ n \in DOMAIN schedule
    BY <1>2, <1>5 DEF RowFits
  <2>2. row.next \in [Kind -> Nat] /\ row.time \in 0..MaxTime
    BY <2>1 DEF CronRow
  <2> QED BY <1>2, <1>5, <2>1, <2>2, AskedIs DEF RowFits
<1>7. schedule \in Seq(Rows) /\ \A k \in Kind : schedule[n].next[k] \in Nat
  BY <1>5, <1>6, ScheduleIs DEF TypeOK
<1>8. ASSUME NEW k \in Kind
      PROVE  /\ new[k] \in Nat
             /\ new[k] # schedule[n].next[k] =>
                   new[k] > schedule[n].next[k] /\ Asked(n, k, schedule[n].next[k])
  <2>1. CASE k \in row.made /\ schedule[n].next[k] = row.next[k]
    <3>1. new[k] = NextDue(row.next[k], k, row.time)
      BY <1>3, <2>1 DEF Advanced
    <3>2. row.next[k] \in Nat /\ row.next[k] <= row.time /\ Asked(n, k, row.next[k])
      BY <1>6, <2>1
    <3> QED BY <1>6, <2>1, <3>1, <3>2, NextDueIs
  <2>2. CASE ~(k \in row.made /\ schedule[n].next[k] = row.next[k])
    <3>1. new[k] = schedule[n].next[k]
      BY <1>3, <2>2 DEF Advanced
    <3> QED BY <1>7, <3>1
  <2> QED BY <2>1, <2>2
<1>9. new \in [Kind -> Nat]
  BY <1>3, <1>8
<1>10. \A i \in DOMAIN schedule : schedule[i] \in Rows
  <2> HIDE DEF Rows
  <2> QED BY <1>7
<1>11. PICK moved : moved = [schedule[n] EXCEPT !.next = new] /\ moved \in Rows /\ moved.next = new
  <2>1. PICK old \in Rows : old = schedule[n]
    BY <1>6, <1>10
  <2>2. [old EXCEPT !.next = new] \in Rows /\ [old EXCEPT !.next = new].next = new
    BY <1>9, <2>1
  <2> QED BY <2>1, <2>2
<1>12. schedule' = [schedule EXCEPT ![n] = moved]
  BY <1>4, <1>11
<1>13. /\ DOMAIN schedule' = DOMAIN schedule
       /\ \A i \in DOMAIN schedule : schedule'[i] = IF i = n THEN moved ELSE schedule[i]
  <2>1. DOMAIN schedule = 1..Len(schedule) /\ schedule = [i \in 1..Len(schedule) |-> schedule[i]]
    <3> HIDE DEF Rows
    <3> QED BY <1>7
  <2> QED BY <1>6, <1>12, <2>1
<1>14. schedule' \in Seq(Rows) /\ Len(schedule') = Len(schedule)
  <2> HIDE DEF Rows
  <2> QED BY <1>6, <1>7, <1>11, <1>12, ExceptSeq
<1>15. TypeOK'
  <2>1. Len(schedule') <= MaxSchedule
    BY <1>5, <1>14 DEF TypeOK
  <2> QED BY <1>4, <1>5, <1>14, <2>1 DEF TypeOK
<1>16. \A m \in DOMAIN schedule : \A k \in Kind :
         schedule'[m].next[k] # schedule[m].next[k] =>
            schedule'[m].next[k] > schedule[m].next[k] /\ Asked(m, k, schedule[m].next[k])
  BY <1>8, <1>11, <1>13
<1> QED BY <1>4, <1>13, <1>15, <1>16

LEMMA CronAdvanceInv == ASSUME IInv, NEW c \in Cron, CronAdvance(c) PROVE IInv'
<1>1. TypeOK /\ RowsFit
  BY DEF IInv, ContinuityInv
<1>2. UNCHANGED <<clock, granted, lease, log, call, due>> /\ cron' = [cron EXCEPT ![c] = Idle] /\ TypeOK'
  BY AdvanceIs
<1>3. Forward
  <2>1. Points' = Points
    BY <1>2, SameLog
  <2> QED BY <1>1, <1>2, <2>1, AdvanceIs DEF Forward
<1>4. PICK row : row = Idle /\ RowFits(row)
  BY DEF RowFits
<1>5. RowFits(row)'
  BY <1>3, <1>4, StillFits
<1>6. RowsFit'
  BY <1>1, <1>2, <1>3, <1>4, <1>5, RowsStep
<1> QED BY <1>2, <1>3, <1>6, ScheduleInv

-----------------------------------------------------------------------------
(* Commits *)

\* A row is added at the end of the log.
LEMMA LogGrows ==
    ASSUME TypeOK, NEW e \in Entries, Len(log) < MaxLog, log' = Append(log, e)
    PROVE  /\ log' \in Seq(Entries) /\ Len(log') <= MaxLog
           /\ DOMAIN log' = DOMAIN log \cup {Len(log) + 1}
           /\ Len(log) + 1 \notin DOMAIN log /\ Len(log) + 1 \in Nat
           /\ log'[Len(log) + 1] = e
           /\ \A i \in DOMAIN log : log'[i] = log[i] /\ i < Len(log) + 1
<1>1. log \in Seq(Entries) /\ Len(log) \in Nat /\ DOMAIN log = 1..Len(log) /\ MaxLog \in Nat
  BY LogIs, ContinuityAssumption DEF TypeOK, ContinuityAssumption
<1>2. /\ log' \in Seq(Entries) /\ Len(log') = Len(log) + 1
      /\ log'[Len(log) + 1] = e /\ \A i \in 1..Len(log) : log'[i] = log[i]
  BY <1>1, AppendProperties
<1>3. DOMAIN log' = 1..(Len(log) + 1)
  BY <1>1, <1>2, LenProperties
<1> QED BY <1>1, <1>2, <1>3

\* A request that no receipt answers keeps the receipts apart.
LEMMA ReceiptsApart ==
    ASSUME TypeOK, NoSecondAppend, NEW e \in Entries, Len(log) < MaxLog,
           log' = Append(log, e), ~Received(e.op, e.lead, e.key)
    PROVE  NoSecondAppend'
<1>1. /\ DOMAIN log' = DOMAIN log \cup {Len(log) + 1} /\ log'[Len(log) + 1] = e
      /\ \A i \in DOMAIN log : log'[i] = log[i]
  BY LogGrows
<1>2. \A i \in DOMAIN log : ~(log[i].op = e.op /\ log[i].lead = e.lead /\ log[i].key = e.key)
  BY DEF Received
<1>3. ASSUME NEW i \in DOMAIN log', NEW j \in DOMAIN log',
             log'[i].op = log'[j].op, log'[i].lead = log'[j].lead, log'[i].key = log'[j].key
      PROVE  i = j
  <2>1. CASE i \in DOMAIN log /\ j \in DOMAIN log
    BY <1>1, <1>3, <2>1 DEF NoSecondAppend
  <2>2. CASE i = Len(log) + 1 /\ j = Len(log) + 1
    BY <2>2
  <2>3. CASE i \in DOMAIN log /\ j = Len(log) + 1
    BY <1>1, <1>2, <1>3, <2>3
  <2>4. CASE i = Len(log) + 1 /\ j \in DOMAIN log
    BY <1>1, <1>2, <1>3, <2>4
  <2> QED BY <1>1, <2>1, <2>2, <2>3, <2>4
<1> QED BY <1>3 DEF NoSecondAppend

\* The requests in flight when the log grows: they restore what they restored.
LEMMA DrillsStay ==
    ASSUME IInv, NEW s \in Slot, Answer(s), NEW e \in Entries, Len(log) < MaxLog,
           log' = Append(log, e)
    PROVE  /\ Points \subseteq Points' /\ DrillsFit'
           /\ \A i \in Points' : i \in Points \/ i = Len(log) + 1
           /\ Len(log) + 1 \in Points' <=> e.op = "checkpoint"
           /\ call' \in [Slot -> Calls]
<1>1. TypeOK /\ call \in [Slot -> Calls]
  BY DEF IInv, ContinuityInv, TypeOK
<1>2. /\ DOMAIN log' = DOMAIN log \cup {Len(log) + 1} /\ log'[Len(log) + 1] = e
      /\ \A i \in DOMAIN log : log'[i] = log[i]
  BY <1>1, LogGrows
<1>3. /\ Points \subseteq Points' /\ \A i \in Points' : i \in Points \/ i = Len(log) + 1
      /\ Len(log) + 1 \in Points' <=> e.op = "checkpoint"
  BY <1>2 DEF Points
<1>4. \A q \in Slot : call'[q] = IF q = s THEN Idle ELSE call[q]
  BY <1>1 DEF Answer
<1>5. call' \in [Slot -> Calls]
  BY <1>1, IdleCall DEF Answer
<1>6. DrillsFit'
  <2> SUFFICES ASSUME NEW q \in Slot, call'[q].pc = "drill"
               PROVE  call'[q].ref \in Points' /\ log'[call'[q].ref].token < call'[q].token
    BY DEF DrillsFit
  <2>1. call'[q] = call[q]
    BY <1>4, IdleCall
  <2>2. call[q].ref \in Points /\ log[call[q].ref].token < call[q].token
    BY <2>1 DEF IInv, DrillsFit
  <2>3. call[q].ref \in DOMAIN log
    BY <2>2 DEF Points
  <2> QED BY <1>2, <1>3, <2>1, <2>2, <2>3
<1> QED BY <1>3, <1>5, <1>6

\* The tokens of the rows and the claims in flight, when the log grows under
\* the token of the lease.
LEMMA TokensStay ==
    ASSUME IInv, NEW s \in Slot, Answer(s), NEW e \in Entries, Len(log) < MaxLog,
           log' = Append(log, e), e.token <= lease.token,
           lease'.token = lease.token, lease'.holder = lease.holder
    PROVE  LeaseFits'
<1>1. TypeOK /\ call \in [Slot -> Calls]
  BY DEF IInv, ContinuityInv, TypeOK
<1>2. IsFiniteSet(Claims') /\ Cardinality(Claims') \in Nat /\ Cardinality(Claims') <= Cardinality(Claims)
  BY IdleCall, FewerClaims DEF Answer
<1>3. /\ lease.token \in Nat /\ MaxToken \in Nat /\ Cardinality(Claims) \in Nat
      /\ lease.token + Cardinality(Claims) <= MaxToken
  BY LeaseIs, FS_CardinalityType DEF IInv, LeaseFits
<1>4. lease'.token + Cardinality(Claims') <= MaxToken
  BY <1>2, <1>3
<1>5. \A i \in DOMAIN log' : log'[i].token <= lease'.token
  BY <1>1, LogGrows DEF IInv, LeaseFits
<1> QED BY <1>2, <1>4, <1>5 DEF IInv, LeaseFits

LEMMA CommitCheckpointInv == ASSUME IInv, NEW s \in Slot, CommitCheckpoint(s) PROVE IInv'
<1>1. TypeOK /\ OneChain /\ NoSecondAppend /\ call \in [Slot -> Calls]
  BY DEF IInv, ContinuityInv, TypeOK
<1>2. /\ call[s].pc = "checkpoint" /\ Answer(s)
      /\ UNCHANGED <<clock, granted, schedule, due, cron>>
  BY DEF CommitCheckpoint, planVars
<1>3. CASE ~(FenceHolds(s) /\ ParentValid(s) /\ FreshKey(s))
  <2>1. UNCHANGED <<log, lease>>
    BY <1>3 DEF CommitCheckpoint
  <2> QED BY <1>2, <2>1, IdleCall, PlainInv DEF Answer, planVars
<1>4. CASE FenceHolds(s) /\ ParentValid(s) /\ FreshKey(s)
  <2>1. PICK e : e = Entry(s)
    OBVIOUS
  <2>2. /\ Len(log) < MaxLog /\ log' = Append(log, e)
        /\ lease' = [lease EXCEPT !.status = "revoked"] \/ lease' = lease
    BY <1>4, <2>1 DEF CommitCheckpoint
  <2>3. /\ e \in Entries /\ e.op = "checkpoint" /\ e.lead = call[s].lead /\ e.key = call[s].key
        /\ e.token = call[s].token /\ e.ref = call[s].ref
    BY <1>1, <1>2, <2>1, Kinds DEF Entry, Entries, Operation
  <2>4. e.token = lease.token /\ e.ref = Latest /\ ~Received(e.op, e.lead, e.key)
    BY <1>2, <1>4, <2>3 DEF FenceHolds, LiveFence, Holds, ParentValid, FreshKey
  <2>5. /\ log' \in Seq(Entries) /\ Len(log') <= MaxLog
        /\ DOMAIN log' = DOMAIN log \cup {Len(log) + 1}
        /\ Len(log) + 1 \in Nat /\ log'[Len(log) + 1] = e
        /\ \A i \in DOMAIN log : log'[i] = log[i] /\ i < Len(log) + 1
    BY <1>1, <2>2, <2>3, LogGrows
  <2>6. /\ Points \subseteq Points' /\ DrillsFit'
        /\ \A i \in Points' : i \in Points \/ i = Len(log) + 1
        /\ call' \in [Slot -> Calls]
    BY <1>2, <2>2, <2>3, DrillsStay
  <2>7. /\ lease' \in [token : 0..MaxToken, holder : Lead \cup {NoLead},
                       status : {"active", "revoked"}, expires : Nat]
        /\ lease'.token = lease.token /\ lease'.holder = lease.holder
    BY <2>2, LeaseIs
  <2>8. TypeOK'
    BY <1>1, <1>2, <2>5, <2>6, <2>7 DEF TypeOK
  <2>9. NoSecondAppend'
    BY <1>1, <2>2, <2>3, <2>4, ReceiptsApart
  <2>10. OneChain'
    <3>1. /\ Latest \in {0} \cup Points /\ \A j \in Points : j <= Latest
          /\ Points \subseteq DOMAIN log /\ Points \subseteq Nat
      BY <1>1, LatestIs, LogIs DEF Points
    <3>2. Latest < Len(log) + 1
      <4>1. CASE Latest = 0
        BY <1>1, <4>1, LogIs
      <4>2. CASE Latest \in Points
        BY <2>5, <3>1, <4>2
      <4> QED BY <3>1, <4>1, <4>2
    <3>3. ASSUME NEW i \in Points'
          PROVE  /\ log'[i].ref \in {0} \cup Points' /\ log'[i].ref < i
                 /\ \A j \in Points' : j < i => j <= log'[i].ref
      <4>1. CASE i = Len(log) + 1
        <5>1. log'[i].ref = Latest
          BY <2>4, <2>5, <4>1
        <5>2. \A j \in Points' : j < i => j \in Points
          BY <2>5, <2>6, <4>1
        <5> QED BY <2>6, <3>1, <3>2, <4>1, <5>1, <5>2
      <4>2. CASE i \in Points
        <5>1. log'[i] = log[i] /\ i < Len(log) + 1 /\ i \in Nat
          BY <2>5, <3>1, <4>2
        <5>2. \A j \in Points' : j < i => j \in Points
          <6>1. PICK n \in Nat : n = Len(log) + 1 /\ i < n
            BY <2>5, <5>1
          <6>2. ~(n < i)
            BY <5>1, <6>1
          <6> QED BY <2>6, <6>1, <6>2
        <5>3. /\ log[i].ref \in {0} \cup Points /\ log[i].ref < i
              /\ \A j \in Points : j < i => j <= log[i].ref
          BY <1>1, <4>2 DEF OneChain
        <5> QED BY <2>6, <5>1, <5>2, <5>3
      <4> QED BY <2>6, <4>1, <4>2
    <3> QED BY <3>3 DEF OneChain
  <2>11. DrillsByReplacement'
    <3>1. {i \in DOMAIN log' : log'[i].op = "drill"} = {i \in DOMAIN log : log[i].op = "drill"}
      BY <2>3, <2>5
    <3>2. ASSUME NEW i \in DOMAIN log', log'[i].op = "drill"
          PROVE  log'[i].ref \in Points' /\ log'[log'[i].ref].token < log'[i].token
      <4>1. i \in DOMAIN log /\ log'[i] = log[i] /\ log[i].op = "drill"
        BY <2>3, <2>5, <3>2
      <4>2. log[i].ref \in Points /\ log[log[i].ref].token < log[i].token
        BY <4>1 DEF IInv, ContinuityInv, DrillsByReplacement
      <4>3. log[i].ref \in DOMAIN log
        BY <4>2 DEF Points
      <4> QED BY <2>5, <2>6, <4>1, <4>2, <4>3
    <3>3. {d \in due' : ~Pending(d)'} = {d \in due : ~Pending(d)}
      BY <1>2 DEF Pending
    <3>4. Cardinality({i \in DOMAIN log : log[i].op = "drill"}) = Cardinality({d \in due : ~Pending(d)})
      BY DEF IInv, ContinuityInv, DrillsByReplacement
    <3> QED BY <3>1, <3>2, <3>3, <3>4 DEF DrillsByReplacement
  <2>12. OnePending'
    BY <1>2 DEF IInv, ContinuityInv, OnePending, Pending
  <2>13. LeaseFits'
    <3>1. e.token <= lease.token
      BY <2>4, LeaseIs
    <3> QED BY <1>2, <2>2, <2>3, <2>7, <3>1, TokensStay
  <2>14. DueFits'
    BY <1>2, <2>6 DEF IInv, DueFits
  <2>15. RowsFit'
    <3>1. Forward
      BY <1>1, <1>2, <2>6, <2>8 DEF Forward
    <3> QED BY <1>2, <3>1, RowsStay DEF IInv
  <2> QED BY <2>6, <2>8, <2>9, <2>10, <2>11, <2>12, <2>13, <2>14, <2>15 DEF IInv, ContinuityInv
<1> QED BY <1>3, <1>4

\* A drill completes the one request that waits for its window.
LEMMA OpenIs ==
    ASSUME IInv, NEW s \in Slot, NEW d \in Open(s),
           NEW e, e = Complete(d)
    PROVE  /\ d \in due /\ Pending(d) /\ Open(s) = {d}
           /\ e \in Due /\ ~Pending(e)
           /\ e.sched = d.sched /\ e.kind = d.kind /\ e.window = d.window /\ e.source = d.source
           /\ e \notin due
<1>1. d \in due /\ Pending(d)
  BY DEF Open, DueRow
<1>2. Open(s) = {d}
  BY DEF Open, DueRow, IInv, DueFits
<1>3. /\ e \in Due /\ ~Pending(e)
      /\ e.sched = d.sched /\ e.kind = d.kind /\ e.window = d.window /\ e.source = d.source
  <2>1. d \in [sched : 1..MaxSchedule, kind : Kind, window : Nat, source : 0..MaxLog,
               status : {"pending", "completed"}] /\ (d.kind = "point" <=> d.source = 0)
    BY <1>1, DueIs DEF IInv, ContinuityInv
  <2> QED BY <2>1 DEF Complete, Due, Pending
<1>4. e \notin due
  BY <1>1, <1>3 DEF IInv, DueFits
<1> QED BY <1>1, <1>2, <1>3, <1>4

LEMMA CommitDrillInv == ASSUME IInv, NEW s \in Slot, CommitDrill(s) PROVE IInv'
<1>1. TypeOK /\ OneChain /\ NoSecondAppend /\ call \in [Slot -> Calls]
  BY DEF IInv, ContinuityInv, TypeOK
<1>2. /\ call[s].pc = "drill" /\ Answer(s)
      /\ UNCHANGED <<clock, granted, lease, schedule, cron>>
  BY DEF CommitDrill, leaseVars
<1>3. CASE ~(FenceHolds(s) /\ FreshKey(s) /\ Open(s) # {})
  <2>1. UNCHANGED <<log, due>>
    BY <1>3 DEF CommitDrill
  <2> QED BY <1>2, <2>1, IdleCall, PlainInv DEF Answer, planVars
<1>4. CASE FenceHolds(s) /\ FreshKey(s) /\ Open(s) # {}
  <2>1. PICK e : e = Entry(s)
    OBVIOUS
  <2>2. PICK d \in Open(s) : TRUE
    BY <1>4
  <2>3. PICK f : f = Complete(d)
    OBVIOUS
  <2>4. /\ d \in due /\ Pending(d) /\ Open(s) = {d}
        /\ f \in Due /\ ~Pending(f)
        /\ f.sched = d.sched /\ f.kind = d.kind /\ f.window = d.window /\ f.source = d.source
        /\ f \notin due
    BY <2>3, OpenIs
  <2>5. Len(log) < MaxLog /\ log' = Append(log, e) /\ due' = (due \ {d}) \cup {f}
    BY <1>4, <2>1, <2>3, <2>4 DEF CommitDrill
  <2>6. /\ e \in Entries /\ e.op = "drill" /\ e.lead = call[s].lead /\ e.key = call[s].key
        /\ e.token = call[s].token /\ e.ref = call[s].ref
    <3>1. /\ call[s].lead \in Lead /\ call[s].key \in Key /\ call[s].token \in Token
          /\ call[s].ref \in 1..MaxLog
      BY <1>1, <1>2, Kinds
    <3>2. call[s].ref \in 0..MaxLog
      BY <3>1
    <3> QED BY <1>2, <2>1, <3>1, <3>2 DEF Entry, Entries, Operation
  <2>7. e.token = lease.token /\ ~Received(e.op, e.lead, e.key)
    BY <1>2, <1>4, <2>6 DEF FenceHolds, LiveFence, Holds, FreshKey
  <2>8. /\ log' \in Seq(Entries) /\ Len(log') <= MaxLog
        /\ DOMAIN log' = DOMAIN log \cup {Len(log) + 1} /\ Len(log) + 1 \notin DOMAIN log
        /\ Len(log) + 1 \in Nat /\ log'[Len(log) + 1] = e
        /\ \A i \in DOMAIN log : log'[i] = log[i]
    BY <1>1, <2>5, <2>6, LogGrows
  <2>9. Points' = Points /\ Points \subseteq DOMAIN log
    BY <2>6, <2>8 DEF Points
  <2>10. DrillsFit' /\ call' \in [Slot -> Calls]
    BY <1>2, <2>5, <2>6, DrillsStay
  <2>11. TypeOK'
    BY <1>1, <1>2, <2>4, <2>5, <2>8, <2>10 DEF TypeOK
  <2>12. NoSecondAppend'
    BY <1>1, <2>5, <2>6, <2>7, ReceiptsApart
  <2>13. OneChain'
    BY <1>1, <2>8, <2>9 DEF OneChain
  <2>14. DrillsByReplacement'
    <3>1. ASSUME NEW i \in DOMAIN log', log'[i].op = "drill"
          PROVE  log'[i].ref \in Points' /\ log'[log'[i].ref].token < log'[i].token
      <4>1. PICK r \in Points : r = log'[i].ref /\ log[r].token < log'[i].token
        <5>1. CASE i \in DOMAIN log
          BY <2>8, <3>1, <5>1 DEF IInv, ContinuityInv, DrillsByReplacement
        <5>2. CASE i = Len(log) + 1
          BY <1>2, <2>6, <2>8, <5>2 DEF IInv, DrillsFit
        <5> QED BY <2>8, <5>1, <5>2
      <4>2. log'[r] = log[r]
        BY <2>8, <2>9
      <4> QED BY <2>9, <4>1, <4>2
    <3> DEFINE drills == {i \in DOMAIN log : log[i].op = "drill"}
               done == {x \in due : ~Pending(x)}
    <3>2. {i \in DOMAIN log' : log'[i].op = "drill"} = drills \cup {Len(log) + 1}
      BY <2>6, <2>8
    <3>3. {x \in due' : ~Pending(x)'} = done \cup {f}
      BY <2>4, <2>5 DEF Pending
    <3>4. IsFiniteSet(drills) /\ IsFiniteSet(done) /\ f \notin done /\ Len(log) + 1 \notin drills
          /\ Cardinality(drills) = Cardinality(done)
      <4>1. IsFiniteSet(DOMAIN log)
        BY <1>1, LogIs, FS_Interval
      <4>2. IsFiniteSet(due)
        BY DEF IInv, DueFits
      <4>3. Cardinality(drills) = Cardinality(done)
        BY DEF IInv, ContinuityInv, DrillsByReplacement
      <4> QED BY <2>4, <2>8, <4>1, <4>2, <4>3, FS_Subset
    <3> HIDE DEF drills, done
    <3>5. Cardinality(drills \cup {Len(log) + 1}) = Cardinality(drills) + 1
      BY <3>4, FS_AddElement
    <3>6. Cardinality(done \cup {f}) = Cardinality(done) + 1
      BY <3>4, FS_AddElement
    <3> QED BY <3>1, <3>2, <3>3, <3>4, <3>5, <3>6 DEF DrillsByReplacement
  <2>15. OnePending'
    BY <2>4, <2>5 DEF IInv, ContinuityInv, OnePending, Pending
  <2>16. LeaseFits'
    <3>1. e.token <= lease.token
      BY <2>7, LeaseIs
    <3> QED BY <1>2, <2>5, <2>6, <3>1, TokensStay
  <2>17. DueFits'
    <3>1. IsFiniteSet(due')
      BY <2>5, FS_RemoveElement, FS_AddElement DEF IInv, DueFits
    <3>2. \A x, y \in due' :
             (x.sched = y.sched /\ x.kind = y.kind /\ x.window = y.window) => x = y
      BY <2>4, <2>5 DEF IInv, DueFits
    <3>3. \A x \in due' : /\ x.sched \in DOMAIN schedule
                          /\ x.window <= schedule[x.sched].next[x.kind]
                          /\ x.kind = "drill" => x.source \in Points
      BY <2>4, <2>5 DEF IInv, DueFits
    <3> QED BY <1>2, <2>9, <3>1, <3>2, <3>3 DEF DueFits
  <2>18. RowsFit'
    <3>1. Forward
      <4>1. \A x \in due : \E y \in due' : y.sched = x.sched /\ y.kind = x.kind /\ y.window = x.window
        BY <2>4, <2>5
      <4>2. \A x \in due' : Pending(x) => x \in due
        BY <2>4, <2>5
      <4> QED BY <1>1, <1>2, <2>9, <2>11, <4>1, <4>2 DEF Forward
    <3> QED BY <1>2, <3>1, RowsStay DEF IInv
  <2> QED BY <2>10, <2>11, <2>12, <2>13, <2>14, <2>15, <2>16, <2>17, <2>18 DEF IInv, ContinuityInv
<1> QED BY <1>3, <1>4

-----------------------------------------------------------------------------
(* The theorems *)

LEMMA NextInv == IInv /\ [Next]_vars => IInv'
<1> SUFFICES ASSUME IInv, [Next]_vars PROVE IInv'
  OBVIOUS
<1>1. ASSUME NEW s \in Slot, Begin(s) PROVE IInv'
  BY <1>1, BeginClaimInv, BeginRenewInv, BeginCheckpointInv, BeginDrillInv DEF Begin
<1>2. ASSUME NEW s \in Slot, Commit(s) PROVE IInv'
  BY <1>2, CommitClaimInv, CommitRenewInv, CommitCheckpointInv, CommitDrillInv DEF Commit
<1>3. ASSUME NEW c \in Cron, CronStep(c) PROVE IInv'
  BY <1>3, CronReadInv, CronCheckInv, CronInsertInv, CronAdvanceInv DEF CronStep
<1>4. CASE UNCHANGED vars
  <2>1. UNCHANGED <<log, call, schedule, due, cron, clock, granted, lease>>
    BY <1>4 DEF vars
  <2>2. clock \in 0..MaxTime /\ granted \subseteq Lead
    BY DEF IInv, ContinuityInv, TypeOK
  <2> QED BY <2>1, <2>2, LeaseIs, RowsSame, QuietInv
<1> QED BY <1>1, <1>2, <1>3, <1>4, FailInv, RevokeLeaseInv, RevokeGrantInv, ActivateInv, TickInv,
           CronCrashInv
        DEF Next, Step

\* The inductive invariant holds in every behaviour of the leads, their
\* requests and the scheduled handler (claimProjectLead, checkpointProject,
\* completeContinuityDrill, runScheduledPolicyOperations).
THEOREM Invariance == Spec => []IInv
<1>1. Init => IInv
  BY InitInv
<1>2. IInv /\ [Next]_vars => IInv'
  BY NextInv
<1> QED BY <1>1, <1>2, PTL DEF Spec

\* The continuity points form one chain through every change of lead, a drill
\* is completed once and by a lead that replaced another, and no schedule has
\* two requests of a kind waiting (live_parent_valid, createScheduledRequest).
THEOREM ContinuityStands == Spec => []ContinuityInv
<1>1. IInv => ContinuityInv
  BY DEF IInv
<1> QED BY <1>1, Invariance, PTL

\* A request takes effect at most once, however often it is delivered
\* (the primary key of the receipts).
THEOREM AppendedOnce == Spec => []NoSecondAppend
<1>1. IInv => NoSecondAppend
  BY DEF IInv
<1> QED BY <1>1, Invariance, PTL

\* The batches that append to the log, and those that move a schedule.
LEMMA WhoWrites ==
    ASSUME [Next]_vars
    PROVE  /\ UNCHANGED log \/ \E s \in Slot : CommitCheckpoint(s) \/ CommitDrill(s)
           /\ UNCHANGED schedule \/ Activate \/ \E c \in Cron : CronAdvance(c)
<1>1. ASSUME NEW s \in Slot, Begin(s) PROVE UNCHANGED <<log, schedule>>
  BY <1>1 DEF Begin, BeginClaim, BeginRenew, BeginCheckpoint, BeginDrill, planVars
<1>2. ASSUME NEW s \in Slot, CommitClaim(s) \/ CommitRenew(s) \/ Fail(s)
      PROVE  UNCHANGED <<log, schedule>>
  BY <1>2 DEF CommitClaim, CommitRenew, Fail, planVars
<1>3. ASSUME NEW s \in Slot, CommitCheckpoint(s) \/ CommitDrill(s) PROVE UNCHANGED schedule
  BY <1>3 DEF CommitCheckpoint, CommitDrill, planVars
<1>4. ASSUME NEW c \in Cron, CronStep(c) \/ CronCrash(c)
      PROVE  UNCHANGED log /\ (UNCHANGED schedule \/ CronAdvance(c))
  <2>1. CASE \E n \in DOMAIN schedule : CronRead(c, n)
    BY <2>1 DEF CronRead
  <2>2. CASE CronCheck(c)
    BY <2>2 DEF CronCheck
  <2>3. CASE CronInsert(c)
    BY <2>3 DEF CronInsert
  <2>4. CASE CronAdvance(c)
    BY <2>4 DEF CronAdvance
  <2>5. CASE CronCrash(c)
    BY <2>5 DEF CronCrash
  <2> QED BY <1>4, <2>1, <2>2, <2>3, <2>4, <2>5 DEF CronStep
<1>5. ASSUME RevokeLease \/ (\E l \in Lead : RevokeGrant(l)) \/ Tick
      PROVE  UNCHANGED <<log, schedule>>
  BY <1>5 DEF RevokeLease, RevokeGrant, Tick, planVars
<1>6. Activate => UNCHANGED log
  BY DEF Activate
<1>7. CASE UNCHANGED vars
  BY <1>7 DEF vars
<1> QED BY <1>1, <1>2, <1>3, <1>4, <1>5, <1>6, <1>7 DEF Next, Step, Commit

\* What a step appends is under the token the lease has, for its holder.
LEMMA AppendedByHolder ==
    ASSUME IInv, [Next]_vars, NEW i \in DOMAIN log' \ DOMAIN log
    PROVE  log'[i].token = lease.token /\ log'[i].lead = lease.holder /\ lease.status = "active"
<1>1. TypeOK /\ call \in [Slot -> Calls]
  BY DEF IInv, ContinuityInv, TypeOK
<1>2. PICK s \in Slot : /\ call[s].pc \in {"checkpoint", "drill"} /\ FenceHolds(s)
                        /\ Len(log) < MaxLog /\ log' = Append(log, Entry(s))
  <2>1. log' # log
    OBVIOUS
  <2>2. PICK s \in Slot : CommitCheckpoint(s) \/ CommitDrill(s)
    BY <2>1, WhoWrites
  <2>3. CASE CommitCheckpoint(s)
    BY <2>1, <2>3 DEF CommitCheckpoint
  <2>4. CASE CommitDrill(s)
    BY <2>1, <2>4 DEF CommitDrill
  <2> QED BY <2>2, <2>3, <2>4
<1>3. /\ Entry(s) \in Entries /\ Entry(s).token = call[s].token /\ Entry(s).lead = call[s].lead
  <2>1. /\ call[s].lead \in Lead /\ call[s].key \in Key /\ call[s].token \in Token
        /\ call[s].ref \in 0..MaxLog
    BY <1>1, <1>2, Kinds
  <2> QED BY <1>2, <2>1 DEF Entry, Entries, Operation
<1>4. i = Len(log) + 1 /\ log'[i] = Entry(s)
  BY <1>1, <1>2, <1>3, LogGrows
<1> QED BY <1>2, <1>3, <1>4 DEF FenceHolds, LiveFence, Holds, ActiveAt

\* Nothing a former lead began is written after a successor has claimed
\* (LIVE_FENCE_SQL).
THEOREM HolderCommits == Spec => OnlyTheHolderCommits
<1>1. IInv /\ [Next]_vars =>
         [\A i \in DOMAIN log' \ DOMAIN log :
             log'[i].token = lease.token /\ log'[i].lead = lease.holder
             /\ lease.status = "active"]_vars
  BY AppendedByHolder
<1> QED BY <1>1, Invariance, PTL DEF Spec, OnlyTheHolderCommits

\* A window is left behind only after its request was recorded, for any number
\* of overlapping and crashing invocations (advanceSchedule).
THEOREM AskedBeforeLeft == Spec => WindowsAreAsked
<1> DEFINE Left == \A n \in DOMAIN schedule : \A k \in Kind :
                      schedule'[n].next[k] # schedule[n].next[k] =>
                         /\ schedule'[n].next[k] > schedule[n].next[k]
                         /\ DueRow(n, k, schedule[n].next[k]) # {}
<1>1. ASSUME IInv, NEW c \in Cron, CronAdvance(c) PROVE Left
  BY <1>1, AdvanceIs, AskedIs
<1>2. ASSUME IInv, Activate PROVE Left
  <2>1. \A n \in DOMAIN schedule : schedule'[n].next = schedule[n].next
    BY <1>2, ActivateKeeps
  <2> QED BY <2>1
<1>3. UNCHANGED schedule => Left
  OBVIOUS
<1>4. [Next]_vars => UNCHANGED schedule \/ Activate \/ \E c \in Cron : CronAdvance(c)
  BY WhoWrites
<1>5. IInv /\ [Next]_vars => [Left]_vars
  BY <1>1, <1>2, <1>3, <1>4
<1> QED BY <1>5, Invariance, PTL DEF Spec, WindowsAreAsked

=============================================================================
