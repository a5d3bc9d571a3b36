------------------------- MODULE CollaborationProofs -------------------------
(***************************************************************************)
(* Theorems about Collaboration, for any number of clients, requests,      *)
(* submissions, connections, versions, packets and bodies.                 *)
(*                                                                         *)
(* The invariants of the module speak of what is stored.  None is          *)
(* inductive: what a request read before its awaits decides what it        *)
(* writes after them.  IInv adds what the stored rows know of each other   *)
(* and what a request in flight knows of them (CallFits), and, for the     *)
(* bodies, that a request, the queue and the collectors never share one    *)
(* (StoreInv).  Each step only moves the rows onward (Onward), so          *)
(* what the other requests know stays true.                                *)
(***************************************************************************)
EXTENDS Collaboration, FiniteSetTheorems, SequenceTheorems, TLAPS

-----------------------------------------------------------------------------
(* The inductive invariant *)

AgentRow == [client : Client, epoch : 1..MaxEpoch, status : {"pending", "active", "revoked"}]
GrantRow == [client : Client, agent : Nat, lapsed : BOOLEAN,
             status : {"pending", "active", "revoked"}]
ApprovalRow == [agent : Nat, grant : Nat, legacy : BOOLEAN, status : {"approved", "expired"}]
VersionRow == [kind : Kind, prev : Nat, body : Nat]
PacketRow == [prior : Nat, project : Nat, work : Nat, carried : SUBSET Nat, body : Nat,
              expired : BOOLEAN]
Visibility == {"private", "shared", "owner-only"}
Disposition == {"pending", "accepted", "rejected", "quarantined"}
RecordRow == [id : Submission \cup Client \cup {"decision"},
              type : {"attempt", "handoff", "decision"},
              client : Client \cup {Owner}, grant : Nat, packet : Nat, attempt : Nat,
              visibility : Visibility, disposition : Disposition]
SentRow == [client : Client, type : {"attempt", "handoff"}, packet : Nat, attempt : Nat]

\* An approval names a vault grant and, unless an older release made it, a
\* connection; while that is live, the approval is of the present pairing of an
\* active vault.
ApprovalsInv ==
    /\ approvals \in Seq(ApprovalRow)
    /\ \A a \in Approval :
          /\ approvals[a].agent \in Agent
          /\ approvals[a].grant \in Grant \/ (approvals[a].legacy /\ approvals[a].grant = Unclaimed)
          /\ ~approvals[a].legacy /\ Live(approvals[a].grant) =>
                vault.status = "active" /\ agents[approvals[a].agent].epoch = vault.epoch

\* A vault grant that has not ended is of the present pairing of an active
\* vault; a client has one active vault grant and one live connection; a
\* project that cannot be discovered has no live connection.
AccessInv ==
    /\ vault \in [status : {"active", "revoked"}, epoch : 1..MaxEpoch]
    /\ agents \in Seq(AgentRow) /\ grants \in Seq(GrantRow)
    /\ project \in [status : {"active", "archived"}, visible : BOOLEAN, open : BOOLEAN]
    /\ \A g \in Grant : grants[g].agent \in Agent
    /\ \A n \in Agent : agents[n].status # "revoked" =>
          vault.status = "active" /\ agents[n].epoch = vault.epoch
    /\ \A m, n \in Agent :
          (/\ agents[m].status = "active" /\ agents[n].status = "active"
           /\ agents[m].client = agents[n].client) => m = n
    /\ \A g, h \in Grant : Live(g) /\ Live(h) /\ grants[g].client = grants[h].client => g = h
    /\ Discoverable \/ \A g \in Grant : ~Live(g)
    /\ ApprovalsInv

\* The versions of a kind form one chain that ends in the active one.
VersionsInv ==
    /\ versions \in Seq(VersionRow) /\ active \in [Kind -> Version]
    /\ \A k \in Kind : versions[active[k]].kind = k
    /\ \A k \in Kind, w \in Version : versions[w].prev # active[k]
    /\ \A v, w \in Version :
          versions[v].prev = versions[w].prev /\ versions[v].prev # 0 => v = w
    /\ \A w \in Version : versions[w].prev # 0 =>
          versions[w].prev < w /\ versions[versions[w].prev].kind = versions[w].kind
    /\ \A v \in Version :
          (\A w \in Version : versions[w].prev # v) => active[versions[v].kind] = v

\* The owner shared the record.
Shared(r) == [record |-> r, action |-> "share"] \in events

\* Of the records a packet carries, the owner shared those of a client.
Carriable(carried) ==
    /\ carried \in SUBSET Row
    /\ \A r \in carried : records[r].client # Owner => Shared(r)

PacketsInv ==
    /\ packets \in Seq(PacketRow) /\ Len(packets) >= 1
    /\ \A p \in Packet :
          /\ packets[p].prior = p - 1
          /\ packets[p].project \in Version /\ packets[p].work \in Version
          /\ Carriable(packets[p].carried)

\* The attempt of a handoff.
Follows(x) ==
    x.type = "handoff" =>
       /\ x.attempt \in Row /\ records[x.attempt].type = "attempt"
       /\ records[x.attempt].client = x.client /\ records[x.attempt].packet = x.packet

RecordsInv ==
    /\ records \in Seq(RecordRow)
    /\ events \in SUBSET [record : Row, action : Action]
    /\ answers \in SUBSET [id : Submission, record : Row]
    /\ \A a \in answers : records[a.record].id = a.id
    /\ \A q, r \in Row :
          records[q].id \in Submission /\ records[q].id = records[r].id => q = r
    /\ \A r \in Row : /\ records[r].type = "decision" => records[r].client = Owner
                      /\ records[r].visibility = "shared" => Shared(r)
                      /\ Follows(records[r])
    /\ sent \in [Submission -> SentRow \cup {NoSubmission}]
    /\ \A id \in Submission : Follows(sent[id])

\* What a request knows of the rows.
CallFits(s) ==
    /\ call[s].pc \in {"agent", "repair"} => call[s].agent \in Agent
    /\ call[s].pc \in {"ask", "grant", "complete", "repair"} => call[s].approval \in Approval
    /\ call[s].pc \in {"grant", "complete"} => call[s].grant \in Grant
    /\ call[s].pc = "brief" => call[s].kinds \in SUBSET Kind
    /\ call[s].pc \in {"versions", "rotate"} => call[s].read \in [Kind -> Version]
    /\ call[s].pc = "rotate" => call[s].prior \in Packet /\ Carriable(call[s].carried)
    /\ call[s].pc = "submit" => /\ call[s] \in [pc : {"submit"}, grant : Nat, id : Submission]
                                /\ sent[call[s].id] # NoSubmission
    /\ call[s].pc = "again" => call[s].id \in Submission
    /\ call[s].pc = "act" =>
          /\ call[s].record \in Row /\ call[s].action \in Action
          /\ call[s].visibility \in Visibility /\ call[s].disposition \in Disposition
          /\ call[s].visibility = "shared" => Shared(call[s].record)

CallsInv == DOMAIN call = Slot /\ \A s \in Slot : CallFits(s)

\* A request that has put a body and not committed.
Holding(s) == call[s].pc \in {"brief", "rotate"}

BodiesUpTo(n) == {Body(i) : i \in 1..n}

\* A body is held by one request at most; one that is held is neither queued
\* nor about to be erased, and what is about to be erased is not named.
StoreInv ==
    /\ bodies \in Nat /\ queue \in SUBSET BodiesUpTo(bodies)
    /\ \A s \in Slot : Holding(s) =>
          call[s].body \in 1..bodies /\ Body(call[s].body) \in objects \ queue
    /\ \A s, t \in Slot : Holding(s) /\ Holding(t) /\ call[s].body = call[t].body => s = t
    /\ \A s \in Slot : call[s].pc = "collect" =>
          /\ call[s].garbage \in SUBSET BodiesUpTo(bodies)
          /\ \A o \in call[s].garbage :
                o \notin Named /\ \A t \in Slot : Holding(t) => o # Body(call[t].body)
    /\ \A s \in Slot : call[s].pc = "submit" => ContentOf(call[s].id) \in objects
    /\ BodiesKept

IInv == AccessInv /\ VersionsInv /\ PacketsInv /\ RecordsInv /\ CallsInv /\ StoreInv

-----------------------------------------------------------------------------
(* What the rows are *)

LEMMA AccessIs ==
    ASSUME AccessInv
    PROVE  /\ Len(agents) \in Nat /\ Agent = 1..Len(agents)
           /\ Len(grants) \in Nat /\ Grant = 1..Len(grants)
           /\ \A n \in Agent : agents[n] \in AgentRow
           /\ \A g \in Grant : grants[g] \in GrantRow
<1>1. agents \in Seq(AgentRow) /\ grants \in Seq(GrantRow)
  BY DEF AccessInv
<1> QED BY <1>1, LenProperties DEF Agent, Grant

LEMMA ApprovalsAre ==
    ASSUME AccessInv
    PROVE  /\ Len(approvals) \in Nat /\ Approval = 1..Len(approvals)
           /\ \A a \in Approval : approvals[a] \in ApprovalRow
<1>1. approvals \in Seq(ApprovalRow)
  BY DEF AccessInv, ApprovalsInv
<1> QED BY <1>1, LenProperties DEF Approval

LEMMA PlanIs ==
    ASSUME VersionsInv, PacketsInv
    PROVE  /\ Len(versions) \in Nat /\ Version = 1..Len(versions)
           /\ Len(packets) \in Nat /\ Packet = 1..Len(packets)
           /\ \A v \in Version : versions[v] \in VersionRow
           /\ \A p \in Packet : packets[p] \in PacketRow
<1>1. versions \in Seq(VersionRow) /\ packets \in Seq(PacketRow)
  BY DEF VersionsInv, PacketsInv
<1> QED BY <1>1, LenProperties DEF Version, Packet

LEMMA RecordsAre ==
    ASSUME RecordsInv
    PROVE  /\ Len(records) \in Nat /\ Row = 1..Len(records)
           /\ \A r \in Row : records[r] \in RecordRow
<1>1. records \in Seq(RecordRow)
  BY DEF RecordsInv
<1> QED BY <1>1, LenProperties DEF Row

\* The bodies a row names and the ones a submission names are different objects.
LEMMA TwoNames == \A n, id : Body(n) # ContentOf(id)
  BY DEF Body, ContentOf

LEMMA OneName == \A m, n : Body(m) = Body(n) => m = n
  BY DEF Body

\* The revocation of rows changes only their status, and only to revoked.
LEMMA RevokedIs ==
    ASSUME NEW R, NEW rows \in Seq(R), NEW which,
           \A x \in R : [x EXCEPT !.status = "revoked"] \in R
    PROVE  /\ Revoked(rows, which) \in Seq(R)
           /\ Len(Revoked(rows, which)) = Len(rows)
           /\ DOMAIN Revoked(rows, which) = DOMAIN rows
           /\ \A i \in DOMAIN rows : Revoked(rows, which)[i] =
                IF i \in which /\ rows[i].status \in {"active", "pending"}
                THEN [rows[i] EXCEPT !.status = "revoked"] ELSE rows[i]
<1> DEFINE new == Revoked(rows, which)
<1>1. Len(rows) \in Nat /\ DOMAIN rows = 1..Len(rows) /\ \A i \in 1..Len(rows) : rows[i] \in R
  BY LenProperties
<1>2. \A i \in DOMAIN rows : new[i] =
         IF i \in which /\ rows[i].status \in {"active", "pending"}
         THEN [rows[i] EXCEPT !.status = "revoked"] ELSE rows[i]
  BY DEF Revoked
<1>3. new = [i \in 1..Len(rows) |-> new[i]]
  BY <1>1 DEF Revoked
<1>4. \A i \in 1..Len(rows) : new[i] \in R
  BY <1>1, <1>2
<1> HIDE DEF new
<1>5. new \in [1..Len(rows) -> R]
  BY <1>3, <1>4
<1>6. new \in Seq(R) /\ DOMAIN new = 1..Len(rows)
  BY <1>1, <1>5, SeqDef
<1>7. Len(new) = Len(rows)
  BY <1>1, <1>6, LenProperties
<1> QED BY <1>1, <1>2, <1>6, <1>7 DEF new

LEMMA RevokedAgents ==
    ASSUME NEW rows \in Seq(AgentRow), NEW which
    PROVE  /\ Revoked(rows, which) \in Seq(AgentRow)
           /\ Len(Revoked(rows, which)) = Len(rows)
           /\ DOMAIN Revoked(rows, which) = DOMAIN rows
           /\ \A i \in DOMAIN rows :
                LET r == Revoked(rows, which)[i]
                IN  /\ r.client = rows[i].client /\ r.epoch = rows[i].epoch
                    /\ r.status \in {rows[i].status, "revoked"}
                    /\ i \notin which => r.status = rows[i].status
                    /\ i \in which => r.status = "revoked"
<1>1. \A x \in AgentRow : [x EXCEPT !.status = "revoked"] \in AgentRow
  BY DEF AgentRow
<1>2. \A i \in DOMAIN rows : rows[i] \in AgentRow
  BY LenProperties
<1>3. /\ Revoked(rows, which) \in Seq(AgentRow)
      /\ Len(Revoked(rows, which)) = Len(rows)
      /\ DOMAIN Revoked(rows, which) = DOMAIN rows
      /\ \A i \in DOMAIN rows : Revoked(rows, which)[i] =
            IF i \in which /\ rows[i].status \in {"active", "pending"}
            THEN [rows[i] EXCEPT !.status = "revoked"] ELSE rows[i]
  BY <1>1, RevokedIs
<1> QED BY <1>2, <1>3 DEF AgentRow

LEMMA RevokedGrants ==
    ASSUME NEW rows \in Seq(GrantRow), NEW which
    PROVE  /\ Revoked(rows, which) \in Seq(GrantRow)
           /\ Len(Revoked(rows, which)) = Len(rows)
           /\ DOMAIN Revoked(rows, which) = DOMAIN rows
           /\ \A i \in DOMAIN rows :
                LET r == Revoked(rows, which)[i]
                IN  /\ r.client = rows[i].client /\ r.agent = rows[i].agent
                    /\ r.status \in {rows[i].status, "revoked"}
                    /\ i \in which => r.status = "revoked"
<1>1. \A x \in GrantRow : [x EXCEPT !.status = "revoked"] \in GrantRow
  BY DEF GrantRow
<1>2. \A i \in DOMAIN rows : rows[i] \in GrantRow
  BY LenProperties
<1>3. /\ Revoked(rows, which) \in Seq(GrantRow)
      /\ Len(Revoked(rows, which)) = Len(rows)
      /\ DOMAIN Revoked(rows, which) = DOMAIN rows
      /\ \A i \in DOMAIN rows : Revoked(rows, which)[i] =
            IF i \in which /\ rows[i].status \in {"active", "pending"}
            THEN [rows[i] EXCEPT !.status = "revoked"] ELSE rows[i]
  BY <1>1, RevokedIs
<1> QED BY <1>2, <1>3 DEF GrantRow

-----------------------------------------------------------------------------
(* The initial state *)

\* As many clients as numbers, so no client has two.
LEMMA OrderIs ==
    ASSUME NEW order \in [1..Cardinality(Client) -> Client],
           {order[i] : i \in DOMAIN order} = Client
    PROVE  /\ Cardinality(Client) \in Nat
           /\ \A i, j \in 1..Cardinality(Client) : order[i] = order[j] => i = j
<1> DEFINE N == Cardinality(Client)
<1>1. N \in Nat
  BY CollaborationAssumption, FS_CardinalityType DEF CollaborationAssumption
<1>2. DOMAIN order = 1..N
  OBVIOUS
<1>3. order \in Surjection(1..N, Client)
  BY <1>2 DEF Surjection
<1>4. IsFiniteSet(1..N) /\ Cardinality(1..N) = N
  BY <1>1, FS_Interval
<1>5. order \in Injection(1..N, Client)
  BY <1>3, <1>4, FS_Surjection
<1> QED BY <1>1, <1>2, <1>5 DEF Injection, IsInjective

LEMMA InitAccess == Init => AccessInv
<1> SUFFICES ASSUME Init PROVE AccessInv
  OBVIOUS
<1>1. PICK order \in [1..Cardinality(Client) -> Client] :
        /\ {order[i] : i \in DOMAIN order} = Client
        /\ agents = [i \in DOMAIN order |->
                       [client |-> order[i], epoch |-> 1, status |-> "active"]]
        /\ grants = [i \in DOMAIN order |->
                       [client |-> order[i], agent |-> i, status |-> "active",
                        lapsed |-> FALSE]]
        /\ approvals = [i \in 1..(2 * Len(order)) |->
                          IF i <= Len(order)
                          THEN [agent |-> i, grant |-> i, status |-> "approved",
                                legacy |-> FALSE]
                          ELSE [agent |-> i - Len(order), grant |-> Unclaimed,
                                status |-> "approved", legacy |-> TRUE]]
  BY DEF Init
<1> DEFINE N == Cardinality(Client)
<1>2. N \in Nat /\ \A i, j \in 1..N : order[i] = order[j] => i = j
  BY <1>1, OrderIs
<1>3. DOMAIN order = 1..N
  OBVIOUS
<1>4. 1 \in 1..MaxEpoch
  BY CollaborationAssumption DEF CollaborationAssumption
<1>5. agents = [i \in 1..N |-> [client |-> order[i], epoch |-> 1, status |-> "active"]]
      /\ grants = [i \in 1..N |-> [client |-> order[i], agent |-> i, status |-> "active",
                                    lapsed |-> FALSE]]
  BY <1>1, <1>3
<1> HIDE DEF N
<1>6. agents \in [1..N -> AgentRow] /\ grants \in [1..N -> GrantRow]
  BY <1>2, <1>4, <1>5 DEF AgentRow, GrantRow, N
<1>7. agents \in Seq(AgentRow) /\ grants \in Seq(GrantRow)
  BY <1>2, <1>6, SeqDef
<1>8. Agent = 1..N /\ Grant = 1..N
  BY <1>5 DEF Agent, Grant
<1>9. vault = [status |-> "active", epoch |-> 1]
      /\ project = [status |-> "active", visible |-> TRUE, open |-> TRUE]
  BY DEF Init
<1>10. Discoverable
  BY <1>9 DEF Discoverable
<1>11. Len(order) = N
  BY <1>2, <1>3, LenProperties, SeqDef DEF N
<1>12. approvals = [i \in 1..(2 * N) |->
                      IF i <= N
                      THEN [agent |-> i, grant |-> i, status |-> "approved", legacy |-> FALSE]
                      ELSE [agent |-> i - N, grant |-> Unclaimed,
                            status |-> "approved", legacy |-> TRUE]]
  BY <1>1, <1>11
<1>13. \A i \in 1..(2 * N) : i <= N \/ (i - N \in 1..N /\ i - N \in Nat)
  BY <1>2
<1>14. \A i \in 1..(2 * N) :
          IF i <= N
          THEN i \in 1..N /\ approvals[i] = [agent |-> i, grant |-> i, status |-> "approved",
                                             legacy |-> FALSE]
          ELSE i - N \in 1..N /\ approvals[i] = [agent |-> i - N, grant |-> Unclaimed,
                                                 status |-> "approved", legacy |-> TRUE]
  BY <1>2, <1>12, <1>13
<1>15. ASSUME NEW i \in 1..(2 * N) PROVE approvals[i] \in ApprovalRow
  <2>1. CASE i <= N
    <3>1. approvals[i] = [agent |-> i, grant |-> i, status |-> "approved", legacy |-> FALSE]
      BY <1>14, <2>1
    <3> QED BY <3>1 DEF ApprovalRow
  <2>2. CASE ~(i <= N)
    <3>1. /\ i - N \in Nat
          /\ approvals[i] = [agent |-> i - N, grant |-> Unclaimed, status |-> "approved",
                             legacy |-> TRUE]
      BY <1>13, <1>14, <2>2
    <3> QED BY <3>1 DEF ApprovalRow, Unclaimed
  <2> QED BY <2>1, <2>2
<1>16. approvals \in [1..(2 * N) -> ApprovalRow] /\ 2 * N \in Nat
  BY <1>2, <1>12, <1>15
<1>17. approvals \in Seq(ApprovalRow) /\ Approval = 1..(2 * N)
  BY <1>16, SeqDef DEF Approval
<1>18. \A i \in 1..N : agents[i].epoch = 1
  BY <1>5
<1>19. ASSUME NEW i \in Approval
       PROVE  /\ approvals[i].agent \in Agent
              /\ approvals[i].grant \in Grant
                 \/ (approvals[i].legacy /\ approvals[i].grant = Unclaimed)
              /\ ~approvals[i].legacy => agents[approvals[i].agent].epoch = 1
  <2>1. CASE i <= N
    <3>1. i \in 1..N /\ approvals[i] = [agent |-> i, grant |-> i, status |-> "approved",
                                        legacy |-> FALSE]
      BY <1>14, <1>17, <2>1
    <3> QED BY <1>8, <1>18, <3>1
  <2>2. CASE ~(i <= N)
    <3>1. i - N \in 1..N /\ approvals[i] = [agent |-> i - N, grant |-> Unclaimed,
                                            status |-> "approved", legacy |-> TRUE]
      BY <1>14, <1>17, <2>2
    <3> QED BY <1>8, <3>1
  <2> QED BY <2>1, <2>2
<1>20. ApprovalsInv
  BY <1>9, <1>17, <1>19 DEF ApprovalsInv
<1> QED BY <1>2, <1>4, <1>5, <1>7, <1>8, <1>9, <1>10, <1>20 DEF AccessInv

LEMMA InitRecords == Init => RecordsInv
<1> SUFFICES ASSUME Init PROVE RecordsInv
  OBVIOUS
<1>1. PICK order \in [1..Cardinality(Client) -> Client] :
        /\ {order[i] : i \in DOMAIN order} = Client
        /\ records = [i \in DOMAIN order |->
                        [id |-> order[i], type |-> "attempt", client |-> order[i], grant |-> i,
                         packet |-> 1, attempt |-> 0,
                         visibility |-> "private", disposition |-> "pending"]]
  BY DEF Init
<1> DEFINE N == Cardinality(Client)
<1>2. N \in Nat
  BY <1>1, OrderIs
<1>3. DOMAIN order = 1..N
  OBVIOUS
<1>5. records = [i \in 1..N |->
                   [id |-> order[i], type |-> "attempt", client |-> order[i], grant |-> i,
                    packet |-> 1, attempt |-> 0,
                    visibility |-> "private", disposition |-> "pending"]]
  BY <1>1, <1>3
<1>6. \A i \in 1..N : records[i] \in RecordRow
  BY <1>2, <1>5 DEF RecordRow, Visibility, Disposition
<1> HIDE DEF N
<1>7. records \in [1..N -> RecordRow]
  BY <1>5, <1>6
<1>8. records \in Seq(RecordRow) /\ Row = 1..N
  BY <1>2, <1>7, SeqDef DEF Row
<1>9. events = {} /\ answers = {} /\ sent = [id \in Submission |-> NoSubmission]
  BY DEF Init
<1>10. \A r \in Row : /\ records[r].id \in Client
                      /\ records[r].type = "attempt" /\ records[r].visibility = "private"
  BY <1>5, <1>8 DEF N
<1>11. \A r \in Row : records[r].id \notin Submission
  BY <1>10, CollaborationAssumption DEF CollaborationAssumption
<1>12. \A id \in Submission : sent[id] = NoSubmission /\ sent[id].type = "none"
  BY <1>9 DEF NoSubmission
<1>13. sent \in [Submission -> SentRow \cup {NoSubmission}]
  BY <1>9
<1> QED BY <1>8, <1>9, <1>10, <1>11, <1>12, <1>13 DEF RecordsInv, Follows

LEMMA InitPlan == Init => VersionsInv /\ PacketsInv
<1> SUFFICES ASSUME Init PROVE VersionsInv /\ PacketsInv
  OBVIOUS
<1>1. /\ versions = <<[kind |-> "project", prev |-> 0, body |-> 1],
                      [kind |-> "work", prev |-> 0, body |-> 1]>>
      /\ active = [k \in Kind |-> IF k = "project" THEN 1 ELSE 2]
      /\ packets = <<[prior |-> 0, project |-> 1, work |-> 2, carried |-> {}, body |-> 1,
                      expired |-> FALSE]>>
  BY DEF Init
<1>2. versions \in Seq(VersionRow) /\ Len(versions) = 2 /\ Version = 1..2
  BY <1>1 DEF VersionRow, Kind, Version
<1>3. versions[1] = [kind |-> "project", prev |-> 0, body |-> 1]
      /\ versions[2] = [kind |-> "work", prev |-> 0, body |-> 1]
  BY <1>1
<1>4. active \in [Kind -> Version] /\ active["project"] = 1 /\ active["work"] = 2
  BY <1>1, <1>2 DEF Kind
<1>5. \A v \in Version : v = 1 \/ v = 2
  BY <1>2
<1>6. VersionsInv
  BY <1>2, <1>3, <1>4, <1>5 DEF VersionsInv, Kind
<1>7. [prior |-> 0, project |-> 1, work |-> 2, carried |-> {}, body |-> 1, expired |-> FALSE]
        \in PacketRow
  BY DEF PacketRow
<1>8. packets \in Seq(PacketRow) /\ Len(packets) = 1 /\ Packet = 1..1
  BY <1>1, <1>7 DEF Packet
<1>9. packets[1] = [prior |-> 0, project |-> 1, work |-> 2, carried |-> {}, body |-> 1,
                    expired |-> FALSE]
  BY <1>1
<1>10. \A p \in Packet : p = 1
  BY <1>8
<1>11. Carriable(packets[1].carried)
  BY <1>9 DEF Carriable
<1>12. 1 \in Version /\ 2 \in Version
  BY <1>2
<1>13. packets[1].prior = 1 - 1 /\ packets[1].project = 1 /\ packets[1].work = 2
  BY <1>9
<1>14. PacketsInv
  <2>1. ASSUME NEW p \in Packet
        PROVE  /\ packets[p].prior = p - 1
               /\ packets[p].project \in Version /\ packets[p].work \in Version
               /\ Carriable(packets[p].carried)
    BY <1>10, <1>11, <1>12, <1>13
  <2> QED BY <1>8, <2>1 DEF PacketsInv
<1> QED BY <1>6, <1>14

LEMMA InitStore == Init => CallsInv /\ StoreInv
<1> SUFFICES ASSUME Init PROVE CallsInv /\ StoreInv
  OBVIOUS
<1>1. call = [s \in Slot |-> Idle] /\ bodies = 1 /\ queue = {}
      /\ objects = {Body(1)} \cup {ContentOf(c) : c \in Client}
  BY DEF Init
<1>2. \A s \in Slot : call[s].pc = "idle"
  BY <1>1 DEF Idle
<1>3. DOMAIN call = Slot
  BY <1>1
<1>4. CallsInv
  BY <1>2, <1>3 DEF CallsInv, CallFits
<1>5. RecordsInv /\ VersionsInv /\ PacketsInv
  BY InitRecords, InitPlan
<1>6. /\ versions = <<[kind |-> "project", prev |-> 0, body |-> 1],
                      [kind |-> "work", prev |-> 0, body |-> 1]>>
      /\ packets = <<[prior |-> 0, project |-> 1, work |-> 2, carried |-> {}, body |-> 1,
                      expired |-> FALSE]>>
  BY DEF Init
<1>7. \A v \in Version : versions[v].body = 1
  BY <1>6 DEF Version
<1>8. \A p \in Packet : packets[p].body = 1
  BY <1>6 DEF Packet
<1>9. \A r \in Row : records[r].id \in Client
  <2>1. PICK order \in [1..Cardinality(Client) -> Client] :
          records = [i \in DOMAIN order |->
                        [id |-> order[i], type |-> "attempt", client |-> order[i], grant |-> i,
                         packet |-> 1, attempt |-> 0,
                         visibility |-> "private", disposition |-> "pending"]]
    BY DEF Init
  <2> QED BY <2>1 DEF Row
<1>10. BodiesKept
  BY <1>1, <1>7, <1>8, <1>9 DEF BodiesKept, Named
<1> QED BY <1>1, <1>2, <1>4, <1>10 DEF StoreInv, Holding

LEMMA InitInv == Init => IInv
  BY InitAccess, InitPlan, InitRecords, InitStore DEF IInv

-----------------------------------------------------------------------------
(* Every step moves the rows onward *)

\* Rows are never deleted, a record keeps who submitted what, what the owner
\* did stays done, and a client says of a submission what it said before.
Onward ==
    /\ Agent \subseteq Agent' /\ Grant \subseteq Grant' /\ Approval \subseteq Approval'
    /\ Version \subseteq Version'
    /\ Packet \subseteq Packet' /\ Row \subseteq Row' /\ events \subseteq events'
    /\ \A r \in Row : /\ records'[r].id = records[r].id
                      /\ records'[r].type = records[r].type
                      /\ records'[r].client = records[r].client
                      /\ records'[r].packet = records[r].packet
    /\ \A id \in Submission : sent[id] # NoSubmission => sent'[id] = sent[id]

\* A step that adds no record moves the rows onward if it only adds to others.
LEMMA OnwardRows ==
    ASSUME UNCHANGED <<records, events, sent>>,
           Agent \subseteq Agent', Grant \subseteq Grant', Approval \subseteq Approval',
           Version \subseteq Version', Packet \subseteq Packet'
    PROVE  Onward
  BY DEF Onward, Row

LEMMA OnwardPlain ==
    ASSUME UNCHANGED <<agents, grants, approvals, plan, records, events, sent>>
    PROVE  Onward
  BY DEF Onward, Row, plan, Agent, Grant, Approval, Version, Packet

LEMMA CarriableOn ==
    ASSUME NEW c, Onward, Carriable(c) PROVE Carriable(c)'
  BY DEF Onward, Carriable, Shared

LEMMA FollowsOn ==
    ASSUME NEW x, Onward, Follows(x) PROVE Follows(x)'
  BY DEF Onward, Follows

\* What a request knows stays true while others move the rows.
LEMMA CallOn ==
    ASSUME NEW s \in Slot, Onward, CallFits(s), call'[s] = call[s]
    PROVE  CallFits(s)'
<1>1. PICK c : c = call[s]
  OBVIOUS
<1>2. c.pc = "rotate" => Carriable(c.carried)'
  BY <1>1, CarriableOn DEF CallFits
<1>3. call[s].pc = "rotate" => Carriable(call[s].carried)'
  BY <1>1, <1>2
<1>4. c.pc = "act" => /\ c.record \in Row'
                      /\ c.visibility = "shared" => Shared(c.record)'
  BY <1>1 DEF CallFits, Onward, Shared
<1>5. c.pc = "submit" => c.id \in Submission
  BY <1>1 DEF CallFits
<1>6. c.pc = "submit" => sent'[c.id] # NoSubmission
  BY <1>1, <1>5 DEF CallFits, Onward
<1>7. /\ c.pc \in {"agent", "repair"} => c.agent \in Agent'
      /\ c.pc \in {"ask", "grant", "complete", "repair"} => c.approval \in Approval'
  BY <1>1 DEF CallFits, Onward
<1>8. c.pc \in {"grant", "complete"} => c.grant \in Grant'
  BY <1>1 DEF CallFits, Onward
<1>9. c.pc \in {"versions", "rotate"} => c.read \in [Kind -> Version']
  BY <1>1 DEF CallFits, Onward
<1>10. c.pc = "rotate" => c.prior \in Packet'
  BY <1>1 DEF CallFits, Onward
<1>11. /\ c.pc = "brief" => c.kinds \in SUBSET Kind
       /\ c.pc = "submit" => c \in [pc : {"submit"}, grant : Nat, id : Submission]
       /\ c.pc = "again" => c.id \in Submission
       /\ c.pc = "act" => /\ c.action \in Action
                          /\ c.visibility \in Visibility /\ c.disposition \in Disposition
  BY <1>1 DEF CallFits
<1>12. call'[s] = c
  BY <1>1
<1> QED BY <1>2, <1>4, <1>6, <1>7, <1>8, <1>9, <1>10, <1>11, <1>12 DEF CallFits

LEMMA CallsStep ==
    ASSUME CallsInv, Onward, DOMAIN call' = Slot,
           \A s \in Slot : call'[s] = call[s] \/ CallFits(s)'
    PROVE  CallsInv'
<1>1. ASSUME NEW s \in Slot PROVE CallFits(s)'
  BY <1>1, CallOn DEF CallsInv
<1> QED BY <1>1 DEF CallsInv

\* At most the request in this slot takes a step.
Moves(s) == DOMAIN call' = Slot /\ \A t \in Slot \ {s} : call'[t] = call[t]

LEMMA OneCall ==
    ASSUME CallsInv, Onward, NEW s \in Slot, Moves(s), CallFits(s)'
    PROVE  CallsInv'
  BY CallsStep DEF Moves

LEMMA AccessKept == AccessInv /\ UNCHANGED <<access, project>> => AccessInv'
  BY DEF AccessInv, ApprovalsInv, access, Agent, Grant, Approval, Live, Discoverable

LEMMA VersionsKept == VersionsInv /\ UNCHANGED <<versions, active>> => VersionsInv'
  BY DEF VersionsInv, Version

LEMMA PacketsKept ==
    ASSUME PacketsInv, Onward, UNCHANGED packets
    PROVE  PacketsInv'
<1>1. ASSUME NEW p \in Packet PROVE Carriable(packets[p].carried)'
  <2>1. PICK c : c = packets[p].carried
    OBVIOUS
  <2>2. Carriable(c)'
    BY <2>1, CarriableOn DEF PacketsInv
  <2> QED BY <2>1, <2>2
<1>2. Packet' = Packet /\ Version \subseteq Version'
  BY DEF Packet, Onward
<1> QED BY <1>1, <1>2 DEF PacketsInv

LEMMA RecordsKept == RecordsInv /\ UNCHANGED <<work, client>> => RecordsInv'
  BY DEF RecordsInv, work, client, Row, Shared, Follows

LEMMA NamedSame ==
    UNCHANGED <<versions, packets, records>> => Named' = Named
  BY DEF Named, Packet, Version, Row

\* A request that ends, or goes on without a body of its own.
Quiet(t) == call[t].pc \notin {"brief", "rotate", "collect", "submit"}

LEMMA StoreKept ==
    ASSUME StoreInv, UNCHANGED store, \A t \in Slot : call'[t] = call[t] \/ Quiet(t)',
           \A o \in Named' \ Named :
              o \in objects /\ \A t \in Slot : call[t].pc = "collect" => o \notin call[t].garbage
    PROVE  StoreInv'
<1>1. UNCHANGED <<objects, queue, bodies>>
  BY DEF store
<1>2. \A t \in Slot : Holding(t)' => Holding(t) /\ call'[t] = call[t]
  BY DEF Holding, Quiet
<1>3. \A t \in Slot : call'[t].pc \in {"collect", "submit"} => call'[t] = call[t]
  BY DEF Quiet
<1>4. BodiesKept'
  BY <1>1 DEF StoreInv, BodiesKept
<1>5. \A s \in Slot : Holding(s)' =>
          call'[s].body \in 1..bodies' /\ Body(call'[s].body) \in objects' \ queue'
  BY <1>1, <1>2 DEF StoreInv
<1>6. \A s, t \in Slot : Holding(s)' /\ Holding(t)' /\ call'[s].body = call'[t].body => s = t
  BY <1>2 DEF StoreInv
<1>7. ASSUME NEW s \in Slot, call'[s].pc = "collect"
      PROVE  /\ call'[s].garbage \in SUBSET BodiesUpTo(bodies')
             /\ \A o \in call'[s].garbage :
                   o \notin Named' /\ \A t \in Slot : Holding(t)' => o # Body(call'[t].body)
  BY <1>1, <1>2, <1>3, <1>7 DEF StoreInv
<1>8. \A s \in Slot : call'[s].pc = "submit" => ContentOf(call'[s].id) \in objects'
  BY <1>1, <1>3 DEF StoreInv
<1> QED BY <1>1, <1>4, <1>5, <1>6, <1>7, <1>8 DEF StoreInv, BodiesUpTo

LEMMA StoreQuiet ==
    ASSUME StoreInv, UNCHANGED <<store, versions, packets, records>>,
           \A t \in Slot : call'[t] = call[t] \/ Quiet(t)'
    PROVE  StoreInv'
  BY StoreKept, NamedSame

LEMMA SetCall ==
    ASSUME CallsInv, NEW s \in Slot
    PROVE  /\ \A x : Goto(s, x) \/ Begin(s, x) => Moves(s) /\ call'[s] = x
           /\ Done(s) => Moves(s) /\ call'[s] = Idle
<1>1. DOMAIN call = Slot
  BY DEF CallsInv
<1> QED BY <1>1 DEF Moves, Goto, Begin, Done

-----------------------------------------------------------------------------
(* Authority *)

\* Approvals stay in order when connections only end, and the vault is paired
\* again only when it was revoked.
LEMMA ApprovalsOn ==
    ASSUME ApprovalsInv, UNCHANGED approvals, Agent \subseteq Agent', Grant \subseteq Grant',
           \A n \in Agent : agents'[n].epoch = agents[n].epoch,
           \A g \in Grant : Live(g)' => Live(g) /\ (vault' = vault \/ vault.status = "revoked")
    PROVE  ApprovalsInv' /\ Approval' = Approval
<1>1. Approval' = Approval
  BY DEF Approval
<1>2. ASSUME NEW a \in Approval
      PROVE  /\ approvals[a].agent \in Agent'
             /\ approvals[a].grant \in Grant'
                \/ (approvals[a].legacy /\ approvals[a].grant = Unclaimed)
    BY DEF ApprovalsInv
<1>3. ASSUME NEW a \in Approval, ~approvals[a].legacy, Live(approvals[a].grant)'
      PROVE  vault'.status = "active" /\ agents'[approvals[a].agent].epoch = vault'.epoch
  <2>1. PICK g : g = approvals[a].grant
    OBVIOUS
  <2>2. g \in Grant /\ approvals[a].agent \in Agent
    BY <1>3, <2>1 DEF ApprovalsInv
  <2>3. approvals'[a].grant = g
    BY <2>1
  <2>4. Live(g)'
    BY <1>3, <2>3
  <2>5. Live(g) /\ (vault' = vault \/ vault.status = "revoked")
    BY <2>2, <2>4
  <2>6. vault.status = "active" /\ agents[approvals[a].agent].epoch = vault.epoch
    BY <1>3, <2>1, <2>5 DEF ApprovalsInv
  <2> QED BY <2>2, <2>5, <2>6
<1>4. approvals' \in Seq(ApprovalRow)
  BY DEF ApprovalsInv
<1> QED BY <1>1, <1>2, <1>3, <1>4 DEF ApprovalsInv

\* A step of authority leaves the plan, the records and the bodies alone.
LEMMA AccessStep ==
    ASSUME IInv, AccessInv', Agent \subseteq Agent', Grant \subseteq Grant', Approval \subseteq Approval',
           UNCHANGED <<plan, work, store, client>>, DOMAIN call' = Slot,
           \A t \in Slot : call'[t] = call[t] \/ (CallFits(t)' /\ Quiet(t)')
    PROVE  IInv'
<1>1. UNCHANGED <<versions, active, packets, records, events, sent, answers>>
  BY DEF plan, work, client
<1>2. Version \subseteq Version' /\ Packet \subseteq Packet'
  BY <1>1 DEF Version, Packet
<1>3. Onward
  BY <1>1, <1>2, OnwardRows
<1>4. VersionsInv' /\ PacketsInv' /\ RecordsInv'
  BY <1>1, <1>3, VersionsKept, PacketsKept, RecordsKept DEF IInv
<1>5. CallsInv'
  BY <1>3, CallsStep DEF IInv
<1>6. StoreInv'
  BY <1>1, StoreQuiet DEF IInv
<1> QED BY <1>4, <1>5, <1>6 DEF IInv

\* So does a turn of it, and every request stays where it is.
LEMMA AccessTurn ==
    ASSUME IInv, AccessInv', Agent \subseteq Agent', Grant \subseteq Grant', Approval \subseteq Approval',
           UNCHANGED <<plan, work, store, client>>, Turn
    PROVE  IInv'
  BY AccessStep DEF Turn, IInv, CallsInv

LEMMA AccessRequest ==
    ASSUME IInv, AccessInv', Agent \subseteq Agent', Grant \subseteq Grant', Approval \subseteq Approval',
           UNCHANGED <<plan, work, store, client>>, NEW s \in Slot, Moves(s),
           CallFits(s)', Quiet(s)'
    PROVE  IInv'
  BY AccessStep DEF Moves

LEMMA CreateAgentInv ==
    ASSUME IInv, NEW s \in Slot, NEW c \in Client, CreateAgent(s, c) PROVE IInv'
<1> DEFINE row == [client |-> c, epoch |-> vault.epoch, status |-> "pending"]
<1>1. /\ AccessInv /\ CallsInv
      /\ vault.status = "active" /\ agents' = Append(agents, row)
      /\ Begin(s, [pc |-> "agent", agent |-> Len(agents) + 1])
      /\ UNCHANGED <<vault, grants, approvals, project, plan, work, store, client>>
  BY DEF CreateAgent, IInv
<1>2. row \in AgentRow
  BY <1>1 DEF AccessInv, AgentRow
<1>3. /\ Len(agents) \in Nat /\ Agent = 1..Len(agents)
      /\ \A n \in Agent : agents[n] \in AgentRow
  BY <1>1, AccessIs
<1>4. agents \in Seq(AgentRow)
  BY <1>1 DEF AccessInv
<1> HIDE DEF row
<1>5. /\ agents' \in Seq(AgentRow) /\ Len(agents') = Len(agents) + 1
      /\ \A n \in 1..Len(agents) : agents'[n] = agents[n]
      /\ agents'[Len(agents) + 1] = row
  BY <1>1, <1>2, <1>4, AppendProperties
<1>6. Agent' = 1..(Len(agents) + 1)
  BY <1>5, LenProperties DEF Agent
<1>7. Grant' = Grant /\ UNCHANGED <<Discoverable, grants, vault, project>>
      /\ \A g \in Grant : Live(g)' <=> Live(g)
  BY <1>1 DEF Grant, Discoverable, Live
<1>9. /\ Agent \subseteq Agent' /\ Len(agents) + 1 \in Agent'
      /\ Approval' = Approval /\ ApprovalsInv'
  <2>1. Agent \subseteq Agent' /\ Len(agents) + 1 \in Agent'
    BY <1>3, <1>6
  <2>2. \A n \in Agent : agents'[n].epoch = agents[n].epoch
    BY <1>3, <1>5
  <2> QED BY <1>1, <1>7, <2>1, <2>2, ApprovalsOn DEF AccessInv
<1>8. AccessInv'
  <2>1. \A n \in Agent' : n \in Agent \/ n = Len(agents) + 1
    BY <1>3, <1>6
  <2>2. row.status = "pending" /\ row.epoch = vault.epoch
    BY DEF row
  <2>3. \A n \in Agent' : agents'[n].status # "revoked" =>
           vault.status = "active" /\ agents'[n].epoch = vault.epoch
    BY <1>1, <1>3, <1>5, <2>1, <2>2 DEF AccessInv
  <2>4. \A m, n \in Agent' :
           (/\ agents'[m].status = "active" /\ agents'[n].status = "active"
            /\ agents'[m].client = agents'[n].client) => m = n
    BY <1>1, <1>3, <1>5, <2>1, <2>2 DEF AccessInv
  <2>5. \A g \in Grant' : grants'[g].agent \in Agent'
    BY <1>1, <1>3, <1>6, <1>7 DEF AccessInv
  <2> QED BY <1>1, <1>5, <1>7, <1>9, <2>3, <2>4, <2>5 DEF AccessInv
<1>10. Moves(s) /\ call'[s] = [pc |-> "agent", agent |-> Len(agents) + 1]
  BY <1>1, SetCall
<1>11. CallFits(s)' /\ Quiet(s)'
  BY <1>9, <1>10 DEF CallFits, Quiet
<1> QED BY <1>1, <1>7, <1>8, <1>9, <1>10, <1>11, AccessRequest

LEMMA ActivateAgentInv ==
    ASSUME IInv, NEW s \in Slot, ActivateAgent(s) PROVE IInv'
<1>1. PICK n : n = call[s].agent
  OBVIOUS
<1>2. /\ AccessInv /\ CallsInv
      /\ call[s].pc = "agent" /\ Done(s)
      /\ agents' = IF agents[n].status # "pending" THEN agents
                   ELSE [Revoked(agents, Replaced(n)) EXCEPT ![n].status = "active"]
      /\ UNCHANGED <<vault, grants, approvals, project, plan, work, store, client>>
  BY <1>1 DEF ActivateAgent, IInv
<1>3. n \in Agent
  BY <1>1, <1>2 DEF CallsInv, CallFits
<1>4. Moves(s) /\ call'[s] = Idle
  BY <1>2, SetCall
<1>5. CallFits(s)' /\ Quiet(s)'
  BY <1>4 DEF CallFits, Quiet, Idle
<1>6. CASE agents[n].status # "pending"
  <2>1. agents' = agents
    BY <1>2, <1>6
  <2>2. AccessInv' /\ Agent' = Agent /\ Grant' = Grant /\ Approval' = Approval
    BY <1>2, <2>1, AccessKept DEF access, Agent, Grant, Approval
  <2> QED BY <1>2, <1>4, <1>5, <2>2, AccessRequest
<1>7. CASE agents[n].status = "pending"
  <2>1. /\ Len(agents) \in Nat /\ Agent = 1..Len(agents)
        /\ \A m \in Agent : agents[m] \in AgentRow
    BY <1>2, AccessIs
  <2>2. agents \in Seq(AgentRow)
    BY <1>2 DEF AccessInv
  <2>3. PICK rows : rows = Revoked(agents, Replaced(n))
    OBVIOUS
  <2>4. /\ rows \in Seq(AgentRow) /\ Len(rows) = Len(agents) /\ DOMAIN rows = Agent
        /\ \A i \in Agent : /\ rows[i].client = agents[i].client
                            /\ rows[i].epoch = agents[i].epoch
                            /\ rows[i].status \in {agents[i].status, "revoked"}
                            /\ i \in Replaced(n) => rows[i].status = "revoked"
    BY <2>2, <2>3, RevokedAgents DEF Agent
  <2>5. rows[n] \in AgentRow
    BY <1>3, <2>1, <2>4, LenProperties
  <2>6. PICK row : row = [rows[n] EXCEPT !.status = "active"]
    OBVIOUS
  <2>7. row \in AgentRow /\ row.status = "active"
        /\ row.client = agents[n].client /\ row.epoch = agents[n].epoch
    BY <1>3, <2>4, <2>5, <2>6 DEF AgentRow
  <2>8. agents' = [rows EXCEPT ![n] = row]
    BY <1>2, <1>7, <2>3, <2>6
  <2>9. /\ agents' \in Seq(AgentRow) /\ Len(agents') = Len(agents)
        /\ \A i \in 1..Len(agents) : agents'[i] = IF i = n THEN row ELSE rows[i]
    BY <1>3, <2>1, <2>4, <2>7, <2>8, ExceptSeq
  <2>10. Agent' = Agent
    BY <2>1, <2>9, LenProperties DEF Agent
  <2>11. Grant' = Grant /\ UNCHANGED <<Discoverable, grants, vault, project>>
        /\ \A g \in Grant : Live(g)' <=> Live(g)
    BY <1>2 DEF Grant, Discoverable, Live
  <2>12. \A m \in Agent \ {n} : agents'[m].status = "active" =>
            agents[m].client # agents[n].client
    BY <2>1, <2>4, <2>9 DEF Replaced
  <2>13. \A m \in Agent : /\ agents'[m].client = agents[m].client
                          /\ agents'[m].epoch = agents[m].epoch
                          /\ m # n => agents'[m].status \in {agents[m].status, "revoked"}
    BY <2>1, <2>4, <2>7, <2>9
  <2>14. agents[n].status # "revoked" /\ agents'[n].status = "active"
    BY <1>3, <1>7, <2>1, <2>7, <2>9
  <2>16. ApprovalsInv' /\ Approval' = Approval
    BY <1>2, <2>10, <2>11, <2>13, ApprovalsOn DEF AccessInv
  <2>15. AccessInv'
    <3>1. ASSUME NEW m \in Agent, agents'[m].status # "revoked"
          PROVE  vault.status = "active" /\ agents'[m].epoch = vault.epoch
      BY <1>2, <2>13, <2>14, <3>1 DEF AccessInv
    <3>2. ASSUME NEW m \in Agent, NEW k \in Agent, agents'[m].status = "active",
                 agents'[k].status = "active", agents'[m].client = agents'[k].client
          PROVE  m = k
      BY <1>2, <1>3, <2>12, <2>13, <2>14, <3>2 DEF AccessInv
    <3> QED BY <1>2, <2>9, <2>10, <2>11, <2>16, <3>1, <3>2 DEF AccessInv
  <2> QED BY <1>2, <1>4, <1>5, <2>10, <2>11, <2>15, <2>16, AccessRequest
<1> QED BY <1>6, <1>7

LEMMA AskGrantInv ==
    ASSUME IInv, NEW s \in Slot, NEW a \in Approval, AskGrant(s, a) PROVE IInv'
<1>1. /\ CallsInv /\ AccessInv /\ Begin(s, [pc |-> "ask", approval |-> a])
      /\ UNCHANGED <<access, project, plan, work, store, client>>
  BY DEF AskGrant, IInv
<1>2. Moves(s) /\ call'[s] = [pc |-> "ask", approval |-> a]
  BY <1>1, SetCall
<1>3. AccessInv' /\ Agent' = Agent /\ Grant' = Grant /\ Approval' = Approval
  BY <1>1, AccessKept DEF access, Agent, Grant, Approval
<1>4. CallFits(s)' /\ Quiet(s)'
  BY <1>2, <1>3 DEF CallFits, Quiet
<1> QED BY <1>1, <1>2, <1>3, <1>4, AccessRequest

LEMMA BeginRepairInv ==
    ASSUME IInv, NEW s \in Slot, NEW a \in Approval, NEW n \in Agent, BeginRepair(s, a, n)
    PROVE  IInv'
<1>1. PICK x : x = [pc |-> "repair", approval |-> a, agent |-> n,
                    expected |-> approvals[a].grant]
  OBVIOUS
<1>2. /\ CallsInv /\ AccessInv /\ Begin(s, x)
      /\ UNCHANGED <<access, project, plan, work, store, client>>
  BY <1>1 DEF BeginRepair, IInv
<1>3. Moves(s) /\ call'[s] = x
  BY <1>2, SetCall
<1>4. AccessInv' /\ Agent' = Agent /\ Grant' = Grant /\ Approval' = Approval
  BY <1>2, AccessKept DEF access, Agent, Grant, Approval
<1>5. x.pc = "repair" /\ x.approval = a /\ x.agent = n
  BY <1>1
<1>6. CallFits(s)' /\ Quiet(s)'
  BY <1>3, <1>4, <1>5 DEF CallFits, Quiet
<1> QED BY <1>2, <1>3, <1>4, <1>6, AccessRequest

\* A step that only revokes connections, or changes the project and revokes
\* all of them where it cannot be discovered any more.
LEMMA FewerGrants ==
    ASSUME AccessInv, NEW which, grants' = Revoked(grants, which),
           UNCHANGED <<vault, agents, approvals>>,
           project' \in [status : {"active", "archived"}, visible : BOOLEAN, open : BOOLEAN],
           Discoverable' \/ Grant \subseteq which \/ (UNCHANGED Discoverable)
    PROVE  AccessInv' /\ Agent' = Agent /\ Grant' = Grant /\ Approval' = Approval
<1>1. grants \in Seq(GrantRow)
  BY DEF AccessInv
<1>2. PICK old : old = grants
  OBVIOUS
<1>3. /\ grants' \in Seq(GrantRow) /\ Grant' = Grant
      /\ \A g \in Grant : /\ grants'[g].client = grants[g].client
                          /\ grants'[g].agent = grants[g].agent
                          /\ grants'[g].status \in {grants[g].status, "revoked"}
                          /\ g \in which => grants'[g].status = "revoked"
  BY <1>1, RevokedGrants DEF Grant
<1>4. \A g \in Grant : /\ Live(g)' => Live(g)
                       /\ g \in which => ~Live(g)'
  BY <1>3 DEF Live
<1>5. Agent' = Agent
  BY DEF Agent
<1>6. Discoverable' \/ \A g \in Grant' : ~Live(g)'
  BY <1>3, <1>4 DEF AccessInv
<1>7. ApprovalsInv' /\ Approval' = Approval
  BY <1>3, <1>4, <1>5, ApprovalsOn DEF AccessInv
<1> QED BY <1>3, <1>4, <1>5, <1>6, <1>7 DEF AccessInv

\* A new connection under n, with which the client's others end.
LEMMA ConnectedIs ==
    ASSUME AccessInv, NEW n \in Agent, NEW status \in {"pending", "active"},
           grants' = Connected(n, status)
    PROVE  LET new == Len(grants) + 1
           IN  /\ grants' \in Seq(GrantRow)
               /\ Grant' = Grant \cup {new} /\ new \notin Grant /\ new \in Nat
               /\ \A g \in Grant : /\ grants'[g].client = grants[g].client
                                   /\ grants'[g].agent = grants[g].agent
                                   /\ grants'[g].status \in {grants[g].status, "revoked"}
                                   /\ Live(g)' => Live(g)
                                   /\ Live(g)' => grants[g].client # agents[n].client
               /\ grants'[new].client = agents[n].client /\ grants'[new].agent = n
<1> DEFINE new == Len(grants) + 1
<1>1. PICK c, which, old, row :
        /\ c = agents[n].client /\ which = Superseded(c) /\ old = Revoked(grants, which)
        /\ row = [client |-> c, agent |-> n, status |-> status, lapsed |-> FALSE]
  OBVIOUS
<1>2. grants' = Append(old, row)
  BY <1>1 DEF Connected
<1>3. /\ Len(agents) \in Nat /\ Agent = 1..Len(agents)
      /\ Len(grants) \in Nat /\ Grant = 1..Len(grants)
      /\ agents[n] \in AgentRow
  BY AccessIs
<1>4. row \in GrantRow /\ row.client = c /\ row.agent = n
  BY <1>1, <1>3 DEF GrantRow, AgentRow
<1>5. grants \in Seq(GrantRow)
  BY DEF AccessInv
<1>6. /\ old \in Seq(GrantRow) /\ Len(old) = Len(grants)
      /\ \A g \in Grant : /\ old[g].client = grants[g].client
                          /\ old[g].agent = grants[g].agent
                          /\ old[g].status \in {grants[g].status, "revoked"}
                          /\ g \in which => old[g].status = "revoked"
  BY <1>1, <1>5, RevokedGrants DEF Grant
<1>7. /\ grants' \in Seq(GrantRow) /\ Len(grants') = new
      /\ \A g \in 1..Len(grants) : grants'[g] = old[g]
      /\ grants'[new] = row
  BY <1>2, <1>4, <1>6, AppendProperties
<1>8. Grant' = 1..new
  BY <1>7, LenProperties DEF Grant
<1>9. Grant' = Grant \cup {new} /\ new \notin Grant /\ new \in Nat
  BY <1>3, <1>8
<1>10. \A g \in Grant : /\ grants'[g].client = grants[g].client
                        /\ grants'[g].agent = grants[g].agent
                        /\ grants'[g].status \in {grants[g].status, "revoked"}
                        /\ Live(g)' => Live(g)
                        /\ Live(g)' => grants[g].client # c
  BY <1>1, <1>3, <1>6, <1>7 DEF Live, Superseded
<1> QED BY <1>1, <1>4, <1>7, <1>9, <1>10

\* What the batch that makes a connection leaves in order.
LEMMA ConnectedInv ==
    ASSUME AccessInv, NEW n \in Agent, NEW status \in {"pending", "active"},
           grants' = Connected(n, status), UNCHANGED <<vault, agents>>, Discoverable',
           project' \in [status : {"active", "archived"}, visible : BOOLEAN, open : BOOLEAN],
           ApprovalsInv'
    PROVE  AccessInv'
<1>1. PICK new : new = Len(grants) + 1
  OBVIOUS
<1>2. /\ grants' \in Seq(GrantRow)
      /\ Grant' = Grant \cup {new} /\ new \notin Grant
      /\ \A g \in Grant : /\ grants'[g].client = grants[g].client
                          /\ grants'[g].agent = grants[g].agent
                          /\ Live(g)' => Live(g)
                          /\ Live(g)' => grants[g].client # agents[n].client
      /\ grants'[new].client = agents[n].client /\ grants'[new].agent = n
  BY <1>1, ConnectedIs
<1>3. Agent' = Agent
  BY DEF Agent
<1>4. \A g \in Grant' : grants'[g].agent \in Agent'
  BY <1>2, <1>3 DEF AccessInv
<1>5. ASSUME NEW g \in Grant', NEW h \in Grant', Live(g)', Live(h)',
             grants'[g].client = grants'[h].client
      PROVE  g = h
  BY <1>2, <1>5 DEF AccessInv
<1> QED BY <1>2, <1>3, <1>4, <1>5 DEF AccessInv

LEMMA CreateGrantInv ==
    ASSUME IInv, NEW s \in Slot, CreateGrant(s) PROVE IInv'
<1>1. PICK a, n, which, new : /\ a = call[s].approval /\ n = approvals[a].agent
                              /\ which = Superseded(agents[n].client)
                              /\ new = Len(grants) + 1
  OBVIOUS
<1>2. /\ AccessInv /\ CallsInv /\ ApprovalsInv /\ call[s].pc = "ask"
      /\ IF Discoverable
         THEN /\ grants' = Connected(n, "pending")
              /\ Goto(s, [pc |-> "grant", approval |-> a, grant |-> new])
         ELSE grants' = Revoked(grants, which) /\ Done(s)
      /\ UNCHANGED <<vault, agents, approvals, project, plan, work, store, client>>
  BY <1>1 DEF CreateGrant, IInv, AccessInv
<1>3. a \in Approval /\ n \in Agent
  BY <1>1, <1>2 DEF CallsInv, CallFits, ApprovalsInv
<1>4. Agent' = Agent /\ UNCHANGED Discoverable
  BY <1>2 DEF Agent, Discoverable
<1>5. CASE ~Discoverable
  <2>1. grants' = Revoked(grants, which) /\ Moves(s) /\ call'[s] = Idle
    BY <1>2, <1>5, SetCall
  <2>2. AccessInv' /\ Grant' = Grant /\ Approval' = Approval
    BY <1>2, <1>4, <2>1, FewerGrants DEF AccessInv
  <2>3. CallFits(s)' /\ Quiet(s)'
    BY <2>1 DEF CallFits, Quiet, Idle
  <2> QED BY <1>2, <1>4, <2>1, <2>2, <2>3, AccessRequest
<1>6. CASE Discoverable
  <2>1. /\ grants' = Connected(n, "pending")
        /\ Goto(s, [pc |-> "grant", approval |-> a, grant |-> new])
    BY <1>2, <1>6
  <2>2. /\ Grant' = Grant \cup {new}
        /\ \A g \in Grant : Live(g)' => Live(g)
    BY <1>1, <1>2, <1>3, <2>1, ConnectedIs
  <2>3. ApprovalsInv' /\ Approval' = Approval
    BY <1>2, <1>4, <2>2, ApprovalsOn
  <2>4. AccessInv'
    BY <1>2, <1>3, <1>4, <1>6, <2>1, <2>3, ConnectedInv DEF AccessInv
  <2>5. Moves(s) /\ call'[s] = [pc |-> "grant", approval |-> a, grant |-> new]
    BY <1>2, <2>1, SetCall
  <2>6. CallFits(s)' /\ Quiet(s)'
    BY <1>3, <2>2, <2>3, <2>5 DEF CallFits, Quiet
  <2> QED BY <1>2, <1>4, <2>2, <2>3, <2>4, <2>5, <2>6, AccessRequest
<1> QED BY <1>5, <1>6

LEMMA ApproveInv ==
    ASSUME IInv, NEW s \in Slot, NEW n \in Agent, Approve(s, n) PROVE IInv'
<1>1. PICK new, row : /\ new = Len(grants) + 1
                      /\ row = [agent |-> n, grant |-> new, status |-> "approved",
                                legacy |-> FALSE]
  OBVIOUS
<1>2. /\ AccessInv /\ CallsInv /\ ApprovalsInv
      /\ agents[n].status = "active" /\ vault.status = "active" /\ Discoverable
      /\ grants' = Connected(n, "active") /\ approvals' = Append(approvals, row)
      /\ project' = [project EXCEPT !.open = TRUE] /\ Begin(s, Idle)
      /\ UNCHANGED <<vault, agents, plan, work, store, client>>
  BY <1>1 DEF Approve, IInv, AccessInv
<1>3. /\ Grant' = Grant \cup {new} /\ new \in Nat
      /\ \A g \in Grant : Live(g)' => Live(g)
  BY <1>1, <1>2, ConnectedIs
<1>4. project' \in [status : {"active", "archived"}, visible : BOOLEAN, open : BOOLEAN]
      /\ project'.status = project.status /\ project'.visible = project.visible
  BY <1>2 DEF AccessInv
<1>5. Agent' = Agent /\ Discoverable'
  BY <1>2, <1>4 DEF Agent, Discoverable
<1>6. Len(approvals) \in Nat /\ Approval = 1..Len(approvals) /\ approvals \in Seq(ApprovalRow)
  BY <1>2, ApprovalsAre DEF ApprovalsInv
<1>7. n \in Nat
  BY <1>2, AccessIs
<1>8. row \in ApprovalRow /\ row.agent = n /\ row.grant = new /\ ~row.legacy
  BY <1>1, <1>3, <1>7 DEF ApprovalRow
<1>9. /\ approvals' \in Seq(ApprovalRow) /\ Len(approvals') = Len(approvals) + 1
      /\ \A a \in 1..Len(approvals) : approvals'[a] = approvals[a]
      /\ approvals'[Len(approvals) + 1] = row
  BY <1>2, <1>6, <1>8, AppendProperties
<1>10. Approval' = 1..(Len(approvals) + 1)
  BY <1>9, LenProperties DEF Approval
<1>11. Approval \subseteq Approval' /\ \A a \in Approval' : a \in Approval \/ a = Len(approvals) + 1
  BY <1>6, <1>10
<1>12. ApprovalsInv'
  <2>1. ASSUME NEW a \in Approval
        PROVE  /\ approvals'[a] = approvals[a] /\ approvals[a].agent \in Agent'
               /\ approvals[a].grant \in Grant'
                  \/ (approvals[a].legacy /\ approvals[a].grant = Unclaimed)
    BY <1>2, <1>3, <1>5, <1>6, <1>9 DEF ApprovalsInv
  <2>2. ASSUME NEW a \in Approval, ~approvals[a].legacy, Live(approvals[a].grant)'
        PROVE  vault.status = "active" /\ agents[approvals[a].agent].epoch = vault.epoch
    <3>1. PICK g : g = approvals[a].grant
      OBVIOUS
    <3>2. g \in Grant /\ approvals'[a].grant = g
      BY <1>2, <2>1, <2>2, <3>1 DEF ApprovalsInv
    <3>3. Live(g)
      BY <1>3, <2>2, <3>2 DEF Live
    <3> QED BY <1>2, <2>2, <3>1, <3>3 DEF ApprovalsInv
  <2>3. agents[n].epoch = vault.epoch
    BY <1>2 DEF AccessInv
  <2>4. ASSUME NEW a \in Approval'
        PROVE  /\ approvals'[a].agent \in Agent'
               /\ approvals'[a].grant \in Grant'
                  \/ (approvals'[a].legacy /\ approvals'[a].grant = Unclaimed)
               /\ ~approvals'[a].legacy /\ Live(approvals[a].grant)' =>
                     vault'.status = "active" /\ agents'[approvals'[a].agent].epoch = vault'.epoch
    <3>1. CASE a = Len(approvals) + 1
      BY <1>2, <1>3, <1>5, <1>8, <1>9, <2>3, <3>1
    <3>2. CASE a \in Approval
      BY <1>2, <2>1, <2>2, <3>2
    <3> QED BY <1>11, <3>1, <3>2
  <2> QED BY <1>9, <2>4 DEF ApprovalsInv
<1>13. AccessInv'
  BY <1>2, <1>4, <1>5, <1>12, ConnectedInv
<1>14. Moves(s) /\ call'[s] = Idle
  BY <1>2, SetCall
<1>15. CallFits(s)' /\ Quiet(s)'
  BY <1>14 DEF CallFits, Quiet, Idle
<1> QED BY <1>2, <1>3, <1>5, <1>11, <1>13, <1>14, <1>15, AccessRequest

\* One approval is given another status or connection.
LEMMA ApprovalSet ==
    ASSUME AccessInv, NEW a \in Approval, NEW row \in ApprovalRow,
           approvals' = [approvals EXCEPT ![a] = row],
           row.agent = approvals[a].agent, row.legacy = approvals[a].legacy,
           row.grant \in Grant' \/ (row.legacy /\ row.grant = Unclaimed),
           ~row.legacy /\ Live(row.grant)' =>
              vault.status = "active" /\ agents[row.agent].epoch = vault.epoch,
           UNCHANGED <<vault, agents>>, Grant \subseteq Grant',
           \A g \in Grant : Live(g)' => Live(g)
    PROVE  ApprovalsInv' /\ Approval' = Approval
<1>1. Len(approvals) \in Nat /\ Approval = 1..Len(approvals) /\ approvals \in Seq(ApprovalRow)
      /\ ApprovalsInv
  BY ApprovalsAre DEF AccessInv, ApprovalsInv
<1>2. /\ approvals' \in Seq(ApprovalRow) /\ Len(approvals') = Len(approvals)
      /\ \A b \in 1..Len(approvals) : approvals'[b] = IF b = a THEN row ELSE approvals[b]
  BY <1>1, ExceptSeq
<1>3. Approval' = Approval /\ Agent' = Agent
  BY <1>1, <1>2, LenProperties DEF Approval, Agent
<1>4. ASSUME NEW b \in Approval
      PROVE  /\ approvals'[b].agent \in Agent'
             /\ approvals'[b].grant \in Grant'
                \/ (approvals'[b].legacy /\ approvals'[b].grant = Unclaimed)
             /\ ~approvals'[b].legacy /\ Live(approvals[b].grant)' =>
                   vault'.status = "active" /\ agents'[approvals'[b].agent].epoch = vault'.epoch
  <2>1. CASE b = a
    <3>1. approvals'[b] = row
      BY <1>1, <1>2, <2>1
    <3>2. row.agent \in Agent'
      BY <1>1, <1>3 DEF ApprovalsInv
    <3> QED BY <3>1, <3>2
  <2>2. CASE b # a
    <3>1. approvals'[b] = approvals[b]
      BY <1>1, <1>2, <2>2
    <3>2. /\ approvals[b].agent \in Agent'
          /\ approvals[b].grant \in Grant'
             \/ (approvals[b].legacy /\ approvals[b].grant = Unclaimed)
      BY <1>1, <1>3 DEF ApprovalsInv
    <3>3. ASSUME ~approvals[b].legacy, Live(approvals[b].grant)'
          PROVE  vault.status = "active" /\ agents[approvals[b].agent].epoch = vault.epoch
      <4>1. PICK g : g = approvals[b].grant
        OBVIOUS
      <4>2. g \in Grant /\ approvals'[b].grant = g
        BY <1>1, <3>1, <3>3, <4>1 DEF ApprovalsInv
      <4>3. Live(g)
        BY <3>3, <4>2 DEF Live
      <4> QED BY <1>1, <3>3, <4>1, <4>3 DEF ApprovalsInv
    <3> QED BY <3>1, <3>2, <3>3
  <2> QED BY <2>1, <2>2
<1> QED BY <1>2, <1>3, <1>4 DEF ApprovalsInv

LEMMA ActivateGrantInv ==
    ASSUME IInv, NEW s \in Slot, ActivateGrant(s) PROVE IInv'
<1>1. PICK c, g : c = call[s] /\ g = c.grant
  OBVIOUS
<1>2. /\ AccessInv /\ CallsInv /\ c.pc = "grant"
      /\ IF grants[g].status = "pending" /\ Discoverable
         THEN /\ grants' = [grants EXCEPT ![g].status = "active"]
              /\ Goto(s, [c EXCEPT !.pc = "complete"])
         ELSE grants' = Revoked(grants, {g}) /\ Done(s)
      /\ UNCHANGED <<vault, agents, approvals, project, plan, work, store, client>>
  BY <1>1 DEF ActivateGrant, IInv
<1>3. g \in Grant /\ c.approval \in Approval
  BY <1>1, <1>2 DEF CallsInv, CallFits
<1>4. Agent' = Agent /\ UNCHANGED Discoverable
  BY <1>2 DEF Agent, Discoverable
<1>5. CASE ~(grants[g].status = "pending" /\ Discoverable)
  <2>1. grants' = Revoked(grants, {g}) /\ Moves(s) /\ call'[s] = Idle
    BY <1>2, <1>5, SetCall
  <2>2. AccessInv' /\ Grant' = Grant /\ Approval' = Approval
    BY <1>2, <1>4, <2>1, FewerGrants DEF AccessInv
  <2>3. CallFits(s)' /\ Quiet(s)'
    BY <2>1 DEF CallFits, Quiet, Idle
  <2> QED BY <1>2, <1>4, <2>1, <2>2, <2>3, AccessRequest
<1>6. CASE grants[g].status = "pending" /\ Discoverable
  <2>11. PICK x : x = [c EXCEPT !.pc = "complete"]
    OBVIOUS
  <2>1. /\ grants' = [grants EXCEPT ![g].status = "active"]
        /\ Goto(s, x)
    BY <1>2, <1>6, <2>11
  <2>2. /\ Len(grants) \in Nat /\ Grant = 1..Len(grants)
        /\ grants[g] \in GrantRow /\ grants \in Seq(GrantRow)
    BY <1>2, <1>3, AccessIs DEF AccessInv
  <2>3. PICK row : row = [grants[g] EXCEPT !.status = "active"]
    OBVIOUS
  <2>4. row \in GrantRow /\ row.client = grants[g].client /\ row.agent = grants[g].agent
    BY <2>2, <2>3 DEF GrantRow
  <2>5. grants' = [grants EXCEPT ![g] = row]
    BY <2>1, <2>3
  <2>6. /\ grants' \in Seq(GrantRow) /\ Len(grants') = Len(grants)
        /\ \A h \in 1..Len(grants) : grants'[h] = IF h = g THEN row ELSE grants[h]
    BY <1>3, <2>2, <2>4, <2>5, ExceptSeq
  <2>7. Grant' = Grant
    BY <2>2, <2>6, LenProperties DEF Grant
  <2>8. \A h \in Grant : /\ grants'[h].client = grants[h].client
                         /\ grants'[h].agent = grants[h].agent
                         /\ Live(h)' => Live(h)
    BY <1>6, <2>2, <2>4, <2>6 DEF Live
  <2>12. ApprovalsInv' /\ Approval' = Approval
    BY <1>2, <1>4, <2>7, <2>8, ApprovalsOn DEF AccessInv
  <2>9. AccessInv'
    BY <1>2, <1>4, <1>6, <2>6, <2>7, <2>8, <2>12 DEF AccessInv
  <2>10. Moves(s) /\ call'[s] = x
    BY <1>2, <2>1, SetCall
  <2>13. x.pc \in {"complete"} \cup {c.pc} /\ x.grant = g /\ x.approval = c.approval
    BY <1>1, <1>2, <2>11
  <2>14. CallFits(s)' /\ Quiet(s)'
    BY <1>2, <1>3, <2>7, <2>10, <2>12, <2>13 DEF CallFits, Quiet
  <2> QED BY <1>2, <1>4, <2>7, <2>9, <2>10, <2>12, <2>14, AccessRequest
<1> QED BY <1>5, <1>6

LEMMA CompleteGrantInv ==
    ASSUME IInv, NEW s \in Slot, CompleteGrant(s) PROVE IInv'
<1>1. PICK g, a, row : /\ g = call[s].grant /\ a = call[s].approval
                       /\ row = [approvals[a] EXCEPT !.grant = g]
  OBVIOUS
<1>2. /\ AccessInv /\ CallsInv /\ ApprovalsInv /\ call[s].pc = "complete" /\ Done(s)
      /\ \/ /\ approvals[a].grant = Unclaimed /\ UNCHANGED grants
            /\ approvals' = [approvals EXCEPT ![a].grant = g]
         \/ grants' = Revoked(grants, {g}) /\ UNCHANGED approvals
      /\ UNCHANGED <<vault, agents, project, plan, work, store, client>>
  BY <1>1 DEF CompleteGrant, IInv, AccessInv
<1>3. g \in Grant /\ a \in Approval
  BY <1>1, <1>2 DEF CallsInv, CallFits
<1>4. Agent' = Agent /\ UNCHANGED Discoverable
  BY <1>2 DEF Agent, Discoverable
<1>5. AccessInv' /\ Grant' = Grant /\ Approval' = Approval
  <2>1. CASE grants' = Revoked(grants, {g}) /\ UNCHANGED approvals
    BY <1>2, <1>4, <2>1, FewerGrants DEF AccessInv
  <2>2. CASE /\ approvals[a].grant = Unclaimed /\ UNCHANGED grants
             /\ approvals' = [approvals EXCEPT ![a].grant = g]
    <3>1. Grant' = Grant /\ \A h \in Grant : Live(h)' <=> Live(h)
      BY <2>2 DEF Grant, Live
    <3>2. approvals[a] \in ApprovalRow /\ g \in Nat
      BY <1>2, <1>3, ApprovalsAre, AccessIs
    <3>3. /\ row \in ApprovalRow /\ row.agent = approvals[a].agent
          /\ row.legacy = approvals[a].legacy /\ row.grant = g
      BY <1>1, <3>2 DEF ApprovalRow
    <3>4. row.legacy
      BY <1>2, <1>3, <2>2, <3>3, AccessIs DEF ApprovalsInv, Unclaimed
    <3>5. approvals' = [approvals EXCEPT ![a] = row]
      BY <1>1, <2>2
    <3>6. ApprovalsInv' /\ Approval' = Approval
      BY <1>2, <1>3, <3>1, <3>3, <3>4, <3>5, ApprovalSet
    <3> QED BY <1>2, <1>4, <2>2, <3>1, <3>6 DEF AccessInv
  <2> QED BY <1>2, <2>1, <2>2
<1>6. Moves(s) /\ call'[s] = Idle
  BY <1>2, SetCall
<1>7. CallFits(s)' /\ Quiet(s)'
  BY <1>6 DEF CallFits, Quiet, Idle
<1> QED BY <1>2, <1>4, <1>5, <1>6, <1>7, AccessRequest

LEMMA CommitRepairInv ==
    ASSUME IInv, NEW s \in Slot, CommitRepair(s) PROVE IInv'
<1>1. PICK n, a, new, row : /\ n = call[s].agent /\ a = call[s].approval
                            /\ new = Len(grants) + 1
                            /\ row = [approvals[a] EXCEPT !.grant = new]
  OBVIOUS
<1>2. /\ AccessInv /\ CallsInv /\ ApprovalsInv /\ call[s].pc = "repair" /\ Done(s)
      /\ \/ /\ Repairable(a, n) /\ grants' = Connected(n, "active")
            /\ approvals' = [approvals EXCEPT ![a].grant = new]
         \/ UNCHANGED <<grants, approvals>>
      /\ UNCHANGED <<vault, agents, project, plan, work, store, client>>
  BY <1>1 DEF CommitRepair, Unmoved, IInv, AccessInv
<1>3. n \in Agent /\ a \in Approval
  BY <1>1, <1>2 DEF CallsInv, CallFits
<1>4. Agent' = Agent /\ UNCHANGED Discoverable
  BY <1>2 DEF Agent, Discoverable
<1>5. AccessInv' /\ Grant \subseteq Grant' /\ Approval' = Approval
  <2>1. CASE UNCHANGED <<grants, approvals>>
    BY <1>2, <2>1, AccessKept DEF access, Grant, Approval
  <2>2. CASE /\ Repairable(a, n) /\ grants' = Connected(n, "active")
             /\ approvals' = [approvals EXCEPT ![a].grant = new]
    <3>1. /\ Grant' = Grant \cup {new} /\ new \in Nat
          /\ \A g \in Grant : Live(g)' => Live(g)
      BY <1>1, <1>2, <1>3, <2>2, ConnectedIs
    <3>2. approvals[a] \in ApprovalRow
      BY <1>2, <1>3, ApprovalsAre
    <3>3. /\ row \in ApprovalRow /\ row.agent = approvals[a].agent
          /\ row.legacy = approvals[a].legacy /\ row.grant = new
      BY <1>1, <3>1, <3>2 DEF ApprovalRow
    <3>4. ASSUME ~row.legacy
          PROVE  vault.status = "active" /\ agents[row.agent].epoch = vault.epoch
      <4>1. PICK g : g = approvals[a].grant
        OBVIOUS
      <4>2. g \in Grant /\ g # Unclaimed
        BY <1>2, <1>3, <3>3, <3>4, <4>1, AccessIs DEF ApprovalsInv, Unclaimed
      <4>3. Live(g)
        BY <2>2, <4>1, <4>2 DEF Repairable, Renewable, Live
      <4> QED BY <1>2, <1>3, <3>3, <3>4, <4>1, <4>3 DEF ApprovalsInv
    <3>5. approvals' = [approvals EXCEPT ![a] = row]
      BY <1>1, <2>2
    <3>6. ApprovalsInv' /\ Approval' = Approval
      BY <1>2, <1>3, <3>1, <3>3, <3>4, <3>5, ApprovalSet
    <3>7. Discoverable'
      BY <1>4, <2>2 DEF Repairable
    <3>8. AccessInv'
      BY <1>2, <1>3, <2>2, <3>6, <3>7, ConnectedInv DEF AccessInv
    <3> QED BY <3>1, <3>6, <3>8
  <2> QED BY <1>2, <2>1, <2>2
<1>6. Moves(s) /\ call'[s] = Idle
  BY <1>2, SetCall
<1>7. CallFits(s)' /\ Quiet(s)'
  BY <1>6 DEF CallFits, Quiet, Idle
<1> QED BY <1>2, <1>4, <1>5, <1>6, <1>7, AccessRequest

LEMMA SupersedeInv ==
    ASSUME IInv, NEW a \in Approval, Supersede(a) PROVE IInv'
<1>1. PICK row : row = [approvals[a] EXCEPT !.status = "expired"]
  OBVIOUS
<1>2. /\ AccessInv /\ ApprovalsInv /\ Turn
      /\ approvals' = [approvals EXCEPT ![a].status = "expired"]
      /\ UNCHANGED <<vault, agents, grants, project, plan, work, store, client>>
  BY DEF Supersede, IInv, AccessInv
<1>3. Agent' = Agent /\ Grant' = Grant /\ UNCHANGED Discoverable
      /\ \A g \in Grant : Live(g)' <=> Live(g)
  BY <1>2 DEF Agent, Grant, Discoverable, Live
<1>4. approvals[a] \in ApprovalRow
  BY <1>2, ApprovalsAre
<1>5. /\ row \in ApprovalRow /\ row.agent = approvals[a].agent
      /\ row.legacy = approvals[a].legacy /\ row.grant = approvals[a].grant
  BY <1>1, <1>4 DEF ApprovalRow
<1>6. /\ row.grant \in Grant \/ (row.legacy /\ row.grant = Unclaimed)
      /\ ~row.legacy /\ Live(row.grant) =>
            vault.status = "active" /\ agents[row.agent].epoch = vault.epoch
  BY <1>2, <1>5 DEF ApprovalsInv
<1>7. ~row.legacy => row.grant \in Grant
  BY <1>6
<1>8. approvals' = [approvals EXCEPT ![a] = row]
  BY <1>1, <1>2
<1>9. ApprovalsInv' /\ Approval' = Approval
  BY <1>2, <1>3, <1>5, <1>6, <1>7, <1>8, ApprovalSet
<1>10. AccessInv'
  BY <1>2, <1>3, <1>9 DEF AccessInv
<1> QED BY <1>2, <1>3, <1>9, <1>10, AccessTurn

LEMMA LapseInv ==
    ASSUME IInv, NEW g \in Grant, Lapse(g) PROVE IInv'
<1>1. PICK row : row = [grants[g] EXCEPT !.lapsed = TRUE]
  OBVIOUS
<1>2. /\ AccessInv /\ Turn /\ grants' = [grants EXCEPT ![g].lapsed = TRUE]
      /\ UNCHANGED <<vault, agents, approvals, project, plan, work, store, client>>
  BY DEF Lapse, IInv
<1>3. /\ Len(grants) \in Nat /\ Grant = 1..Len(grants)
      /\ grants[g] \in GrantRow /\ grants \in Seq(GrantRow)
  BY <1>2, AccessIs DEF AccessInv
<1>4. /\ row \in GrantRow /\ row.client = grants[g].client /\ row.agent = grants[g].agent
      /\ row.status = grants[g].status
  BY <1>1, <1>3 DEF GrantRow
<1>5. grants' = [grants EXCEPT ![g] = row]
  BY <1>1, <1>2
<1>6. /\ grants' \in Seq(GrantRow) /\ Len(grants') = Len(grants)
      /\ \A h \in 1..Len(grants) : grants'[h] = IF h = g THEN row ELSE grants[h]
  BY <1>3, <1>4, <1>5, ExceptSeq
<1>7. Grant' = Grant /\ Agent' = Agent /\ UNCHANGED Discoverable
  BY <1>2, <1>3, <1>6, LenProperties DEF Grant, Agent, Discoverable
<1>8. \A h \in Grant : /\ grants'[h].client = grants[h].client
                       /\ grants'[h].agent = grants[h].agent
                       /\ Live(h)' => Live(h)
  BY <1>3, <1>4, <1>6 DEF Live
<1>9. ApprovalsInv' /\ Approval' = Approval
  BY <1>2, <1>7, <1>8, ApprovalsOn DEF AccessInv
<1>10. AccessInv'
  BY <1>2, <1>6, <1>7, <1>8, <1>9 DEF AccessInv
<1> QED BY <1>2, <1>7, <1>9, <1>10, AccessTurn

LEMMA RevokeGrantInv ==
    ASSUME IInv, NEW g \in Grant, RevokeGrant(g) PROVE IInv'
<1>1. /\ AccessInv /\ Turn /\ grants' = Revoked(grants, {g})
      /\ UNCHANGED <<vault, agents, approvals, project, plan, work, store, client>>
  BY DEF RevokeGrant, IInv
<1>2. UNCHANGED Discoverable
  BY <1>1 DEF Discoverable
<1>3. AccessInv' /\ Agent' = Agent /\ Grant' = Grant /\ Approval' = Approval
  BY <1>1, <1>2, FewerGrants DEF AccessInv
<1> QED BY <1>1, <1>3, AccessTurn

\* Vault grants end together with connections.
LEMMA FewerAgents ==
    ASSUME AccessInv, NEW which, NEW gone, UNCHANGED <<approvals, project>>,
           agents' = Revoked(agents, which), grants' = Revoked(grants, gone),
           \/ UNCHANGED vault
           \/ /\ Agent \subseteq which /\ Grant \subseteq gone
              /\ vault' = [vault EXCEPT !.status = "revoked"]
    PROVE  AccessInv' /\ Agent' = Agent /\ Grant' = Grant /\ Approval' = Approval
<1>1. agents \in Seq(AgentRow) /\ grants \in Seq(GrantRow)
  BY DEF AccessInv
<1>2. /\ agents' \in Seq(AgentRow) /\ Agent' = Agent
      /\ \A n \in Agent : /\ agents'[n].client = agents[n].client
                          /\ agents'[n].epoch = agents[n].epoch
                          /\ agents'[n].status \in {agents[n].status, "revoked"}
                          /\ n \in which => agents'[n].status = "revoked"
  BY <1>1, RevokedAgents DEF Agent
<1>3. /\ grants' \in Seq(GrantRow) /\ Grant' = Grant
      /\ \A g \in Grant : /\ grants'[g].client = grants[g].client
                          /\ grants'[g].agent = grants[g].agent
                          /\ grants'[g].status \in {grants[g].status, "revoked"}
                          /\ g \in gone => grants'[g].status = "revoked"
  BY <1>1, RevokedGrants DEF Grant
<1>4. \A g \in Grant : Live(g)' => Live(g) /\ g \notin gone
  BY <1>3 DEF Live
<1>5. UNCHANGED Discoverable
  BY DEF Discoverable
<1>6. vault' \in [status : {"active", "revoked"}, epoch : 1..MaxEpoch]
  BY DEF AccessInv
<1>7. \A n \in Agent : agents'[n].status # "revoked" =>
         agents[n].status # "revoked" /\ vault' = vault
  BY <1>2
<1>8. \A n \in Agent' : agents'[n].status # "revoked" =>
         vault'.status = "active" /\ agents'[n].epoch = vault'.epoch
  BY <1>2, <1>7 DEF AccessInv
<1>9. \A m, n \in Agent' :
         (/\ agents'[m].status = "active" /\ agents'[n].status = "active"
          /\ agents'[m].client = agents'[n].client) => m = n
  BY <1>2 DEF AccessInv
<1>10. \A g, h \in Grant' :
          Live(g)' /\ Live(h)' /\ grants'[g].client = grants'[h].client => g = h
  BY <1>3, <1>4 DEF AccessInv
<1>11. \A g \in Grant' : grants'[g].agent \in Agent'
  BY <1>2, <1>3 DEF AccessInv
<1>12. Discoverable' \/ \A g \in Grant' : ~Live(g)'
  BY <1>3, <1>4, <1>5 DEF AccessInv
<1>13. project' \in [status : {"active", "archived"}, visible : BOOLEAN, open : BOOLEAN]
  BY DEF AccessInv
<1>14. ApprovalsInv' /\ Approval' = Approval
  BY <1>2, <1>3, <1>4, ApprovalsOn DEF AccessInv
<1>15. AccessInv'
  BY <1>2, <1>3, <1>6, <1>8, <1>9, <1>10, <1>11, <1>12, <1>13, <1>14 DEF AccessInv
<1> QED BY <1>2, <1>3, <1>14, <1>15

LEMMA RevokeAgentInv ==
    ASSUME IInv, NEW n \in Agent, RevokeAgent(n) PROVE IInv'
<1>1. PICK gone : gone = From({n})
  OBVIOUS
<1>2. /\ AccessInv /\ Turn
      /\ agents' = Revoked(agents, {n}) /\ grants' = Revoked(grants, gone)
      /\ UNCHANGED <<vault, approvals, project, plan, work, store, client>>
  BY <1>1 DEF RevokeAgent, IInv
<1>3. AccessInv' /\ Agent' = Agent /\ Grant' = Grant /\ Approval' = Approval
  BY <1>2, FewerAgents
<1> QED BY <1>2, <1>3, AccessTurn

LEMMA RevokeVaultInv == IInv /\ RevokeVault => IInv'
<1> SUFFICES ASSUME IInv, RevokeVault PROVE IInv'
  OBVIOUS
<1>1. PICK which, gone : which = Agent /\ gone = From(Agent)
  OBVIOUS
<1>2. /\ AccessInv /\ Turn /\ vault' = [vault EXCEPT !.status = "revoked"]
      /\ agents' = Revoked(agents, which) /\ grants' = Revoked(grants, gone)
      /\ UNCHANGED <<approvals, project, plan, work, store, client>>
  BY <1>1 DEF RevokeVault, OfVault, IInv
<1>3. Grant \subseteq gone
  BY <1>1, <1>2 DEF AccessInv, From
<1>4. AccessInv' /\ Agent' = Agent /\ Grant' = Grant /\ Approval' = Approval
  BY <1>1, <1>2, <1>3, FewerAgents
<1> QED BY <1>2, <1>4, AccessTurn

LEMMA BeginRevokeAllInv ==
    ASSUME IInv, NEW s \in Slot, BeginRevokeAll(s) PROVE IInv'
<1>1. PICK which, gone : which = Agent /\ gone = From({n \in Agent : agents[n].status # "revoked"})
  OBVIOUS
<1>2. /\ AccessInv /\ CallsInv /\ Begin(s, [pc |-> "revoke"])
      /\ agents' = Revoked(agents, which) /\ grants' = Revoked(grants, gone)
      /\ UNCHANGED <<vault, approvals, project, plan, work, store, client>>
  BY <1>1 DEF BeginRevokeAll, IInv
<1>3. AccessInv' /\ Agent' = Agent /\ Grant' = Grant /\ Approval' = Approval
  BY <1>2, FewerAgents
<1>4. Moves(s) /\ call'[s] = [pc |-> "revoke"]
  BY <1>2, SetCall
<1>5. CallFits(s)' /\ Quiet(s)'
  BY <1>4 DEF CallFits, Quiet
<1> QED BY <1>2, <1>3, <1>4, <1>5, AccessRequest

LEMMA RevokeConnectionsInv ==
    ASSUME IInv, NEW s \in Slot, RevokeConnections(s) PROVE IInv'
<1>1. PICK which : which = Grant
  OBVIOUS
<1>2. /\ AccessInv /\ CallsInv /\ (Begin(s, Idle) \/ Done(s))
      /\ grants' = Revoked(grants, which)
      /\ UNCHANGED <<vault, agents, approvals, project, plan, work, store, client>>
  BY <1>1 DEF RevokeConnections, IInv
<1>3. UNCHANGED Discoverable
  BY <1>2 DEF Discoverable
<1>4. AccessInv' /\ Agent' = Agent /\ Grant' = Grant /\ Approval' = Approval
  BY <1>2, <1>3, FewerGrants DEF AccessInv
<1>5. Moves(s) /\ call'[s] = Idle
  BY <1>2, SetCall
<1>6. CallFits(s)' /\ Quiet(s)'
  BY <1>5 DEF CallFits, Quiet, Idle
<1> QED BY <1>2, <1>4, <1>5, <1>6, AccessRequest

LEMMA PairInv == IInv /\ Pair => IInv'
<1> SUFFICES ASSUME IInv, Pair PROVE IInv'
  OBVIOUS
<1>1. /\ AccessInv /\ Turn /\ vault.status = "revoked" /\ vault.epoch < MaxEpoch
      /\ vault' = [status |-> "active", epoch |-> vault.epoch + 1]
      /\ UNCHANGED <<agents, grants, approvals, project, plan, work, store, client>>
  BY DEF Pair, IInv
<1>2. Agent' = Agent /\ Grant' = Grant /\ UNCHANGED Discoverable
      /\ \A g \in Grant : Live(g)' <=> Live(g)
  BY <1>1 DEF Agent, Grant, Discoverable, Live
<1>3. MaxEpoch \in Nat /\ vault.epoch \in 1..MaxEpoch
  BY <1>1, CollaborationAssumption DEF CollaborationAssumption, AccessInv
<1>4. vault.epoch + 1 \in 1..MaxEpoch
  BY <1>1, <1>3
<1>5. vault' \in [status : {"active", "revoked"}, epoch : 1..MaxEpoch]
  BY <1>1, <1>4
<1>6. \A n \in Agent : agents[n].status = "revoked"
  BY <1>1 DEF AccessInv
<1>7. ApprovalsInv' /\ Approval' = Approval
  BY <1>1, <1>2, ApprovalsOn DEF AccessInv
<1>8. AccessInv'
  BY <1>1, <1>2, <1>5, <1>6, <1>7 DEF AccessInv
<1> QED BY <1>1, <1>2, <1>7, <1>8, AccessTurn

\* Connections all end when the project is archived or hidden.
LEMMA ProjectTurn ==
    ASSUME IInv, Turn, grants' = grants \/ grants' = Revoked(grants, Grant),
           Discoverable => Discoverable' \/ grants' = Revoked(grants, Grant),
           project' \in [status : {"active", "archived"}, visible : BOOLEAN, open : BOOLEAN],
           UNCHANGED <<vault, agents, approvals, plan, work, store, client>>
    PROVE  IInv'
<1>1. AccessInv
  BY DEF IInv
<1>2. CASE grants' = Revoked(grants, Grant)
  <2>1. PICK which : which = Grant
    OBVIOUS
  <2>2. AccessInv' /\ Agent' = Agent /\ Grant' = Grant /\ Approval' = Approval
    BY <1>1, <1>2, <2>1, FewerGrants
  <2> QED BY <2>2, AccessTurn
<1>3. CASE grants' = grants /\ (Discoverable => Discoverable')
  <2>1. Agent' = Agent /\ Grant' = Grant /\ \A g \in Grant : Live(g)' <=> Live(g)
    BY <1>3 DEF Agent, Grant, Live
  <2>2. ApprovalsInv' /\ Approval' = Approval
    BY <1>1, <2>1, ApprovalsOn DEF AccessInv
  <2>3. AccessInv'
    BY <1>1, <1>3, <2>1, <2>2 DEF AccessInv
  <2> QED BY <2>1, <2>2, <2>3, AccessTurn
<1> QED BY <1>2, <1>3

LEMMA SetArchivedInv ==
    ASSUME IInv, NEW archived \in BOOLEAN, SetArchived(archived) PROVE IInv'
<1>1. /\ project \in [status : {"active", "archived"}, visible : BOOLEAN, open : BOOLEAN]
      /\ project' = [project EXCEPT !.status = IF archived THEN "archived" ELSE "active"]
      /\ grants' = (IF archived THEN Revoked(grants, Grant) ELSE grants)
      /\ Turn /\ UNCHANGED <<vault, agents, approvals, plan, work, store, client>>
  BY DEF SetArchived, IInv, AccessInv
<1>2. project' \in [status : {"active", "archived"}, visible : BOOLEAN, open : BOOLEAN]
  BY <1>1
<1>3. ~archived => project'.status = "active" /\ project'.visible = project.visible
  BY <1>1
<1>4. Discoverable => Discoverable' \/ grants' = Revoked(grants, Grant)
  BY <1>1, <1>3 DEF Discoverable
<1> QED BY <1>1, <1>2, <1>4, ProjectTurn

LEMMA SetVisibleInv ==
    ASSUME IInv, NEW visible \in BOOLEAN, SetVisible(visible) PROVE IInv'
<1>1. /\ project \in [status : {"active", "archived"}, visible : BOOLEAN, open : BOOLEAN]
      /\ project' = [project EXCEPT !.visible = visible]
      /\ grants' = (IF visible THEN grants ELSE Revoked(grants, Grant))
      /\ Turn /\ UNCHANGED <<vault, agents, approvals, plan, work, store, client>>
  BY DEF SetVisible, IInv, AccessInv
<1>2. project' \in [status : {"active", "archived"}, visible : BOOLEAN, open : BOOLEAN]
  BY <1>1
<1>3. visible => project'.status = project.status /\ project'.visible
  BY <1>1
<1>4. Discoverable => Discoverable' \/ grants' = Revoked(grants, Grant)
  BY <1>1, <1>3 DEF Discoverable
<1> QED BY <1>1, <1>2, <1>4, ProjectTurn

LEMMA SetOpenInv ==
    ASSUME IInv, NEW open \in BOOLEAN, SetOpen(open) PROVE IInv'
<1>1. /\ project \in [status : {"active", "archived"}, visible : BOOLEAN, open : BOOLEAN]
      /\ project' = [project EXCEPT !.open = open] /\ grants' = grants
      /\ Turn /\ UNCHANGED <<vault, agents, approvals, plan, work, store, client>>
  BY DEF SetOpen, IInv, AccessInv, access
<1>2. project' \in [status : {"active", "archived"}, visible : BOOLEAN, open : BOOLEAN]
      /\ project'.status = project.status /\ project'.visible = project.visible
  BY <1>1
<1>3. Discoverable => Discoverable'
  BY <1>2 DEF Discoverable
<1> QED BY <1>1, <1>2, <1>3, ProjectTurn

-----------------------------------------------------------------------------
(* Requests and their bodies *)

\* A request comes in, goes on or ends, and writes nothing.
LEMMA CallOnly ==
    ASSUME IInv, NEW s \in Slot, Moves(s), CallFits(s)', Quiet(s)',
           UNCHANGED <<access, project, plan, work, store, client>>
    PROVE  IInv'
<1>1. AccessInv'
  BY AccessKept DEF IInv
<1>2. Agent' = Agent /\ Grant' = Grant /\ Approval' = Approval
  BY DEF access, Agent, Grant, Approval
<1> QED BY <1>1, <1>2, AccessRequest

LEMMA AbandonInv ==
    ASSUME IInv, NEW s \in Slot, Abandon(s) PROVE IInv'
<1>1. /\ Done(s) /\ CallsInv /\ UNCHANGED <<access, project, plan, work, store, client>>
  BY DEF Abandon, IInv
<1>2. Moves(s) /\ call'[s] = Idle
  BY <1>1, SetCall
<1>3. CallFits(s)' /\ Quiet(s)'
  BY <1>2 DEF CallFits, Quiet, Idle
<1> QED BY <1>1, <1>2, <1>3, CallOnly

\* A request puts a new body: nobody knows its identity yet.
LEMMA StorePut ==
    ASSUME StoreInv, NEW s \in Slot, Moves(s), UNCHANGED <<queue, versions, packets, records>>,
           bodies' = bodies + 1, objects' = objects \cup {Body(bodies + 1)},
           call'[s].pc \in {"brief", "rotate"}, call'[s].body = bodies + 1
    PROVE  StoreInv'
<1>1. Named' = Named
  BY NamedSame
<1>2. bodies \in Nat /\ bodies + 1 \in Nat /\ bodies + 1 \in 1..(bodies + 1)
  BY DEF StoreInv
<1>3. \A i \in 1..bodies : i \in 1..(bodies + 1) /\ i # bodies + 1
  BY <1>2
<1>4. BodiesUpTo(bodies) \subseteq BodiesUpTo(bodies + 1)
      /\ Body(bodies + 1) \notin BodiesUpTo(bodies)
  BY <1>3, OneName DEF BodiesUpTo
<1>5. \A t \in Slot : t # s => call'[t] = call[t]
  BY DEF Moves
<1>6. Body(bodies + 1) \notin queue
  BY <1>4 DEF StoreInv
<1>7. \A t \in Slot : t # s => (Holding(t)' <=> Holding(t))
  BY <1>5 DEF Holding
<1>8. ASSUME NEW t \in Slot, Holding(t)'
      PROVE  call'[t].body \in 1..bodies' /\ Body(call'[t].body) \in objects' \ queue'
  <2>1. CASE t = s
    BY <1>2, <1>6, <2>1
  <2>2. CASE t # s
    BY <1>3, <1>5, <1>7, <1>8, <2>2 DEF StoreInv
  <2> QED BY <2>1, <2>2
<1>9. \A t \in Slot : t # s /\ Holding(t)' => call'[t].body # bodies + 1
  BY <1>3, <1>5, <1>7 DEF StoreInv
<1>10. ASSUME NEW t \in Slot, NEW u \in Slot, Holding(t)', Holding(u)',
              call'[t].body = call'[u].body
       PROVE  t = u
  <2>1. CASE t = s \/ u = s
    BY <1>9, <1>10, <2>1
  <2>2. CASE t # s /\ u # s
    BY <1>5, <1>7, <1>10, <2>2 DEF StoreInv
  <2> QED BY <2>1, <2>2
<1>11. ASSUME NEW t \in Slot, call'[t].pc = "collect"
       PROVE  /\ call'[t].garbage \in SUBSET BodiesUpTo(bodies')
              /\ \A o \in call'[t].garbage :
                    o \notin Named' /\ \A u \in Slot : Holding(u)' => o # Body(call'[u].body)
  <2>1. t # s /\ call'[t] = call[t]
    BY <1>5, <1>11
  <2>2. call[t].garbage \in SUBSET BodiesUpTo(bodies) /\ Body(bodies + 1) \notin call[t].garbage
    BY <1>4, <1>11, <2>1 DEF StoreInv
  <2>3. ASSUME NEW o \in call[t].garbage, NEW u \in Slot, Holding(u)'
        PROVE  o # Body(call'[u].body)
    <3>1. CASE u = s
      BY <2>2, <2>3, <3>1
    <3>2. CASE u # s
      BY <1>5, <1>7, <1>11, <2>1, <2>3, <3>2 DEF StoreInv
    <3> QED BY <3>1, <3>2
  <2> QED BY <1>1, <1>4, <1>11, <2>1, <2>2, <2>3 DEF StoreInv
<1>12. \A t \in Slot : call'[t].pc = "submit" => ContentOf(call'[t].id) \in objects'
  BY <1>5 DEF StoreInv
<1>13. BodiesKept'
  BY <1>1 DEF StoreInv, BodiesKept
<1> QED BY <1>2, <1>4, <1>8, <1>10, <1>11, <1>12, <1>13 DEF StoreInv, BodiesUpTo

\* The batch of a request that holds a body: the body may be named, may be
\* queued, or both when the batch seemed to fail.
LEMMA StoreCommit ==
    ASSUME StoreInv, NEW s \in Slot, Moves(s), call'[s] = Idle, Holding(s),
           UNCHANGED <<objects, bodies>>,
           queue' \subseteq queue \cup {Body(call[s].body)},
           Named' \subseteq Named \cup {Body(call[s].body)}
    PROVE  StoreInv'
<1>1. PICK b : b = call[s].body
  OBVIOUS
<1>2. b \in 1..bodies /\ Body(b) \in objects
  BY <1>1 DEF StoreInv
<1>3. \A t \in Slot : t # s => call'[t] = call[t]
  BY DEF Moves
<1>4. call'[s].pc = "idle" /\ ~Holding(s)'
  BY DEF Idle, Holding
<1>5. \A t \in Slot : Holding(t)' => t # s /\ Holding(t) /\ call'[t] = call[t]
  BY <1>3, <1>4 DEF Holding
<1>6. \A t \in Slot : Holding(t)' => call[t].body # b
  BY <1>1, <1>5 DEF StoreInv
<1>7. queue' \in SUBSET BodiesUpTo(bodies')
  BY <1>1, <1>2 DEF StoreInv, BodiesUpTo
<1>8. \A t \in Slot : Holding(t)' =>
         call'[t].body \in 1..bodies' /\ Body(call'[t].body) \in objects' \ queue'
  BY <1>1, <1>5, <1>6, OneName DEF StoreInv
<1>9. \A t, u \in Slot : Holding(t)' /\ Holding(u)' /\ call'[t].body = call'[u].body => t = u
  BY <1>5 DEF StoreInv
<1>10. ASSUME NEW t \in Slot, call'[t].pc = "collect"
       PROVE  /\ call'[t].garbage \in SUBSET BodiesUpTo(bodies')
              /\ \A o \in call'[t].garbage :
                    o \notin Named' /\ \A u \in Slot : Holding(u)' => o # Body(call'[u].body)
  <2>1. call'[t] = call[t]
    BY <1>3, <1>4, <1>10
  <2>2. Body(b) \notin call[t].garbage
    BY <1>1, <1>10, <2>1 DEF StoreInv
  <2> QED BY <1>1, <1>5, <1>10, <2>1, <2>2 DEF StoreInv, BodiesUpTo
<1>11. \A t \in Slot : call'[t].pc = "submit" => ContentOf(call'[t].id) \in objects'
  BY <1>3, <1>4 DEF StoreInv
<1>12. BodiesKept'
  BY <1>1, <1>2 DEF StoreInv, BodiesKept
<1>13. bodies' \in Nat
  BY DEF StoreInv
<1> QED BY <1>7, <1>8, <1>9, <1>10, <1>11, <1>12, <1>13 DEF StoreInv

\* A submission puts its content, which is no body.
LEMMA StoreSubmit ==
    ASSUME StoreInv, NEW s \in Slot, Moves(s),
           UNCHANGED <<queue, bodies, versions, packets, records>>,
           call'[s].pc = "submit", objects' = objects \cup {ContentOf(call'[s].id)}
    PROVE  StoreInv'
<1>1. Named' = Named
  BY NamedSame
<1>2. \A t \in Slot : t # s => call'[t] = call[t]
  BY DEF Moves
<1>3. \A t \in Slot : Holding(t)' => Holding(t) /\ call'[t] = call[t]
  BY <1>2 DEF Holding
<1>4. \A t \in Slot : call'[t].pc = "collect" => call'[t] = call[t]
  BY <1>2
<1>5. \A t \in Slot : call'[t].pc = "submit" => ContentOf(call'[t].id) \in objects'
  BY <1>2 DEF StoreInv
<1>6. BodiesKept'
  BY <1>1 DEF StoreInv, BodiesKept
<1>7. \A t \in Slot : Holding(t)' =>
          call'[t].body \in 1..bodies' /\ Body(call'[t].body) \in objects' \ queue'
  BY <1>3 DEF StoreInv
<1>8. \A t, u \in Slot : Holding(t)' /\ Holding(u)' /\ call'[t].body = call'[u].body => t = u
  BY <1>3 DEF StoreInv
<1>9. \A t \in Slot : call'[t].pc = "collect" =>
         /\ call'[t].garbage \in SUBSET BodiesUpTo(bodies')
         /\ \A o \in call'[t].garbage :
               o \notin Named' /\ \A u \in Slot : Holding(u)' => o # Body(call'[u].body)
  BY <1>1, <1>3, <1>4 DEF StoreInv, BodiesUpTo
<1> QED BY <1>5, <1>6, <1>7, <1>8, <1>9 DEF StoreInv, BodiesUpTo

LEMMA BeginCollectionInv ==
    ASSUME IInv, NEW s \in Slot, BeginCollection(s) PROVE IInv'
<1>1. /\ AccessInv /\ VersionsInv /\ PacketsInv /\ RecordsInv /\ CallsInv /\ StoreInv
      /\ Begin(s, [pc |-> "collect", garbage |-> queue \ Named, kept |-> queue \cap Named])
      /\ UNCHANGED <<access, project, plan, work, store, client>>
  BY DEF BeginCollection, IInv
<1>2. PICK garbage : garbage = queue \ Named
  OBVIOUS
<1>3. Moves(s) /\ call'[s] = [pc |-> "collect", garbage |-> garbage, kept |-> queue \cap Named]
  BY <1>1, <1>2, SetCall
<1>4. CallFits(s)'
  BY <1>3 DEF CallFits
<1>5. UNCHANGED <<versions, active, packets, records, agents, grants, approvals, events, sent>>
  BY <1>1 DEF plan, work, access, client
<1>6. Onward
  BY <1>1, <1>5, OnwardPlain
<1>7. AccessInv' /\ VersionsInv' /\ PacketsInv' /\ RecordsInv' /\ CallsInv'
  BY <1>1, <1>3, <1>4, <1>5, <1>6, AccessKept, VersionsKept, PacketsKept, RecordsKept, OneCall
<1>8. Named' = Named
  BY <1>5, NamedSame
<1>9. \A t \in Slot : t # s => call'[t] = call[t]
  BY <1>3 DEF Moves
<1>10. \A t \in Slot : Holding(t)' => Holding(t) /\ call'[t] = call[t]
  BY <1>3, <1>9 DEF Holding
<1>11. UNCHANGED <<objects, queue, bodies>>
  BY <1>1 DEF store
<1>12. ASSUME NEW t \in Slot, call'[t].pc = "collect"
       PROVE  /\ call'[t].garbage \in SUBSET BodiesUpTo(bodies')
              /\ \A o \in call'[t].garbage :
                    o \notin Named' /\ \A u \in Slot : Holding(u)' => o # Body(call'[u].body)
  <2>1. CASE t = s
    BY <1>1, <1>2, <1>3, <1>8, <1>10, <1>11, <2>1 DEF StoreInv
  <2>2. CASE t # s
    BY <1>1, <1>8, <1>9, <1>10, <1>11, <1>12, <2>2 DEF StoreInv
  <2> QED BY <2>1, <2>2
<1>13. \A t \in Slot : call'[t].pc = "submit" => ContentOf(call'[t].id) \in objects'
  BY <1>1, <1>3, <1>9, <1>11 DEF StoreInv
<1>14. BodiesKept'
  BY <1>1, <1>8, <1>11 DEF StoreInv, BodiesKept
<1>15. \A t \in Slot : Holding(t)' =>
          call'[t].body \in 1..bodies' /\ Body(call'[t].body) \in objects' \ queue'
  BY <1>1, <1>10, <1>11 DEF StoreInv
<1>16. \A t, u \in Slot : Holding(t)' /\ Holding(u)' /\ call'[t].body = call'[u].body => t = u
  BY <1>1, <1>10 DEF StoreInv
<1>17. StoreInv'
  BY <1>1, <1>11, <1>12, <1>13, <1>14, <1>15, <1>16 DEF StoreInv, BodiesUpTo
<1> QED BY <1>7, <1>17 DEF IInv

LEMMA CollectInv ==
    ASSUME IInv, NEW s \in Slot, NEW erased, NEW finished \in BOOLEAN, Collect(s, erased, finished)
    PROVE  IInv'
<1>1. /\ AccessInv /\ VersionsInv /\ PacketsInv /\ RecordsInv /\ CallsInv /\ StoreInv
      /\ call[s].pc = "collect" /\ erased \subseteq call[s].garbage /\ Done(s)
      /\ objects' = objects \ erased /\ queue' \subseteq queue /\ UNCHANGED bodies
      /\ UNCHANGED <<access, project, plan, work, client>>
  BY DEF Collect, IInv
<1>3. Moves(s) /\ call'[s] = Idle /\ call'[s].pc = "idle"
  BY <1>1, SetCall DEF Idle
<1>4. CallFits(s)'
  BY <1>3 DEF CallFits
<1>5. UNCHANGED <<versions, active, packets, records, agents, grants, approvals, events, sent>>
  BY <1>1 DEF plan, work, access, client
<1>6. Onward
  BY <1>1, <1>5, OnwardPlain
<1>7. AccessInv' /\ VersionsInv' /\ PacketsInv' /\ RecordsInv' /\ CallsInv'
  BY <1>1, <1>3, <1>4, <1>5, <1>6, AccessKept, VersionsKept, PacketsKept, RecordsKept, OneCall
<1>8. Named' = Named
  BY <1>5, NamedSame
<1>9. \A t \in Slot : t # s => call'[t] = call[t]
  BY <1>3 DEF Moves
<1>10. \A t \in Slot : Holding(t)' => Holding(t) /\ call'[t] = call[t]
  BY <1>3, <1>9 DEF Holding
<1>11. /\ \A o \in erased : o \notin Named
       /\ \A t \in Slot : Holding(t) => Body(call[t].body) \notin erased
  BY <1>1 DEF StoreInv
<1>12. \A id : ContentOf(id) \notin erased
  <2>1. erased \subseteq BodiesUpTo(bodies)
    BY <1>1 DEF StoreInv
  <2> QED BY <2>1, TwoNames DEF BodiesUpTo
<1>13. \A t \in Slot : call'[t].pc = "submit" => ContentOf(call'[t].id) \in objects'
  BY <1>1, <1>3, <1>9, <1>12 DEF StoreInv
<1>14. BodiesKept'
  BY <1>1, <1>8, <1>11 DEF StoreInv, BodiesKept
<1>15. \A t \in Slot : Holding(t)' =>
          call'[t].body \in 1..bodies' /\ Body(call'[t].body) \in objects' \ queue'
  BY <1>1, <1>10, <1>11 DEF StoreInv
<1>16. \A t, u \in Slot : Holding(t)' /\ Holding(u)' /\ call'[t].body = call'[u].body => t = u
  BY <1>1, <1>10 DEF StoreInv
<1>17. \A t \in Slot : call'[t].pc = "collect" =>
          /\ call'[t].garbage \in SUBSET BodiesUpTo(bodies')
          /\ \A o \in call'[t].garbage :
                o \notin Named' /\ \A u \in Slot : Holding(u)' => o # Body(call'[u].body)
  BY <1>1, <1>3, <1>8, <1>9, <1>10 DEF StoreInv, BodiesUpTo
<1>18. StoreInv'
  BY <1>1, <1>13, <1>14, <1>15, <1>16, <1>17 DEF StoreInv, BodiesUpTo
<1> QED BY <1>7, <1>18 DEF IInv

-----------------------------------------------------------------------------
(* The brief *)

LEMMA BeginBriefInv ==
    ASSUME IInv, NEW s \in Slot, NEW kinds \in SUBSET Kind, BeginBrief(s, kinds) PROVE IInv'
<1>1. /\ AccessInv /\ VersionsInv /\ PacketsInv /\ RecordsInv /\ CallsInv /\ StoreInv
      /\ bodies' = bodies + 1 /\ objects' = objects \cup {Body(bodies + 1)}
      /\ Begin(s, [pc |-> "brief", kinds |-> kinds, expected |-> active, body |-> bodies + 1])
      /\ UNCHANGED <<access, project, plan, work, queue, client>>
  BY DEF BeginBrief, IInv
<1>2. Moves(s) /\ call'[s] = [pc |-> "brief", kinds |-> kinds, expected |-> active,
                              body |-> bodies + 1]
  BY <1>1, SetCall
<1>3. CallFits(s)'
  BY <1>2 DEF CallFits
<1>4. UNCHANGED <<versions, active, packets, records, agents, grants, approvals, events, sent, queue>>
  BY <1>1 DEF plan, work, access, client
<1>5. Onward
  BY <1>1, <1>4, OnwardPlain
<1>6. AccessInv' /\ VersionsInv' /\ PacketsInv' /\ RecordsInv' /\ CallsInv'
  BY <1>1, <1>2, <1>3, <1>4, <1>5, AccessKept, VersionsKept, PacketsKept, RecordsKept, OneCall
<1>7. StoreInv'
  BY <1>1, <1>2, <1>4, StorePut
<1> QED BY <1>6, <1>7 DEF IInv

\* New versions of distinct kinds that succeed the active ones.
LEMMA History ==
    ASSUME VersionsInv, NEW made \in SUBSET Kind, versions' \in Seq(VersionRow),
           Version \subseteq Version', \A v \in Version : versions'[v] = versions[v],
           \A v \in Version' \ Version :
              /\ versions'[v].kind \in made
              /\ versions'[v].prev = active[versions'[v].kind],
           \A v, w \in Version' \ Version : versions'[v].kind = versions'[w].kind => v = w,
           active' \in [Kind -> Version'],
           \A k \in made : active'[k] \in Version' \ Version /\ versions'[active'[k]].kind = k,
           \A k \in Kind \ made : active'[k] = active[k]
    PROVE  VersionsInv'
<1> DEFINE New == Version' \ Version
<1>1. Len(versions) \in Nat /\ Version = 1..Len(versions)
      /\ Len(versions') \in Nat /\ Version' = 1..Len(versions')
  BY LenProperties DEF VersionsInv, Version
<1>0. \A v \in Version : versions[v] \in VersionRow
  <2>1. versions \in Seq(VersionRow)
    BY DEF VersionsInv
  <2> QED BY <1>1, <2>1, LenProperties
<1>2. \A v \in New, w \in Version : w < v /\ v # 0 /\ w # 0 /\ v # w
  BY <1>1
<1>3. \A k \in Kind : active[k] \in Version /\ versions[active[k]].kind = k
  BY DEF VersionsInv
<1>4. \A v \in New : /\ versions'[v].kind \in Kind /\ versions'[v].prev \in Version
                     /\ versions'[v].prev # 0
                     /\ versions[versions'[v].prev].kind = versions'[v].kind
  BY <1>1, <1>3
<1>5. \A v \in Version' : v \in Version \/ v \in New
  OBVIOUS
<1>6. \A w \in Version : versions[w].prev # 0 => versions[w].prev \in Version
  <2>1. ASSUME NEW w \in Version, versions[w].prev # 0 PROVE versions[w].prev \in Version
    <3>1. versions[w].prev \in Nat /\ versions[w].prev < w
      BY <1>1, <1>0, <2>1 DEF VersionsInv, VersionRow
    <3> QED BY <1>1, <2>1, <3>1
  <2> QED BY <2>1
<1> HIDE DEF New
<1>7. \A k \in Kind : versions'[active'[k]].kind = k
  BY <1>3
<1>8. ASSUME NEW k \in Kind, NEW w \in Version' PROVE versions'[w].prev # active'[k]
  <2>1. CASE k \in made
    <3>1. active'[k] \in New
      BY <2>1 DEF New
    <3>2. CASE w \in New
      BY <1>2, <1>4, <3>1, <3>2
    <3>3. CASE w \in Version
      BY <1>2, <1>6, <3>1, <3>3
    <3> QED BY <1>5, <3>2, <3>3
  <2>2. CASE k \notin made
    <3>1. active'[k] = active[k]
      BY <2>2
    <3>2. CASE w \in New
      BY <1>3, <2>2, <3>1, <3>2 DEF New
    <3>3. CASE w \in Version
      BY <3>1, <3>3 DEF VersionsInv
    <3> QED BY <1>5, <3>2, <3>3
  <2> QED BY <2>1, <2>2
<1>9. ASSUME NEW v \in Version', NEW w \in Version',
             versions'[v].prev = versions'[w].prev, versions'[v].prev # 0
      PROVE  v = w
  <2>1. CASE v \in Version /\ w \in Version
    BY <1>9, <2>1 DEF VersionsInv
  <2>2. CASE v \in New /\ w \in New
    <3>1. versions'[v].kind = versions'[w].kind
      BY <1>3, <1>4, <1>9, <2>2 DEF New
    <3> QED BY <2>2, <3>1 DEF New
  <2>3. CASE v \in New /\ w \in Version
    <3>1. versions'[v].prev = active[versions'[v].kind] /\ versions'[v].kind \in Kind
      BY <2>3 DEF New
    <3>2. versions[w].prev = active[versions'[v].kind]
      BY <1>9, <2>3, <3>1
    <3> QED BY <2>3, <3>1, <3>2 DEF VersionsInv
  <2>4. CASE v \in Version /\ w \in New
    <3>1. versions'[w].prev = active[versions'[w].kind] /\ versions'[w].kind \in Kind
      BY <2>4 DEF New
    <3>2. versions[v].prev = active[versions'[w].kind]
      BY <1>9, <2>4, <3>1
    <3> QED BY <2>4, <3>1, <3>2 DEF VersionsInv
  <2> QED BY <1>5, <2>1, <2>2, <2>3, <2>4
<1>10. ASSUME NEW w \in Version', versions'[w].prev # 0
       PROVE  versions'[w].prev < w /\ versions'[versions'[w].prev].kind = versions'[w].kind
  <2>1. CASE w \in Version
    BY <1>6, <1>10, <2>1 DEF VersionsInv
  <2>2. CASE w \in New
    BY <1>2, <1>4, <2>2
  <2> QED BY <1>5, <2>1, <2>2
<1>11. ASSUME NEW v \in Version', \A w \in Version' : versions'[w].prev # v
       PROVE  active'[versions'[v].kind] = v
  <2>1. CASE v \in New
    BY <2>1 DEF New
  <2>2. CASE v \in Version
    <3>1. versions[v].kind \in Kind /\ active[versions[v].kind] = v
      <4>1. \A w \in Version : versions[w].prev # v
        BY <1>11
      <4>2. versions[v].kind \in Kind
        BY <1>0, <2>2 DEF VersionRow
      <4> QED BY <2>2, <4>1, <4>2 DEF VersionsInv
    <3>2. versions[v].kind \notin made
      <4>1. SUFFICES ASSUME versions[v].kind \in made PROVE FALSE
        OBVIOUS
      <4>2. active'[versions[v].kind] \in New
            /\ versions'[active'[versions[v].kind]].kind = versions[v].kind
        BY <4>1 DEF New
      <4>3. versions'[active'[versions[v].kind]].prev = v
        BY <3>1, <4>2 DEF New
      <4> QED BY <1>11, <4>2, <4>3 DEF New
    <3> QED BY <2>2, <3>1, <3>2
  <2> QED BY <1>5, <2>1, <2>2
<1> QED BY <1>7, <1>8, <1>9, <1>10, <1>11 DEF VersionsInv

\* The row of a kind, if it is made, comes last.
LEMMA Added ==
    ASSUME NEW seq \in Seq(VersionRow), NEW made, NEW k, NEW row \in VersionRow, NEW q,
           q = IF k \in made THEN Append(seq, row) ELSE seq
    PROVE  /\ q \in Seq(VersionRow) /\ DOMAIN seq \subseteq DOMAIN q
           /\ Len(q) \in {Len(seq), Len(seq) + 1}
           /\ \A i \in DOMAIN seq : q[i] = seq[i]
           /\ \A i \in DOMAIN q \ DOMAIN seq : k \in made /\ i = Len(seq) + 1 /\ q[i] = row
           /\ k \in made => Len(seq) + 1 \in DOMAIN q \ DOMAIN seq /\ q[Len(seq) + 1] = row
<1>1. Len(seq) \in Nat /\ DOMAIN seq = 1..Len(seq)
  BY LenProperties
<1>2. CASE k \in made
  <2>1. q = Append(seq, row)
    BY <1>2
  <2>2. /\ q \in Seq(VersionRow) /\ Len(q) = Len(seq) + 1
        /\ \A i \in 1..Len(seq) : q[i] = seq[i]
        /\ q[Len(seq) + 1] = row
    BY <2>1, AppendProperties
  <2>3. DOMAIN q = 1..(Len(seq) + 1)
    BY <2>2, LenProperties
  <2> QED BY <1>1, <1>2, <2>2, <2>3
<1>3. CASE k \notin made
  BY <1>1, <1>3
<1> QED BY <1>2, <1>3

LEMMA CommitBriefInv ==
    ASSUME IInv, NEW s \in Slot, NEW lost \in BOOLEAN, CommitBrief(s, lost) PROVE IInv'
<1>1. PICK made, e, b : made = call[s].kinds /\ e = call[s].expected /\ b = call[s].body
  OBVIOUS
<1>2. /\ AccessInv /\ VersionsInv /\ PacketsInv /\ RecordsInv /\ CallsInv /\ StoreInv
      /\ call[s].pc = "brief" /\ call' = [call EXCEPT ![s] = Idle]
      /\ queue' \subseteq queue \cup {Body(b)}
      /\ UNCHANGED <<access, project, packets, work, objects, bodies, client>>
  BY <1>1 DEF CommitBrief, Answered, IInv
<1>3. Moves(s) /\ call'[s] = Idle /\ call'[s].pc = "idle" /\ CallFits(s)'
  BY <1>2 DEF Moves, CallsInv, Idle, CallFits
<1>4. made \in SUBSET Kind /\ Holding(s) /\ b \in 1..bodies /\ bodies \in Nat
  BY <1>1, <1>2 DEF CallsInv, CallFits, StoreInv, Holding
<1>5. UNCHANGED <<records, agents, grants, approvals, events, sent>>
  BY <1>2 DEF work, access, client
<1>6. SUFFICES /\ VersionsInv' /\ Version \subseteq Version'
               /\ Named' \subseteq Named \cup {Body(b)}
  <2>1. ASSUME VersionsInv', Version \subseteq Version', Named' \subseteq Named \cup {Body(b)}
        PROVE  IInv'
    <3>1. Onward
      BY <1>2, <1>5, <2>1, OnwardRows DEF Agent, Approval, Grant, Packet
    <3>2. AccessInv' /\ PacketsInv' /\ RecordsInv' /\ CallsInv'
      BY <1>2, <1>3, <3>1, AccessKept, PacketsKept, RecordsKept, OneCall
    <3>3. StoreInv'
      BY <1>1, <1>2, <1>3, <1>4, <2>1, StoreCommit
    <3> QED BY <2>1, <3>2, <3>3 DEF IInv
  <2> QED BY <2>1
<1>7. CASE ~Guarded(s)
  <2>1. UNCHANGED <<versions, active>>
    BY <1>2, <1>7 DEF CommitBrief
  <2>2. Version' = Version /\ Named' = Named
    BY <1>2, <1>5, <2>1, NamedSame DEF Version
  <2> QED BY <1>2, <2>1, <2>2, VersionsKept
<1>8. CASE Guarded(s)
  <2> DEFINE row(k) == [kind |-> k, prev |-> e[k], body |-> b]
             New == Version' \ Version
  <2>1. e = active /\ \A k \in Kind : active[k] \in Version
    BY <1>1, <1>2, <1>8 DEF Guarded, VersionsInv
  <2>2. Len(versions) \in Nat /\ Version = 1..Len(versions) /\ versions \in Seq(VersionRow)
    BY <1>2, PlanIs DEF VersionsInv
  <2>3. row("project") \in VersionRow /\ row("work") \in VersionRow
    <3>1. \A k \in Kind : e[k] \in Nat
      BY <2>1, <2>2
    <3>2. b \in Nat
      BY <1>4
    <3> QED BY <3>1, <3>2 DEF VersionRow, Kind
  <2>4. PICK first : first = IF "project" \in made THEN Append(versions, row("project"))
                             ELSE versions
    OBVIOUS
  <2>5. PICK new : new = IF "work" \in made THEN Append(first, row("work")) ELSE first
    OBVIOUS
  <2>6. NewVersions(s) = new
    BY <1>1, <2>4, <2>5 DEF NewVersions
  <2>7. versions' = new
    BY <1>8, <2>6 DEF CommitBrief
  <2>8. /\ first \in Seq(VersionRow) /\ Version \subseteq DOMAIN first
        /\ \A i \in Version : first[i] = versions[i]
        /\ \A i \in DOMAIN first \ Version :
              "project" \in made /\ i = Len(versions) + 1 /\ first[i] = row("project")
        /\ "project" \in made => Len(versions) + 1 \in DOMAIN first \ Version
                                 /\ first[Len(versions) + 1] = row("project")
    BY <2>2, <2>3, <2>4, Added DEF Version
  <2>9. /\ new \in Seq(VersionRow) /\ DOMAIN first \subseteq DOMAIN new
        /\ \A i \in DOMAIN first : new[i] = first[i]
        /\ \A i \in DOMAIN new \ DOMAIN first :
              "work" \in made /\ i = Len(first) + 1 /\ new[i] = row("work")
        /\ "work" \in made => Len(first) + 1 \in DOMAIN new \ DOMAIN first
                              /\ new[Len(first) + 1] = row("work")
    BY <2>3, <2>5, <2>8, Added
  <2>10. Version' = DOMAIN new
    BY <2>7 DEF Version
  <2>11. \A k \in {"project", "work"} :
            row(k).kind = k /\ row(k).prev = e[k] /\ row(k).body = b
    OBVIOUS
  <2> HIDE DEF row
  <2>12. \A v \in New :
            \/ "project" \in made /\ v = Len(versions) + 1 /\ v \in DOMAIN first
               /\ versions'[v] = row("project")
            \/ "work" \in made /\ v = Len(first) + 1 /\ v \notin DOMAIN first
               /\ versions'[v] = row("work")
    BY <2>7, <2>8, <2>9, <2>10
  <2>13. \A k \in made : \E v \in New : versions'[v].kind = k
    <3>1. "project" \in made => \E v \in New : versions'[v].kind = "project"
      BY <2>7, <2>8, <2>9, <2>10, <2>11
    <3>2. "work" \in made => \E v \in New : versions'[v].kind = "work"
      BY <2>7, <2>8, <2>9, <2>10, <2>11
    <3> QED BY <1>4, <3>1, <3>2 DEF Kind
  <2>14. \A v \in New : /\ versions'[v].kind \in made
                        /\ versions'[v].prev = active[versions'[v].kind]
                        /\ versions'[v].body = b
    BY <2>1, <2>11, <2>12
  <2>15. \A v, w \in New : versions'[v].kind = versions'[w].kind => v = w
    BY <2>11, <2>12
  <2>16. Version \subseteq Version' /\ \A v \in Version : versions'[v] = versions[v]
    BY <2>7, <2>8, <2>9, <2>10
  <2>17. PICK id : id = [k \in Kind |-> CHOOSE i \in DOMAIN new \ Version : new[i].kind = k]
    OBVIOUS
  <2>18. active' = [k \in Kind |-> IF k \in made /\ active[k] = e[k] THEN id[k] ELSE active[k]]
    BY <1>1, <1>8, <2>6, <2>17 DEF CommitBrief
  <2>19. \A k \in made : id[k] \in New /\ versions'[id[k]].kind = k
    <3>1. ASSUME NEW k \in made PROVE id[k] \in New /\ versions'[id[k]].kind = k
      <4>1. \E i \in DOMAIN new \ Version : new[i].kind = k
        BY <2>7, <2>10, <2>13
      <4>2. id[k] = CHOOSE i \in DOMAIN new \ Version : new[i].kind = k
        BY <1>4, <2>17
      <4>3. id[k] \in DOMAIN new \ Version /\ new[id[k]].kind = k
        BY <4>1, <4>2
      <4> QED BY <2>7, <2>10, <4>3
    <3> QED BY <3>1
  <2>20. active' \in [Kind -> Version']
    BY <2>1, <2>16, <2>18, <2>19
  <2>21. \A k \in made : active'[k] \in New /\ versions'[active'[k]].kind = k
    BY <1>4, <2>1, <2>18, <2>19
  <2>22. \A k \in Kind \ made : active'[k] = active[k]
    BY <2>18
  <2>23. VersionsInv'
    BY <1>2, <1>4, <2>7, <2>9, <2>14, <2>15, <2>16, <2>20, <2>21, <2>22, History
  <2>24. \A v \in Version' : Body(versions'[v].body) \in Named \cup {Body(b)}
    BY <2>14, <2>16 DEF Named
  <2>25. Named' \subseteq Named \cup {Body(b)}
    BY <1>2, <1>5, <2>24 DEF Named, Packet, Row
  <2> QED BY <2>16, <2>23, <2>25
<1> QED BY <1>7, <1>8

-----------------------------------------------------------------------------
(* Work packets *)

LEMMA ReadVersions ==
    ASSUME IInv, NEW s \in Slot, Begin(s, [pc |-> "versions", read |-> active]),
           UNCHANGED <<access, project, plan, work, store, client>>
    PROVE  IInv'
<1>1. VersionsInv /\ CallsInv /\ Version' = Version
  BY DEF IInv, plan, Version
<1>2. Moves(s) /\ call'[s] = [pc |-> "versions", read |-> active]
  BY <1>1, SetCall
<1>3. active \in [Kind -> Version']
  BY <1>1 DEF VersionsInv
<1>4. CallFits(s)' /\ Quiet(s)'
  BY <1>2, <1>3 DEF CallFits, Quiet
<1> QED BY <1>2, <1>4, CallOnly

LEMMA BeginRotationInv == ASSUME IInv, NEW s \in Slot, BeginRotation(s) PROVE IInv'
  BY ReadVersions DEF BeginRotation

LEMMA BeginRefreshInv ==
    ASSUME IInv, NEW s \in Slot, NEW g \in Grant, BeginRefresh(s, g) PROVE IInv'
  BY ReadVersions DEF BeginRefresh

\* A packet was rotated exactly when it is not the last.
LEMMA RotatedIs ==
    ASSUME VersionsInv, PacketsInv, NEW p \in Packet
    PROVE  Rotated(p) <=> p # Len(packets)
<1>1. Len(packets) \in Nat /\ Packet = 1..Len(packets)
  BY PlanIs
<1>2. \A q \in Packet : packets[q].prior = q - 1
  BY DEF PacketsInv
<1>3. Rotated(p) => p # Len(packets)
  <2>1. ASSUME NEW q \in Packet, packets[q].prior = p PROVE p # Len(packets)
    <3>1. q \in 1..Len(packets) /\ p = q - 1
      BY <1>1, <1>2, <2>1
    <3> QED BY <1>1, <3>1
  <2> QED BY <2>1 DEF Rotated
<1>4. ASSUME p # Len(packets) PROVE Rotated(p)
  <2>1. p + 1 \in Packet /\ (p + 1) - 1 = p
    BY <1>1, <1>4
  <2> QED BY <1>2, <2>1 DEF Rotated
<1> QED BY <1>3, <1>4

LEMMA LatestIs ==
    ASSUME VersionsInv, PacketsInv PROVE Latest \in Packet
<1>1. Len(packets) \in Packet
  <2>1. Len(packets) \in Nat /\ Packet = 1..Len(packets) /\ Len(packets) >= 1
    BY PlanIs DEF PacketsInv
  <2> QED BY <2>1
<1>2. ~Rotated(Len(packets))
  BY <1>1, RotatedIs
<1> QED BY <1>1, <1>2 DEF Latest

LEMMA SelectRecordsInv == ASSUME IInv, NEW s \in Slot, SelectRecords(s) PROVE IInv'
<1>1. PICK read, prior, carried :
         read = call[s].read /\ prior = Latest /\ carried = Selected
  OBVIOUS
<1>2. /\ AccessInv /\ VersionsInv /\ PacketsInv /\ RecordsInv /\ CallsInv /\ StoreInv
      /\ call[s].pc = "versions"
      /\ bodies' = bodies + 1 /\ objects' = objects \cup {Body(bodies + 1)}
      /\ Goto(s, [pc |-> "rotate", read |-> read, prior |-> prior, carried |-> carried,
                  body |-> bodies + 1])
      /\ UNCHANGED <<access, project, plan, work, queue, client>>
  BY <1>1 DEF SelectRecords, IInv
<1>3. Moves(s) /\ call'[s] = [pc |-> "rotate", read |-> read, prior |-> prior,
                              carried |-> carried, body |-> bodies + 1]
  BY <1>2, SetCall
<1>4. UNCHANGED <<versions, active, packets, records, agents, grants, approvals, events, sent, queue>>
  BY <1>2 DEF plan, work, access, client
<1>5. Onward
  BY <1>2, <1>4, OnwardPlain
<1>6. read \in [Kind -> Version] /\ prior \in Packet
  BY <1>1, <1>2, LatestIs DEF CallsInv, CallFits
<1>7. Carriable(carried)
  <2>1. \A r \in Row : records[r].type = "decision" => records[r].client = Owner
    BY <1>2 DEF RecordsInv
  <2>2. \A r \in Row : records[r].visibility = "shared" => Shared(r)
    BY <1>2 DEF RecordsInv
  <2> QED BY <1>1, <2>1, <2>2 DEF Selected, Carriable
<1>8. Carriable(carried)'
  BY <1>5, <1>7, CarriableOn
<1>9. Version' = Version /\ Packet' = Packet
  BY <1>4 DEF Version, Packet
<1>10. CallFits(s)'
  BY <1>3, <1>6, <1>8, <1>9 DEF CallFits
<1>11. AccessInv' /\ VersionsInv' /\ PacketsInv' /\ RecordsInv' /\ CallsInv'
  BY <1>2, <1>3, <1>4, <1>5, <1>10, AccessKept, VersionsKept, PacketsKept, RecordsKept, OneCall
<1>12. StoreInv'
  BY <1>2, <1>3, <1>4, StorePut
<1> QED BY <1>11, <1>12 DEF IInv

LEMMA CommitRotationInv ==
    ASSUME IInv, NEW s \in Slot, NEW lost \in BOOLEAN, CommitRotation(s, lost) PROVE IInv'
<1>1. PICK c : c = call[s]
  OBVIOUS
<1>2. /\ AccessInv /\ VersionsInv /\ PacketsInv /\ RecordsInv /\ CallsInv /\ StoreInv
      /\ c.pc = "rotate" /\ call' = [call EXCEPT ![s] = Idle]
      /\ queue' \subseteq queue \cup {Body(c.body)}
      /\ UNCHANGED <<access, project, versions, active, work, objects, bodies, client>>
  BY <1>1 DEF CommitRotation, Answered, IInv
<1>3. Moves(s) /\ call'[s] = Idle /\ call'[s].pc = "idle" /\ CallFits(s)'
  BY <1>2 DEF Moves, CallsInv, Idle, CallFits
<1>4. /\ c.read \in [Kind -> Version] /\ c.prior \in Packet /\ Carriable(c.carried)
      /\ Holding(s) /\ c.body \in 1..bodies /\ bodies \in Nat
  BY <1>1, <1>2 DEF CallsInv, CallFits, StoreInv, Holding
<1>5. UNCHANGED <<records, agents, grants, approvals, events, sent>>
  BY <1>2 DEF work, access, client
<1>6. SUFFICES /\ Packet \subseteq Packet' /\ Named' \subseteq Named \cup {Body(c.body)}
               /\ Onward => PacketsInv'
  <2>1. ASSUME Packet \subseteq Packet', Named' \subseteq Named \cup {Body(c.body)},
               Onward => PacketsInv'
        PROVE  IInv'
    <3>1. Onward
      BY <1>2, <1>5, <2>1, OnwardRows DEF Agent, Approval, Grant, Version
    <3>2. AccessInv' /\ VersionsInv' /\ RecordsInv' /\ CallsInv'
      BY <1>2, <1>3, <3>1, AccessKept, VersionsKept, RecordsKept, OneCall
    <3>3. StoreInv'
      BY <1>1, <1>2, <1>3, <1>4, <2>1, StoreCommit
    <3> QED BY <2>1, <3>1, <3>2, <3>3 DEF IInv
  <2> QED BY <2>1
<1>7. CASE ~NotContinued(s)
  <2>1. UNCHANGED packets
    BY <1>2, <1>7 DEF CommitRotation
  <2>2. Packet' = Packet /\ Named' = Named
    BY <1>2, <1>5, <2>1, NamedSame DEF Packet
  <2> QED BY <1>2, <2>1, <2>2, PacketsKept
<1>8. CASE NotContinued(s)
  <2>1. PICK row : row = [prior |-> c.prior, project |-> c.read["project"],
                          work |-> c.read["work"], carried |-> c.carried,
                          body |-> c.body, expired |-> FALSE]
    OBVIOUS
  <2>2. packets' = Append(packets, row)
    BY <1>1, <1>8, <2>1 DEF CommitRotation
  <2>3. /\ Len(packets) \in Nat /\ Packet = 1..Len(packets) /\ packets \in Seq(PacketRow)
        /\ Len(versions) \in Nat /\ Version = 1..Len(versions)
        /\ Len(records) \in Nat /\ Row = 1..Len(records)
    BY <1>2, PlanIs, RecordsAre DEF PacketsInv
  <2>4. c.read["project"] \in Version /\ c.read["work"] \in Version /\ c.carried \in SUBSET Row
    BY <1>4 DEF Kind, Carriable
  <2>5. row \in PacketRow
    <3>1. c.prior \in Nat /\ c.body \in Nat
      BY <1>4, <2>3
    <3>2. c.read["project"] \in Nat /\ c.read["work"] \in Nat /\ c.carried \in SUBSET Nat
      BY <2>3, <2>4
    <3> QED BY <2>1, <3>1, <3>2 DEF PacketRow
  <2>6. /\ packets' \in Seq(PacketRow) /\ Len(packets') = Len(packets) + 1
        /\ \A p \in Packet : packets'[p] = packets[p]
        /\ packets'[Len(packets) + 1] = row
    BY <2>2, <2>3, <2>5, AppendProperties
  <2>7. Packet' = 1..(Len(packets) + 1)
    BY <2>6, LenProperties DEF Packet
  <2>8. Packet \subseteq Packet' /\ \A p \in Packet' : p \in Packet \/ p = Len(packets) + 1
    BY <2>3, <2>7
  <2>9. c.prior = Len(packets)
    BY <1>1, <1>2, <1>4, <1>8, RotatedIs DEF NotContinued
  <2>10. ASSUME Onward PROVE PacketsInv'
    <3>1. ASSUME NEW p \in Packet'
          PROVE  /\ packets'[p].prior = p - 1
                 /\ packets'[p].project \in Version' /\ packets'[p].work \in Version'
                 /\ Carriable(packets[p].carried)'
      <4>1. PICK r : r = packets'[p]
        OBVIOUS
      <4>2. r.prior = p - 1 /\ r.project \in Version /\ r.work \in Version /\ Carriable(r.carried)
        <5>1. CASE p \in Packet
          BY <1>2, <2>6, <4>1, <5>1 DEF PacketsInv
        <5>2. CASE p = Len(packets) + 1
          BY <1>4, <2>1, <2>3, <2>4, <2>6, <2>9, <4>1, <5>2
        <5> QED BY <2>8, <5>1, <5>2
      <4>3. Carriable(r.carried)'
        BY <2>10, <4>2, CarriableOn
      <4> QED BY <2>10, <4>1, <4>2, <4>3 DEF Onward
    <3>2. Len(packets') >= 1
      BY <2>3, <2>6
    <3> QED BY <2>6, <3>1, <3>2 DEF PacketsInv
  <2>11. \A p \in Packet' : Body(packets'[p].body) \in Named \cup {Body(c.body)}
    BY <2>1, <2>6, <2>8 DEF Named
  <2>12. Named' \subseteq Named \cup {Body(c.body)}
    BY <1>2, <1>5, <2>11 DEF Named, Version, Row
  <2> QED BY <2>8, <2>10, <2>12
<1> QED BY <1>7, <1>8

LEMMA ExpireInv == ASSUME IInv, NEW p \in Packet, Expire(p) PROVE IInv'
<1>1. /\ AccessInv /\ VersionsInv /\ PacketsInv /\ RecordsInv /\ CallsInv /\ StoreInv
      /\ packets' = [packets EXCEPT ![p].expired = TRUE] /\ UNCHANGED call
      /\ UNCHANGED <<access, project, versions, active, work, store, client>>
  BY DEF Expire, Turn, IInv
<1>2. /\ Len(packets) \in Nat /\ Packet = 1..Len(packets) /\ packets \in Seq(PacketRow)
      /\ packets[p] \in PacketRow
  BY <1>1, PlanIs DEF PacketsInv
<1>3. PICK row : row = [packets[p] EXCEPT !.expired = TRUE]
  OBVIOUS
<1>4. /\ row \in PacketRow /\ row.prior = packets[p].prior /\ row.project = packets[p].project
      /\ row.work = packets[p].work /\ row.carried = packets[p].carried
      /\ row.body = packets[p].body
  BY <1>2, <1>3 DEF PacketRow
<1>5. packets' = [packets EXCEPT ![p] = row]
  BY <1>1, <1>3
<1>6. /\ packets' \in Seq(PacketRow) /\ Len(packets') = Len(packets)
      /\ \A q \in 1..Len(packets) : packets'[q] = IF q = p THEN row ELSE packets[q]
  BY <1>2, <1>4, <1>5, ExceptSeq
<1>7. Packet' = Packet
  BY <1>2, <1>6, LenProperties DEF Packet
<1>8. \A q \in Packet : /\ packets'[q].prior = packets[q].prior
                        /\ packets'[q].project = packets[q].project
                        /\ packets'[q].work = packets[q].work
                        /\ packets'[q].carried = packets[q].carried
                        /\ packets'[q].body = packets[q].body
  BY <1>2, <1>4, <1>6
<1>9. UNCHANGED <<records, agents, grants, approvals, events, sent>>
  BY <1>1 DEF work, access, client
<1>10. Onward
  BY <1>1, <1>7, <1>9, OnwardRows DEF Agent, Approval, Grant, Version
<1>11. ASSUME NEW q \in Packet PROVE Carriable(packets[q].carried)'
  <2>1. PICK c : c = packets[q].carried
    OBVIOUS
  <2>2. Carriable(c)'
    BY <1>1, <1>10, <2>1, CarriableOn DEF PacketsInv
  <2> QED BY <1>8, <2>1, <2>2
<1>12. PacketsInv'
  BY <1>1, <1>6, <1>7, <1>8, <1>10, <1>11 DEF PacketsInv, Onward
<1>13. AccessInv' /\ VersionsInv' /\ RecordsInv'
  BY <1>1, AccessKept, VersionsKept, RecordsKept
<1>14. CallsInv'
  BY <1>1, <1>10, CallsStep DEF CallsInv
<1>15. Named' = Named
  BY <1>1, <1>7, <1>8, <1>9 DEF Named, Version, Row
<1>16. StoreInv'
  BY <1>1, <1>15, StoreKept
<1> QED BY <1>12, <1>13, <1>14, <1>16 DEF IInv

-----------------------------------------------------------------------------
(* Submissions and the owner *)

LEMMA FollowsAll ==
    ASSUME RecordsInv, Onward, NEW q \in Row, records'[q].attempt = records[q].attempt
    PROVE  Follows(records[q])'
<1>1. PICK x : x = records[q]
  OBVIOUS
<1>2. Follows(x)'
  BY <1>1, FollowsOn DEF RecordsInv
<1>3. records'[q].type = x.type /\ records'[q].client = x.client
      /\ records'[q].packet = x.packet /\ records'[q].attempt = x.attempt
  BY <1>1 DEF Onward
<1> QED BY <1>2, <1>3 DEF Follows

\* A record is added that is new, not shared, and follows its attempt.
LEMMA AddRecord ==
    ASSUME RecordsInv, NEW row \in RecordRow, records' = Append(records, row),
           UNCHANGED <<events, sent, agents, grants, approvals, versions, packets>>,
           row.id \in Submission => Stored(row.id) = {},
           row.type = "decision" => row.client = Owner, row.visibility # "shared", Follows(row),
           answers' = answers \/
             (/\ row.id \in Submission
              /\ answers' = answers \cup {[id |-> row.id, record |-> Len(records) + 1]})
    PROVE  /\ RecordsInv' /\ Onward
           /\ Row' = Row \cup {Len(records) + 1}
           /\ \A r \in Row : records'[r] = records[r]
           /\ records'[Len(records) + 1] = row
<1> DEFINE last == Len(records) + 1
<1>1. /\ Len(records) \in Nat /\ Row = 1..Len(records) /\ records \in Seq(RecordRow)
  BY RecordsAre DEF RecordsInv
<1>2. /\ records' \in Seq(RecordRow) /\ Len(records') = last
      /\ \A r \in Row : records'[r] = records[r]
      /\ records'[last] = row
  BY <1>1, AppendProperties
<1>3. Row' = 1..last
  BY <1>2, LenProperties DEF Row
<1>4. last \notin Row /\ last \in Row' /\ Row' = Row \cup {last}
  BY <1>1, <1>3
<1>5. Onward
  BY <1>2, <1>4 DEF Onward, Agent, Approval, Grant, Version, Packet
<1> HIDE DEF last
<1>6. ASSUME NEW q \in Row', NEW r \in Row',
             records'[q].id \in Submission, records'[q].id = records'[r].id
      PROVE  q = r
  <2>1. CASE q \in Row /\ r \in Row
    BY <1>2, <1>6, <2>1 DEF RecordsInv
  <2>2. CASE q = last /\ r \in Row
    BY <1>2, <1>6, <2>2 DEF Stored
  <2>3. CASE q \in Row /\ r = last
    BY <1>2, <1>6, <2>3 DEF Stored
  <2> QED BY <1>4, <1>6, <2>1, <2>2, <2>3
<1>7. ASSUME NEW r \in Row'
      PROVE  /\ records'[r].type = "decision" => records'[r].client = Owner
             /\ records'[r].visibility = "shared" => Shared(r)'
             /\ Follows(records[r])'
  <2>1. CASE r \in Row
    BY <1>2, <1>5, <2>1, FollowsAll DEF RecordsInv, Shared
  <2>2. CASE r = last
    <3>1. Follows(row)'
      BY <1>5, FollowsOn
    <3>2. PICK x : x = records'[r]
      OBVIOUS
    <3>3. x = row /\ Follows(x)'
      BY <1>2, <2>2, <3>1, <3>2
    <3>4. Follows(records[r])'
      BY <3>2, <3>3 DEF Follows
    <3> QED BY <1>2, <2>2, <3>4
  <2> QED BY <1>4, <2>1, <2>2
<1>8. ASSUME NEW id \in Submission PROVE Follows(sent[id])'
  <2>1. PICK x : x = sent[id]
    OBVIOUS
  <2>2. Follows(x)'
    BY <1>5, <2>1, FollowsOn DEF RecordsInv
  <2> QED BY <2>1, <2>2
<1>9. /\ answers' \in SUBSET [id : Submission, record : Row']
      /\ \A a \in answers' : records'[a.record].id = a.id
  <2>1. /\ answers \in SUBSET [id : Submission, record : Row']
        /\ \A a \in answers : records'[a.record].id = a.id
    BY <1>2, <1>4 DEF RecordsInv
  <2>2. CASE answers' = answers
    BY <2>1, <2>2
  <2>3. CASE row.id \in Submission /\ answers' = answers \cup {[id |-> row.id, record |-> last]}
    <3>1. PICK a : a = [id |-> row.id, record |-> last]
      OBVIOUS
    <3>2. a.id = row.id /\ a.record = last /\ a \in [id : Submission, record : Row']
      BY <1>4, <2>3, <3>1
    <3>3. answers' = answers \cup {a}
      BY <2>3, <3>1
    <3>4. records'[a.record].id = a.id
      BY <1>2, <3>2
    <3> QED BY <2>1, <3>2, <3>3, <3>4
  <2> QED BY <2>2, <2>3 DEF last
<1>10. events' \in SUBSET [record : Row', action : Action]
  BY <1>4 DEF RecordsInv
<1>11. RecordsInv'
  BY <1>2, <1>6, <1>7, <1>8, <1>9, <1>10 DEF RecordsInv
<1> QED BY <1>2, <1>4, <1>5, <1>11 DEF last

LEMMA BeginSubmitInv ==
    ASSUME IInv, NEW s \in Slot, NEW g \in Grant, NEW id \in Submission, NEW sub \in Submissions,
           BeginSubmit(s, g, id, sub)
    PROVE  IInv'
<1>1. /\ AccessInv /\ VersionsInv /\ PacketsInv /\ RecordsInv /\ CallsInv /\ StoreInv
      /\ sent[id] \in {NoSubmission, sub} /\ Parents(sub)
      /\ Begin(s, [pc |-> "submit", grant |-> g, id |-> id])
      /\ sent' = [sent EXCEPT ![id] = sub]
      /\ objects' = objects \cup {ContentOf(id)}
      /\ UNCHANGED <<access, project, plan, work, queue, bodies, answers>>
  BY DEF BeginSubmit, Admitted, IInv
<1>2. Moves(s) /\ call'[s] = [pc |-> "submit", grant |-> g, id |-> id]
  BY <1>1, SetCall
<1>3. UNCHANGED <<versions, active, packets, records, agents, grants, approvals, events>>
  BY <1>1 DEF plan, work, access
<1>4. sub \in SentRow
  <2>1. Packet \subseteq Nat /\ Row \subseteq Nat
    BY <1>1, PlanIs, RecordsAre
  <2>2. CASE sub \in [client : Client, type : {"attempt"}, packet : Packet, attempt : {0}]
    <3>1. {0} \subseteq Nat /\ {"attempt"} \subseteq {"attempt", "handoff"}
      OBVIOUS
    <3> QED BY <2>1, <2>2, <3>1 DEF SentRow
  <2>3. CASE sub \in [client : Client, type : {"handoff"}, packet : Packet, attempt : Row]
    BY <2>1, <2>3 DEF SentRow
  <2> QED BY <2>2, <2>3 DEF Submissions
<1>5. sub # NoSubmission
  BY <1>4, CollaborationAssumption DEF CollaborationAssumption, SentRow, NoSubmission
<1>6. /\ sent' \in [Submission -> SentRow \cup {NoSubmission}] /\ sent'[id] = sub
      /\ \A i \in Submission \ {id} : sent'[i] = sent[i]
  BY <1>1, <1>4 DEF RecordsInv
<1>7. Onward
  BY <1>1, <1>3, <1>6 DEF Onward, Agent, Approval, Grant, Version, Packet, Row
<1>8. CallFits(s)'
  <2>1. g \in Nat
    BY <1>1, AccessIs
  <2> QED BY <1>2, <1>5, <1>6, <2>1 DEF CallFits
<1>9. Follows(sub)
  BY <1>1 DEF Parents, Follows
<1>10. ASSUME NEW i \in Submission PROVE Follows(sent[i])'
  <2>1. PICK x : x = sent'[i]
    OBVIOUS
  <2>2. Follows(x)
    BY <1>1, <1>6, <1>9, <2>1 DEF RecordsInv
  <2> QED BY <1>3, <2>1, <2>2 DEF Follows, Row
<1>11. \A r \in Row : Follows(records[r])'
  BY <1>1, <1>3 DEF RecordsInv, Follows, Row
<1>12. RecordsInv'
  BY <1>1, <1>3, <1>6, <1>10, <1>11 DEF RecordsInv, Row, Shared
<1>13. AccessInv' /\ VersionsInv' /\ PacketsInv' /\ CallsInv'
  BY <1>1, <1>2, <1>3, <1>7, <1>8, AccessKept, VersionsKept, PacketsKept, OneCall
<1>14. StoreInv'
  BY <1>1, <1>2, <1>3, StoreSubmit
<1> QED BY <1>12, <1>13, <1>14 DEF IInv

\* A receipt is given out.
LEMMA GiveReceipt ==
    ASSUME IInv, NEW s \in Slot, NEW id \in Submission, Moves(s), call'[s] = Idle,
           answers' = answers \/ (Stored(id) # {} /\ answers' = answers \cup {Receipt(id)}),
           UNCHANGED <<access, project, plan, work, store, sent>>
    PROVE  IInv'
<1>1. /\ AccessInv /\ VersionsInv /\ PacketsInv /\ RecordsInv /\ CallsInv /\ StoreInv
  BY DEF IInv
<1>2. UNCHANGED <<versions, active, packets, records, agents, grants, approvals, events>>
  BY DEF plan, work, access
<1>3. Onward
  BY <1>2, OnwardPlain DEF plan
<1>4. CallFits(s)' /\ Quiet(s)'
  BY DEF CallFits, Quiet, Idle
<1>5. Stored(id) # {} =>
        /\ Receipt(id) \in [id : Submission, record : Row]
        /\ records[Receipt(id).record].id = Receipt(id).id
  BY DEF Receipt, Stored
<1>6. /\ answers' \in SUBSET [id : Submission, record : Row]
      /\ \A a \in answers' : records[a.record].id = a.id
  <2>1. CASE answers' = answers
    BY <1>1, <2>1 DEF RecordsInv
  <2>2. CASE Stored(id) # {} /\ answers' = answers \cup {Receipt(id)}
    BY <1>1, <1>5, <2>2 DEF RecordsInv
  <2> QED BY <2>1, <2>2
<1>7. RecordsInv'
  BY <1>1, <1>2, <1>6 DEF RecordsInv, Row, Shared, Follows
<1>8. AccessInv' /\ VersionsInv' /\ PacketsInv' /\ CallsInv'
  BY <1>1, <1>2, <1>3, <1>4, AccessKept, VersionsKept, PacketsKept, OneCall
<1>9. StoreInv'
  BY <1>1, <1>2, <1>4, StoreQuiet DEF Moves
<1> QED BY <1>7, <1>8, <1>9 DEF IInv

LEMMA ReadReceiptInv ==
    ASSUME IInv, NEW s \in Slot, NEW g \in Grant, NEW id \in Submission, ReadReceipt(s, g, id)
    PROVE  IInv'
<1>1. /\ CallsInv /\ Begin(s, Idle) /\ Stored(id) # {}
      /\ answers' = answers \cup {Receipt(id)}
      /\ UNCHANGED <<access, project, plan, work, store, sent>>
  BY DEF ReadReceipt, IInv
<1>2. Moves(s) /\ call'[s] = Idle
  BY <1>1, SetCall
<1> QED BY <1>1, <1>2, GiveReceipt

LEMMA SubmitAgainInv ==
    ASSUME IInv, NEW s \in Slot, SubmitAgain(s) PROVE IInv'
<1>1. PICK id : id = call[s].id
  OBVIOUS
<1>2. /\ CallsInv /\ call[s].pc = "again" /\ Done(s)
      /\ answers' = answers \/ (Stored(id) # {} /\ answers' = answers \cup {Receipt(id)})
      /\ UNCHANGED <<access, project, plan, work, store, sent>>
  BY <1>1 DEF SubmitAgain, IInv
<1>3. id \in Submission
  BY <1>1, <1>2 DEF CallsInv, CallFits
<1>4. Moves(s) /\ call'[s] = Idle
  BY <1>2, SetCall
<1> QED BY <1>2, <1>3, <1>4, GiveReceipt

LEMMA CommitSubmitInv ==
    ASSUME IInv, NEW s \in Slot, NEW lost \in BOOLEAN, CommitSubmit(s, lost) PROVE IInv'
<1>1. PICK c, sub : c = call[s] /\ sub = sent[c.id]
  OBVIOUS
<1>2. /\ AccessInv /\ VersionsInv /\ PacketsInv /\ RecordsInv /\ CallsInv /\ StoreInv
      /\ c.pc = "submit"
      /\ call' = [call EXCEPT ![s] = Idle] \/ call' = [call EXCEPT ![s].pc = "again"]
      /\ UNCHANGED <<access, project, plan, events, store, sent>>
  BY <1>1 DEF CommitSubmit, Answered, IInv
<1>3. c \in [pc : {"submit"}, grant : Nat, id : Submission] /\ sub # NoSubmission
  BY <1>1, <1>2 DEF CallsInv, CallFits
<1>4. DOMAIN call = Slot
  BY <1>2 DEF CallsInv
<1>5. Moves(s) /\ CallFits(s)' /\ Quiet(s)'
  <2>1. CASE call' = [call EXCEPT ![s] = Idle]
    BY <1>4, <2>1 DEF Moves, CallFits, Quiet, Idle
  <2>2. CASE call' = [call EXCEPT ![s].pc = "again"]
    <3>1. call'[s] = [c EXCEPT !.pc = "again"] /\ Moves(s)
      BY <1>1, <1>4, <2>2 DEF Moves
    <3>2. call'[s].pc = "again" /\ call'[s].id = c.id
      BY <1>3, <3>1
    <3> QED BY <1>3, <3>1, <3>2 DEF CallFits, Quiet
  <2> QED BY <1>2, <2>1, <2>2
<1>6. UNCHANGED <<versions, active, packets, agents, grants, approvals>>
  BY <1>2 DEF plan, access
<1>7. SUFFICES RecordsInv' /\ Onward /\ Named' \subseteq Named \cup {ContentOf(c.id)}
  <2>1. ASSUME RecordsInv', Onward, Named' \subseteq Named \cup {ContentOf(c.id)} PROVE IInv'
    <3>1. AccessInv' /\ VersionsInv' /\ PacketsInv' /\ CallsInv'
      BY <1>2, <1>5, <1>6, <2>1, AccessKept, VersionsKept, PacketsKept, OneCall
    <3>2. ContentOf(c.id) \in objects
      BY <1>1, <1>2 DEF StoreInv
    <3>3. \A t \in Slot : call[t].pc = "collect" => ContentOf(c.id) \notin call[t].garbage
      <4>1. \A t \in Slot : call[t].pc = "collect" => call[t].garbage \subseteq BodiesUpTo(bodies)
        BY <1>2 DEF StoreInv
      <4> QED BY <4>1, TwoNames DEF BodiesUpTo
    <3>4. StoreInv'
      BY <1>2, <1>5, <2>1, <3>2, <3>3, StoreKept DEF Moves
    <3> QED BY <2>1, <3>1, <3>4 DEF IInv
  <2> QED BY <2>1
<1>8. CASE ~Unique(s)
  <2>1. UNCHANGED <<records, answers>>
    BY <1>8 DEF CommitSubmit
  <2>2. RecordsInv'
    BY <1>2, <2>1, RecordsKept DEF work, client
  <2>3. Onward /\ Named' = Named
    BY <1>2, <1>6, <2>1, OnwardPlain, NamedSame DEF plan
  <2> QED BY <2>2, <2>3
<1>9. CASE Unique(s)
  <2>1. PICK row : row = [id |-> c.id, type |-> sub.type, client |-> sub.client,
                          grant |-> c.grant, packet |-> sub.packet, attempt |-> sub.attempt,
                          visibility |-> "private", disposition |-> "pending"]
    OBVIOUS
  <2>2. records' = Append(records, row)
    BY <1>1, <1>9, <2>1 DEF CommitSubmit
  <2>3. answers' = answers \/ answers' = answers \cup {[id |-> c.id, record |-> Len(records) + 1]}
    BY <1>1, <1>9 DEF CommitSubmit
  <2>4. c.id \in Submission /\ c.grant \in Nat
    BY <1>3
  <2>5. sub \in SentRow /\ Follows(sub)
    BY <1>1, <1>2, <1>3, <2>4 DEF RecordsInv
  <2>6. row \in RecordRow /\ row.id = c.id /\ row.type # "decision" /\ row.visibility # "shared"
    BY <2>1, <2>4, <2>5 DEF SentRow, RecordRow, Visibility, Disposition
  <2>7. Follows(row)
    BY <2>1, <2>5 DEF Follows
  <2>8. Stored(row.id) = {}
    BY <1>1, <1>9, <2>6 DEF Unique
  <2>9. /\ RecordsInv' /\ Onward /\ Row' = Row \cup {Len(records) + 1}
        /\ \A r \in Row : records'[r] = records[r]
        /\ records'[Len(records) + 1] = row
    BY <1>2, <1>6, <2>2, <2>3, <2>4, <2>6, <2>7, <2>8, AddRecord
  <2>10. Named' \subseteq Named \cup {ContentOf(c.id)}
    BY <1>6, <2>6, <2>9 DEF Named, Packet, Version
  <2> QED BY <2>9, <2>10
<1> QED BY <1>8, <1>9

LEMMA DecideInv == ASSUME IInv, NEW s \in Slot, Decide(s) PROVE IInv'
<1>1. PICK row : row = [id |-> "decision", type |-> "decision", client |-> Owner, grant |-> 0,
                        packet |-> 0, attempt |-> 0, visibility |-> "owner-only",
                        disposition |-> "accepted"]
  OBVIOUS
<1>2. /\ AccessInv /\ VersionsInv /\ PacketsInv /\ RecordsInv /\ CallsInv /\ StoreInv
      /\ Begin(s, Idle) /\ records' = Append(records, row)
      /\ UNCHANGED <<access, project, plan, events, store, client>>
  BY <1>1 DEF Decide, IInv
<1>3. Moves(s) /\ call'[s] = Idle
  BY <1>2, SetCall
<1>4. CallFits(s)' /\ Quiet(s)'
  BY <1>3 DEF CallFits, Quiet, Idle
<1>5. UNCHANGED <<versions, active, packets, agents, grants, approvals, sent, answers>>
  BY <1>2 DEF plan, access, client
<1>6. /\ row \in RecordRow /\ row.id \notin Submission /\ row.client = Owner
      /\ row.visibility # "shared" /\ Follows(row)
  BY <1>1, CollaborationAssumption
     DEF CollaborationAssumption, RecordRow, Visibility, Disposition, Follows
<1>7. /\ RecordsInv' /\ Onward /\ Row' = Row \cup {Len(records) + 1}
      /\ \A r \in Row : records'[r] = records[r]
      /\ records'[Len(records) + 1] = row
  BY <1>2, <1>5, <1>6, AddRecord
<1>8. Named' \subseteq Named
  BY <1>5, <1>6, <1>7 DEF Named, Packet, Version
<1>9. AccessInv' /\ VersionsInv' /\ PacketsInv' /\ CallsInv'
  BY <1>2, <1>3, <1>4, <1>5, <1>7, AccessKept, VersionsKept, PacketsKept, OneCall
<1>10. StoreInv'
  BY <1>2, <1>3, <1>4, <1>8, StoreKept DEF Moves
<1> QED BY <1>7, <1>9, <1>10 DEF IInv

LEMMA BeginActionInv ==
    ASSUME IInv, NEW s \in Slot, NEW r \in Row, NEW action \in Action, BeginAction(s, r, action)
    PROVE  IInv'
<1>1. PICK row : row = records[r]
  OBVIOUS
<1>2. /\ CallsInv /\ RecordsInv
      /\ Begin(s, [pc |-> "act", record |-> r, action |-> action,
                   visibility |-> row.visibility, disposition |-> row.disposition])
      /\ UNCHANGED <<access, project, plan, work, store, client>>
  BY <1>1 DEF BeginAction, IInv
<1>3. Moves(s) /\ call'[s] = [pc |-> "act", record |-> r, action |-> action,
                              visibility |-> row.visibility, disposition |-> row.disposition]
  BY <1>2, SetCall
<1>4. /\ row.visibility \in Visibility /\ row.disposition \in Disposition
      /\ row.visibility = "shared" => Shared(r)
  BY <1>1, <1>2, RecordsAre DEF RecordRow, RecordsInv
<1>5. Row' = Row /\ UNCHANGED <<records, events>>
  BY <1>2 DEF work, Row
<1>6. CallFits(s)' /\ Quiet(s)'
  BY <1>3, <1>4, <1>5 DEF CallFits, Quiet, Shared
<1> QED BY <1>2, <1>3, <1>6, CallOnly

LEMMA CommitActionInv == ASSUME IInv, NEW s \in Slot, CommitAction(s) PROVE IInv'
<1>1. PICK c : c = call[s]
  OBVIOUS
<1>2. PICK visibility, disposition :
         /\ visibility = IF c.action = "share" THEN "shared" ELSE c.visibility
         /\ disposition = IF c.action = "share" THEN c.disposition
                          ELSE [accept |-> "accepted", reject |-> "rejected",
                                quarantine |-> "quarantined"][c.action]
  OBVIOUS
<1>3. /\ AccessInv /\ VersionsInv /\ PacketsInv /\ RecordsInv /\ CallsInv /\ StoreInv
      /\ c.pc = "act" /\ Done(s)
      /\ records' = [records EXCEPT ![c.record].visibility = visibility,
                                    ![c.record].disposition = disposition]
      /\ events' = events \cup {[record |-> c.record, action |-> c.action]}
      /\ UNCHANGED <<access, project, plan, store, client>>
  BY <1>1, <1>2 DEF CommitAction, IInv
<1>4. /\ c.record \in Row /\ c.action \in Action
      /\ c.visibility \in Visibility /\ c.disposition \in Disposition
      /\ c.visibility = "shared" => Shared(c.record)
  BY <1>1, <1>3 DEF CallsInv, CallFits
<1>5. c.action \in {"share", "accept", "reject", "quarantine"}
  BY <1>4, CollaborationAssumption DEF CollaborationAssumption
<1>6. visibility \in Visibility /\ disposition \in Disposition
  BY <1>2, <1>4, <1>5 DEF Visibility, Disposition
<1>7. Moves(s) /\ call'[s] = Idle
  BY <1>3, SetCall
<1>8. CallFits(s)' /\ Quiet(s)'
  BY <1>7 DEF CallFits, Quiet, Idle
<1>9. /\ Len(records) \in Nat /\ Row = 1..Len(records) /\ records \in Seq(RecordRow)
      /\ records[c.record] \in RecordRow
  BY <1>3, <1>4, RecordsAre DEF RecordsInv
<1>10. PICK row : row = [records[c.record] EXCEPT !.visibility = visibility,
                                                  !.disposition = disposition]
  OBVIOUS
<1>11. /\ row \in RecordRow /\ row.visibility = visibility
       /\ row.id = records[c.record].id /\ row.type = records[c.record].type
       /\ row.client = records[c.record].client /\ row.packet = records[c.record].packet
       /\ row.attempt = records[c.record].attempt
  BY <1>6, <1>9, <1>10 DEF RecordRow
<1>12. records' = [records EXCEPT ![c.record] = row]
  BY <1>3, <1>4, <1>9, <1>10 DEF Row
<1>13. /\ records' \in Seq(RecordRow) /\ Len(records') = Len(records)
       /\ \A r \in 1..Len(records) : records'[r] = IF r = c.record THEN row ELSE records[r]
  BY <1>4, <1>9, <1>11, <1>12, ExceptSeq
<1>14. Row' = Row
  BY <1>9, <1>13, LenProperties DEF Row
<1>15. \A r \in Row : /\ records'[r].id = records[r].id /\ records'[r].type = records[r].type
                      /\ records'[r].client = records[r].client
                      /\ records'[r].packet = records[r].packet
                      /\ records'[r].attempt = records[r].attempt
                      /\ r # c.record => records'[r] = records[r]
  BY <1>9, <1>11, <1>13
<1>16. UNCHANGED <<versions, active, packets, agents, grants, approvals, sent, answers>>
  BY <1>3 DEF plan, access, client
<1>17. Onward
  BY <1>3, <1>14, <1>15, <1>16 DEF Onward, Agent, Approval, Grant, Version, Packet
<1>18. events' \in SUBSET [record : Row', action : Action]
  BY <1>3, <1>4, <1>14 DEF RecordsInv
<1>19. ASSUME NEW r \in Row, records'[r].visibility = "shared" PROVE Shared(r)'
  <2>1. CASE r = c.record /\ c.action = "share"
    BY <1>3, <2>1 DEF Shared
  <2>2. CASE r = c.record /\ c.action # "share"
    BY <1>2, <1>3, <1>4, <1>9, <1>11, <1>13, <1>19, <2>2 DEF Shared
  <2>3. CASE r # c.record
    BY <1>3, <1>15, <1>19, <2>3 DEF Shared, RecordsInv
  <2> QED BY <2>1, <2>2, <2>3
<1>20. \A r \in Row : Follows(records[r])'
  BY <1>3, <1>15, <1>17, FollowsAll
<1>21. ASSUME NEW id \in Submission PROVE Follows(sent[id])'
  <2>1. PICK x : x = sent[id]
    OBVIOUS
  <2>2. Follows(x)'
    BY <1>3, <1>17, <2>1, FollowsOn DEF RecordsInv
  <2> QED BY <1>16, <2>1, <2>2
<1>22. /\ answers' \in SUBSET [id : Submission, record : Row']
       /\ \A a \in answers' : records'[a.record].id = a.id
  BY <1>3, <1>14, <1>15, <1>16 DEF RecordsInv
<1>23. \A q, r \in Row' :
          records'[q].id \in Submission /\ records'[q].id = records'[r].id => q = r
  BY <1>3, <1>14, <1>15 DEF RecordsInv
<1>24. \A r \in Row' : records'[r].type = "decision" => records'[r].client = Owner
  BY <1>3, <1>14, <1>15 DEF RecordsInv
<1>25. sent' \in [Submission -> SentRow \cup {NoSubmission}]
  BY <1>3, <1>16 DEF RecordsInv
<1>26. RecordsInv'
  BY <1>13, <1>14, <1>18, <1>19, <1>20, <1>21, <1>22, <1>23, <1>24, <1>25 DEF RecordsInv
<1>27. AccessInv' /\ VersionsInv' /\ PacketsInv' /\ CallsInv'
  BY <1>3, <1>7, <1>8, <1>16, <1>17, AccessKept, VersionsKept, PacketsKept, OneCall
<1>28. Named' = Named
  BY <1>14, <1>15, <1>16 DEF Named, Packet, Version
<1>29. StoreInv'
  BY <1>3, <1>7, <1>8, <1>28, StoreKept DEF Moves
<1> QED BY <1>26, <1>27, <1>29 DEF IInv

-----------------------------------------------------------------------------
(* Every step *)

LEMMA ConnectInv == ASSUME IInv, NEW s \in Slot, Connect(s) PROVE IInv'
  BY CreateAgentInv, ActivateAgentInv, ApproveInv, BeginRepairInv, CommitRepairInv, AskGrantInv,
     CreateGrantInv, ActivateGrantInv, CompleteGrantInv, BeginRevokeAllInv, RevokeConnectionsInv
     DEF Connect

LEMMA SubmitInv == ASSUME IInv, NEW s \in Slot, Submit(s) PROVE IInv'
  BY BeginSubmitInv, ReadReceiptInv, CommitSubmitInv, SubmitAgainInv DEF Submit

LEMMA SteerInv == ASSUME IInv, NEW s \in Slot, Steer(s) PROVE IInv'
<1>1. ASSUME NEW kinds \in SUBSET Kind \ {{}}, BeginBrief(s, kinds) PROVE IInv'
  BY <1>1, BeginBriefInv
<1>2. ASSUME BeginRotation(s) \/ (\E g \in Grant : BeginRefresh(s, g)) \/ SelectRecords(s)
      PROVE  IInv'
  BY <1>2, BeginRotationInv, BeginRefreshInv, SelectRecordsInv
<1>3. ASSUME NEW lost \in BOOLEAN, CommitBrief(s, lost) \/ CommitRotation(s, lost) PROVE IInv'
  BY <1>3, CommitBriefInv, CommitRotationInv
<1>4. ASSUME NEW r \in Row, NEW action \in Action, BeginAction(s, r, action) PROVE IInv'
  BY <1>4, BeginActionInv
<1> QED BY <1>1, <1>2, <1>3, <1>4, DecideInv, CommitActionInv DEF Steer

LEMMA CleanInv == ASSUME IInv, NEW s \in Slot, Clean(s) PROVE IInv'
  BY BeginCollectionInv, CollectInv DEF Clean

LEMMA RevokeInv == IInv /\ Revoke => IInv'
  BY RevokeGrantInv, LapseInv, RevokeAgentInv, SupersedeInv, RevokeVaultInv, PairInv DEF Revoke

LEMMA StutterInv == IInv /\ UNCHANGED vars => IInv'
<1> SUFFICES ASSUME IInv, UNCHANGED vars PROVE IInv'
  OBVIOUS
<1>1. UNCHANGED <<access, project, versions, active, packets, work, client, store, call>>
  BY DEF vars, plan
<1>2. UNCHANGED <<plan, agents, grants, approvals, records, events, sent>>
  BY <1>1 DEF plan, access, work, client
<1>3. Onward
  BY <1>2, OnwardPlain
<1>4. AccessInv' /\ VersionsInv' /\ PacketsInv' /\ RecordsInv'
  BY <1>1, <1>3, AccessKept, VersionsKept, PacketsKept, RecordsKept DEF IInv
<1>5. CallsInv'
  BY <1>1, <1>3, CallsStep DEF IInv, CallsInv
<1>6. StoreInv'
  BY <1>1, <1>2, StoreQuiet DEF IInv
<1> QED BY <1>4, <1>5, <1>6 DEF IInv

LEMMA NextInv == IInv /\ [Next]_vars => IInv'
<1> SUFFICES ASSUME IInv, [Next]_vars PROVE IInv'
  OBVIOUS
<1>1. ASSUME NEW s \in Slot, Connect(s) \/ Submit(s) \/ Steer(s) \/ Clean(s) \/ Abandon(s)
      PROVE  IInv'
  BY <1>1, ConnectInv, SubmitInv, SteerInv, CleanInv, AbandonInv
<1>2. ASSUME NEW b \in BOOLEAN, SetArchived(b) \/ SetVisible(b) \/ SetOpen(b) PROVE IInv'
  BY <1>2, SetArchivedInv, SetVisibleInv, SetOpenInv
<1> QED BY <1>1, <1>2, RevokeInv, ExpireInv, StutterInv DEF Next

(***************************************************************************)
(* The inductive invariant holds: connections and revocations, edits of    *)
(* the brief, rotations, submissions, the owner's actions and the          *)
(* collector keep every part of it, with lost answers and lost requests.   *)
(***************************************************************************)
THEOREM Invariance == Spec => []IInv
<1>1. Init => IInv
  BY InitInv
<1>2. IInv /\ [Next]_vars => IInv'
  BY NextInv
<1> QED BY <1>1, <1>2, PTL DEF Spec

-----------------------------------------------------------------------------
(* What the rows promise *)

LEMMA AtMostOne ==
    ASSUME NEW S, \A x, y \in S : x = y
    PROVE  Cardinality(S) <= 1
<1>1. CASE S = {}
  BY <1>1, FS_EmptySet
<1>2. CASE S # {}
  <2>1. PICK x : S = {x}
    BY <1>2
  <2> QED BY <2>1, FS_Singleton
<1> QED BY <1>1, <1>2

LEMMA SeqNarrow ==
    ASSUME NEW R, NEW S, NEW q \in Seq(R), \A i \in 1..Len(q) : q[i] \in S
    PROVE  q \in Seq(S)
<1>1. Len(q) \in Nat /\ q \in [1..Len(q) -> R]
  BY LenProperties
<1>2. q \in [1..Len(q) -> S]
  BY <1>1
<1> QED BY <1>1, <1>2, SeqDef

LEMMA Types == IInv => TypeOK
<1> SUFFICES ASSUME IInv PROVE TypeOK
  OBVIOUS
<1>1. AccessInv /\ VersionsInv /\ PacketsInv /\ RecordsInv
  BY DEF IInv
<1>2. /\ Grant = 1..Len(grants) /\ \A g \in Grant : grants[g] \in GrantRow
      /\ Packet = 1..Len(packets) /\ \A p \in Packet : packets[p] \in PacketRow
  BY <1>1, AccessIs, PlanIs
<1>3. grants \in Seq([client : Client, agent : Agent, lapsed : BOOLEAN,
                      status : {"pending", "active", "revoked"}])
  <2> DEFINE S == [client : Client, agent : Agent, lapsed : BOOLEAN,
                   status : {"pending", "active", "revoked"}]
  <2>1. \A g \in 1..Len(grants) : grants[g] \in S
    BY <1>1, <1>2 DEF AccessInv, GrantRow
  <2>2. grants \in Seq(GrantRow)
    BY <1>1 DEF AccessInv
  <2> HIDE DEF S
  <2>3. grants \in Seq(S)
    BY <2>1, <2>2, SeqNarrow
  <2> QED BY <2>3 DEF S
<1>4. packets \in Seq([prior : Nat, project : Version, work : Version, carried : SUBSET Row,
                       body : Nat, expired : BOOLEAN])
  <2> DEFINE S == [prior : Nat, project : Version, work : Version, carried : SUBSET Row,
                   body : Nat, expired : BOOLEAN]
  <2>1. ASSUME NEW p \in 1..Len(packets) PROVE packets[p] \in S
    <3>1. /\ packets[p] \in PacketRow
          /\ packets[p].project \in Version /\ packets[p].work \in Version
          /\ packets[p].carried \in SUBSET Row
      BY <1>1, <1>2 DEF PacketsInv, Carriable
    <3> QED BY <3>1 DEF PacketRow
  <2>2. packets \in Seq(PacketRow)
    BY <1>1 DEF PacketsInv
  <2> HIDE DEF S
  <2>3. packets \in Seq(S)
    BY <2>1, <2>2, SeqNarrow
  <2> QED BY <2>3 DEF S
<1>8. approvals \in Seq([agent : Agent, grant : Grant \cup {Unclaimed}, legacy : BOOLEAN,
                         status : {"approved", "expired"}])
  <2> DEFINE S == [agent : Agent, grant : Grant \cup {Unclaimed}, legacy : BOOLEAN,
                   status : {"approved", "expired"}]
  <2>1. ASSUME NEW a \in 1..Len(approvals) PROVE approvals[a] \in S
    <3>1. /\ approvals[a] \in ApprovalRow /\ approvals[a].agent \in Agent
          /\ approvals[a].grant \in Grant \cup {Unclaimed}
      BY <1>1, ApprovalsAre DEF AccessInv, ApprovalsInv
    <3> QED BY <3>1 DEF ApprovalRow
  <2>2. approvals \in Seq(ApprovalRow)
    BY <1>1 DEF AccessInv, ApprovalsInv
  <2> HIDE DEF S
  <2>3. approvals \in Seq(S)
    BY <2>1, <2>2, SeqNarrow
  <2> QED BY <2>3 DEF S
<1>5. /\ vault \in [status : {"active", "revoked"}, epoch : 1..MaxEpoch]
      /\ agents \in Seq([client : Client, epoch : 1..MaxEpoch,
                         status : {"pending", "active", "revoked"}])
      /\ project \in [status : {"active", "archived"}, visible : BOOLEAN, open : BOOLEAN]
  BY <1>1 DEF AccessInv, AgentRow
<1>6. versions \in Seq([kind : Kind, prev : Nat, body : Nat]) /\ active \in [Kind -> Version]
  BY <1>1 DEF VersionsInv, VersionRow
<1>7. /\ records \in Seq(RecordRow) /\ events \subseteq [record : Row, action : Action]
      /\ answers \subseteq [id : Submission, record : Row]
  BY <1>1 DEF RecordsInv
<1> QED BY <1>3, <1>4, <1>5, <1>6, <1>7, <1>8 DEF TypeOK, RecordRow, Visibility, Disposition

LEMMA Histories == IInv => OneHistory
<1> SUFFICES ASSUME IInv, NEW v \in Version
             PROVE  LET later == {w \in Version : versions[w].prev = v}
                    IN  /\ Cardinality(later) <= 1
                        /\ later = {} => active[versions[v].kind] = v
                        /\ \A w \in later : w > v /\ versions[w].kind = versions[v].kind
  BY DEF OneHistory
<1> DEFINE later == {w \in Version : versions[w].prev = v}
<1>1. VersionsInv /\ PacketsInv
  BY DEF IInv
<1>2. v \in Nat /\ v # 0 /\ Version \subseteq Nat
  BY <1>1, PlanIs
<1>3. \A x, y \in later : x = y
  BY <1>1, <1>2 DEF VersionsInv
<1>4. later = {} => active[versions[v].kind] = v
  BY <1>1 DEF VersionsInv
<1>5. \A w \in later : v < w /\ versions[w].kind = versions[v].kind
  BY <1>1, <1>2 DEF VersionsInv
<1>6. Cardinality(later) <= 1
  <2> HIDE DEF later
  <2> QED BY <1>3, AtMostOne
<1>7. \A w \in later : w > v
  BY <1>2, <1>5
<1> QED BY <1>4, <1>5, <1>6, <1>7

LEMMA CurrentPacket == IInv => OneCurrentPacket
<1> SUFFICES ASSUME IInv, NEW p \in Packet
             PROVE  /\ packets[p].prior = p - 1
                    /\ Cardinality({q \in Packet : packets[q].prior = p}) <= 1
  BY DEF OneCurrentPacket
<1> DEFINE S == {q \in Packet : packets[q].prior = p}
<1>1. VersionsInv /\ PacketsInv /\ Packet \subseteq Nat
  BY PlanIs DEF IInv
<1>2. \A q \in Packet : packets[q].prior = q - 1
  BY <1>1 DEF PacketsInv
<1>3. \A x, y \in S : x = y
  BY <1>1, <1>2
<1>4. Cardinality(S) <= 1
  <2> HIDE DEF S
  <2> QED BY <1>3, AtMostOne
<1> QED BY <1>2, <1>4

(***************************************************************************)
(* Collaboration.CollaborationInv, for every instance: one history of each *)
(* kind of version, one current packet, and every recorded body in the     *)
(* store, whatever tabs and refreshes race and however batches seem to     *)
(* fail (the guard INSERT of the brief, collaboration_packet_rotations,    *)
(* queueCollaborationObjectCleanup).                                       *)
(***************************************************************************)
THEOREM RecordsStand == Spec => []CollaborationInv
<1>1. IInv => CollaborationInv
  BY Types, Histories, CurrentPacket DEF IInv, StoreInv, CollaborationInv
<1> QED BY Invariance, <1>1, PTL

(***************************************************************************)
(* Collaboration.SubmittedOnce, for every instance: a submission is        *)
(* recorded once however often it is delivered, and receipts and handoffs  *)
(* name what they belong to (submitCollaborationRecord).                   *)
(***************************************************************************)
THEOREM RecordedOnce == Spec => []SubmittedOnce
<1>1. ASSUME IInv PROVE SubmittedOnce
  <2>1. RecordsInv
    BY <1>1 DEF IInv
  <2>2. ASSUME NEW id \in Submission PROVE Cardinality(Stored(id)) <= 1
    <3>1. \A x, y \in Stored(id) : x = y
      BY <2>1 DEF Stored, RecordsInv
    <3> QED BY <3>1, AtMostOne
  <2>3. \A a \in answers : records[a.record].id = a.id
    BY <2>1 DEF RecordsInv
  <2>4. \A r \in Row : records[r].type = "handoff" =>
           LET a == records[records[r].attempt]
           IN  a.type = "attempt" /\ a.client = records[r].client /\ a.packet = records[r].packet
    BY <2>1 DEF RecordsInv, Follows
  <2> QED BY <2>2, <2>3, <2>4 DEF SubmittedOnce
<1> QED BY Invariance, <1>1, PTL

(***************************************************************************)
(* Collaboration.AuthorityEnds, for every instance: the vault grant of a   *)
(* usable connection, and the approval that gave it, however often that    *)
(* was repaired, are of the time since the vault was last revoked          *)
(* (approvals of an older release excepted), a client has one connection,  *)
(* and none outlives the archiving or hiding of the project (revokeVault,  *)
(* repairApprovedProjectAuthorization, activateCollaborationGrant).        *)
(***************************************************************************)
THEOREM AuthorityIsOver == Spec => []AuthorityEnds
<1>1. ASSUME IInv PROVE AuthorityEnds
  <2>1. AccessInv
    BY <1>1 DEF IInv
  <2>2. \A g \in Grant : Usable(g) => agents[grants[g].agent].epoch = vault.epoch
    BY <2>1 DEF AccessInv, Usable
  <2>3. ASSUME NEW c \in Client
        PROVE  Cardinality({g \in Grant : grants[g].client = c /\ Live(g)}) <= 1
    <3>1. \A x, y \in {g \in Grant : grants[g].client = c /\ Live(g)} : x = y
      BY <2>1 DEF AccessInv
    <3> QED BY <3>1, AtMostOne
  <2>4. ASSUME NEW c \in Client
        PROVE  Cardinality({n \in Agent : agents[n].client = c /\ agents[n].status = "active"}) <= 1
    <3>1. \A x, y \in {n \in Agent : agents[n].client = c /\ agents[n].status = "active"} : x = y
      BY <2>1 DEF AccessInv
    <3> QED BY <3>1, AtMostOne
  <2>5. ~Discoverable => \A g \in Grant : ~Live(g)
    BY <2>1 DEF AccessInv
  <2>6. ASSUME NEW a \in Approval, ~approvals[a].legacy, Usable(approvals[a].grant)
        PROVE  agents[approvals[a].agent].epoch = vault.epoch
    BY <2>1, <2>6 DEF AccessInv, ApprovalsInv, Usable, Live
  <2> QED BY <2>2, <2>3, <2>4, <2>5, <2>6 DEF AuthorityEnds
<1> QED BY Invariance, <1>1, PTL

\* The connections that were revoked stay so.
StayRevoked ==
    \A g \in Grant : grants[g].status = "revoked" => grants'[g].status = "revoked"

\* No approval loses a connection that was revoked.
StayNamed ==
    \A a \in Approval : approvals'[a].grant # approvals[a].grant =>
        approvals[a].grant = Unclaimed \/ grants[approvals[a].grant].status # "revoked"

LEMMA RevokedStay ==
    ASSUME AccessInv, NEW which, grants' = Revoked(grants, which) PROVE StayRevoked
<1>1. grants \in Seq(GrantRow)
  BY DEF AccessInv
<1>2. \A g \in Grant : grants'[g].status \in {grants[g].status, "revoked"}
  BY <1>1, RevokedGrants DEF Grant
<1> QED BY <1>2 DEF StayRevoked

LEMMA ConnectedStay ==
    ASSUME AccessInv, NEW n \in Agent, NEW status \in {"pending", "active"},
           grants' = Connected(n, status)
    PROVE  StayRevoked
<1>1. \A g \in Grant : grants'[g].status \in {grants[g].status, "revoked"}
  BY ConnectedIs
<1> QED BY <1>1 DEF StayRevoked

\* An approval is changed in one field.
LEMMA ApprovalEdit ==
    ASSUME AccessInv, NEW a \in Approval, NEW row,
           approvals' = [approvals EXCEPT ![a] = row],
           \/ row.grant = approvals[a].grant
           \/ approvals[a].grant = Unclaimed
           \/ grants[approvals[a].grant].status # "revoked"
    PROVE  StayNamed
<1>1. \A b \in Approval : approvals'[b] = IF b = a THEN row ELSE approvals[b]
  BY DEF Approval
<1> QED BY <1>1 DEF StayNamed

LEMMA ConnectStays ==
    ASSUME IInv, NEW s \in Slot, Connect(s) PROVE StayRevoked /\ StayNamed
<1>1. AccessInv /\ ApprovalsInv /\ CallsInv
  BY DEF IInv, AccessInv
<1>2. UNCHANGED grants => StayRevoked
  BY DEF StayRevoked
<1>3. UNCHANGED approvals => StayNamed
  BY DEF StayNamed
<1>4. ASSUME NEW c \in Client, CreateAgent(s, c) PROVE StayRevoked /\ StayNamed
  BY <1>2, <1>3, <1>4 DEF CreateAgent
<1>5. ASSUME ActivateAgent(s) PROVE StayRevoked /\ StayNamed
  BY <1>2, <1>3, <1>5 DEF ActivateAgent
<1>6. ASSUME NEW n \in Agent, Approve(s, n) PROVE StayRevoked /\ StayNamed
  <2>1. StayRevoked
    BY <1>1, <1>6, ConnectedStay DEF Approve
  <2>2. PICK row : approvals' = Append(approvals, row)
    BY <1>6 DEF Approve
  <2>3. Len(approvals) \in Nat /\ Approval = 1..Len(approvals) /\ approvals \in Seq(ApprovalRow)
    BY <1>1, ApprovalsAre DEF ApprovalsInv
  <2>4. \A a \in Approval : approvals'[a] = approvals[a]
    BY <2>2, <2>3
  <2> QED BY <2>1, <2>4 DEF StayNamed
<1>7. ASSUME NEW a \in Approval, AskGrant(s, a) \/ \E n \in Agent : BeginRepair(s, a, n)
      PROVE  StayRevoked /\ StayNamed
  BY <1>2, <1>3, <1>7 DEF BeginRepair, AskGrant, access
<1>8. ASSUME CommitRepair(s) PROVE StayRevoked /\ StayNamed
  <2>1. PICK n, a, new, row : /\ n = call[s].agent /\ a = call[s].approval
                              /\ new = Len(grants) + 1
                              /\ row = [approvals[a] EXCEPT !.grant = new]
    OBVIOUS
  <2>2. /\ call[s].pc = "repair"
        /\ \/ /\ Repairable(a, n) /\ grants' = Connected(n, "active")
              /\ approvals' = [approvals EXCEPT ![a].grant = new]
           \/ UNCHANGED <<grants, approvals>>
    BY <1>8, <2>1 DEF CommitRepair, Unmoved
  <2>3. n \in Agent /\ a \in Approval
    BY <1>1, <2>1, <2>2 DEF CallsInv, CallFits
  <2>4. ASSUME Repairable(a, n), grants' = Connected(n, "active"),
               approvals' = [approvals EXCEPT ![a].grant = new]
        PROVE  StayRevoked /\ StayNamed
    <3>1. StayRevoked
      BY <1>1, <2>3, <2>4, ConnectedStay
    <3>2. approvals' = [approvals EXCEPT ![a] = row]
      BY <2>1, <2>4
    <3>3. approvals[a].grant = Unclaimed \/ grants[approvals[a].grant].status # "revoked"
      BY <2>4 DEF Repairable, Renewable
    <3> QED BY <1>1, <2>3, <3>1, <3>2, <3>3, ApprovalEdit
  <2> QED BY <1>2, <1>3, <2>2, <2>4
<1>9. ASSUME CreateGrant(s) PROVE StayRevoked /\ StayNamed
  <2>1. PICK n, which : /\ n = approvals[call[s].approval].agent
                        /\ which = Superseded(agents[n].client)
    OBVIOUS
  <2>2. /\ call[s].pc = "ask" /\ UNCHANGED approvals
        /\ grants' = Connected(n, "pending") \/ grants' = Revoked(grants, which)
    BY <1>9, <2>1 DEF CreateGrant
  <2>3. n \in Agent
    BY <1>1, <2>1, <2>2 DEF CallsInv, CallFits, ApprovalsInv
  <2> QED BY <1>1, <1>3, <2>2, <2>3, ConnectedStay, RevokedStay
<1>10. ASSUME ActivateGrant(s) PROVE StayRevoked /\ StayNamed
  <2>1. PICK g : g = call[s].grant
    OBVIOUS
  <2>2. /\ UNCHANGED approvals
        /\ \/ grants[g].status = "pending" /\ grants' = [grants EXCEPT ![g].status = "active"]
           \/ grants' = Revoked(grants, {g})
    BY <1>10, <2>1 DEF ActivateGrant
  <2>3. ASSUME grants[g].status = "pending", grants' = [grants EXCEPT ![g].status = "active"]
        PROVE  StayRevoked
    <3>1. \A h \in Grant : h # g => grants'[h] = grants[h]
      BY <2>3 DEF Grant
    <3> QED BY <2>3, <3>1 DEF StayRevoked
  <2> QED BY <1>1, <1>3, <2>2, <2>3, RevokedStay
<1>11. ASSUME CompleteGrant(s) PROVE StayRevoked /\ StayNamed
  <2>1. PICK g, a, row : /\ g = call[s].grant /\ a = call[s].approval
                         /\ row = [approvals[a] EXCEPT !.grant = g]
    OBVIOUS
  <2>2. /\ call[s].pc = "complete"
        /\ \/ /\ approvals[a].grant = Unclaimed /\ UNCHANGED grants
              /\ approvals' = [approvals EXCEPT ![a].grant = g]
           \/ grants' = Revoked(grants, {g}) /\ UNCHANGED approvals
    BY <1>11, <2>1 DEF CompleteGrant
  <2>3. a \in Approval
    BY <1>1, <2>1, <2>2 DEF CallsInv, CallFits
  <2>4. ASSUME approvals[a].grant = Unclaimed, UNCHANGED grants,
               approvals' = [approvals EXCEPT ![a].grant = g]
        PROVE  StayRevoked /\ StayNamed
    <3>1. approvals' = [approvals EXCEPT ![a] = row]
      BY <2>1, <2>4
    <3> QED BY <1>1, <1>2, <2>3, <2>4, <3>1, ApprovalEdit
  <2>5. ASSUME grants' = Revoked(grants, {g}), UNCHANGED approvals
        PROVE  StayRevoked /\ StayNamed
    BY <1>1, <1>3, <2>5, RevokedStay
  <2> QED BY <2>2, <2>4, <2>5
<1>12. ASSUME BeginRevokeAll(s) \/ RevokeConnections(s) PROVE StayRevoked /\ StayNamed
  <2>1. UNCHANGED approvals /\ \E which : grants' = Revoked(grants, which)
    BY <1>12 DEF BeginRevokeAll, RevokeConnections
  <2> QED BY <1>1, <1>3, <2>1, RevokedStay
<1> QED BY <1>4, <1>5, <1>6, <1>7, <1>8, <1>9, <1>10, <1>11, <1>12 DEF Connect

LEMMA TurnStays ==
    ASSUME IInv,
           Revoke \/ \E b \in BOOLEAN : SetArchived(b) \/ SetVisible(b) \/ SetOpen(b)
    PROVE  StayRevoked /\ StayNamed
<1>1. AccessInv
  BY DEF IInv
<1>2. ASSUME UNCHANGED approvals, UNCHANGED grants \/ \E which : grants' = Revoked(grants, which)
      PROVE  StayRevoked /\ StayNamed
  <2>1. StayNamed
    BY <1>2 DEF StayNamed
  <2>2. CASE UNCHANGED grants
    BY <2>1, <2>2 DEF StayRevoked
  <2>3. CASE \E which : grants' = Revoked(grants, which)
    BY <1>1, <2>1, <2>3, RevokedStay
  <2> QED BY <1>2, <2>2, <2>3
<1>3. ASSUME NEW b \in BOOLEAN, SetArchived(b) \/ SetVisible(b) \/ SetOpen(b)
      PROVE  StayRevoked /\ StayNamed
  BY <1>2, <1>3 DEF SetArchived, SetVisible, SetOpen, access
<1>4. ASSUME NEW g \in Grant, RevokeGrant(g) PROVE StayRevoked /\ StayNamed
  BY <1>2, <1>4 DEF RevokeGrant
<1>5. ASSUME NEW g \in Grant, Lapse(g) PROVE StayRevoked /\ StayNamed
  <2>1. grants' = [grants EXCEPT ![g].lapsed = TRUE] /\ grants[g].status = "active"
        /\ UNCHANGED approvals
    BY <1>5 DEF Lapse
  <2>2. \A h \in Grant : h # g => grants'[h] = grants[h]
    BY <2>1 DEF Grant
  <2> QED BY <2>1, <2>2 DEF StayRevoked, StayNamed
<1>6. ASSUME NEW n \in Agent, RevokeAgent(n) PROVE StayRevoked /\ StayNamed
  BY <1>2, <1>6 DEF RevokeAgent
<1>7. ASSUME NEW a \in Approval, Supersede(a) PROVE StayRevoked /\ StayNamed
  <2>1. PICK row : row = [approvals[a] EXCEPT !.status = "expired"]
    OBVIOUS
  <2>2. approvals' = [approvals EXCEPT ![a] = row] /\ UNCHANGED grants
    BY <1>7, <2>1 DEF Supersede
  <2>3. row.grant = approvals[a].grant
    BY <1>1, <2>1, ApprovalsAre DEF ApprovalRow
  <2> QED BY <1>1, <2>2, <2>3, ApprovalEdit DEF StayRevoked
<1>8. ASSUME RevokeVault \/ Pair PROVE StayRevoked /\ StayNamed
  BY <1>2, <1>8 DEF RevokeVault, Pair
<1> QED BY <1>3, <1>4, <1>5, <1>6, <1>7, <1>8 DEF Revoke

\* Nothing but the steps of authority writes connections and approvals.
LEMMA OthersStay ==
    ASSUME NEW s \in Slot, Submit(s) \/ Steer(s) \/ Clean(s) \/ Abandon(s)
    PROVE  UNCHANGED access
<1>1. ASSUME Submit(s) PROVE UNCHANGED access
  BY <1>1 DEF Submit, BeginSubmit, ReadReceipt, CommitSubmit, SubmitAgain
<1>2. ASSUME NEW kinds \in SUBSET Kind \ {{}}, BeginBrief(s, kinds) PROVE UNCHANGED access
  BY <1>2 DEF BeginBrief
<1>3. ASSUME BeginRotation(s) \/ (\E g \in Grant : BeginRefresh(s, g)) \/ SelectRecords(s)
      PROVE  UNCHANGED access
  BY <1>3 DEF BeginRotation, BeginRefresh, SelectRecords
<1>4. ASSUME NEW lost \in BOOLEAN, CommitBrief(s, lost) \/ CommitRotation(s, lost)
      PROVE  UNCHANGED access
  BY <1>4 DEF CommitBrief, CommitRotation
<1>5. ASSUME NEW r \in Row, NEW action \in Action, BeginAction(s, r, action)
      PROVE  UNCHANGED access
  BY <1>5 DEF BeginAction
<1>6. ASSUME Decide(s) \/ CommitAction(s) PROVE UNCHANGED access
  BY <1>6 DEF Decide, CommitAction
<1>7. ASSUME Clean(s) \/ Abandon(s) PROVE UNCHANGED access
  BY <1>7 DEF Clean, BeginCollection, Collect, Abandon
<1> QED BY <1>1, <1>2, <1>3, <1>4, <1>5, <1>6, <1>7 DEF Steer

(***************************************************************************)
(* Collaboration.RevocationFinal, for every instance: a connection that    *)
(* was revoked stays so, and no repair gives the approval that names it    *)
(* another, though the owner revokes between what the repair reads and     *)
(* what it writes (repairApprovedProjectAuthorization).                    *)
(***************************************************************************)
THEOREM RevokedForGood == Spec => RevocationFinal
<1> DEFINE Final == \A a \in Approval :
                       LET g == approvals[a].grant
                       IN  g # Unclaimed /\ grants[g].status = "revoked" =>
                              approvals'[a].grant = g /\ grants'[g].status = "revoked"
<1>1. ASSUME IInv, [Next]_vars PROVE StayRevoked /\ StayNamed
  <2>1. UNCHANGED access => StayRevoked /\ StayNamed
    BY DEF access, StayRevoked, StayNamed
  <2>2. ASSUME NEW s \in Slot, Connect(s) \/ Submit(s) \/ Steer(s) \/ Clean(s) \/ Abandon(s)
        PROVE  StayRevoked /\ StayNamed
    BY <1>1, <2>1, <2>2, ConnectStays, OthersStay
  <2>3. ASSUME NEW p \in Packet, Expire(p) PROVE UNCHANGED access
    BY <2>3 DEF Expire
  <2>4. UNCHANGED vars => UNCHANGED access
    BY DEF vars
  <2> QED BY <1>1, <2>1, <2>2, <2>3, <2>4, TurnStays DEF Next
<1>2. ASSUME IInv, [Next]_vars PROVE Final
  <2>1. \A a \in Approval : approvals[a].grant # Unclaimed => approvals[a].grant \in Grant
    BY <1>2 DEF IInv, AccessInv, ApprovalsInv
  <2>2. StayRevoked /\ StayNamed
    BY <1>1, <1>2
  <2> QED BY <2>1, <2>2 DEF StayRevoked, StayNamed
<1>3. IInv /\ [Next]_vars => [Final]_vars
  BY <1>2
<1> HIDE DEF Final
<1>4. Spec => [][Final]_vars
  BY Invariance, <1>3, PTL DEF Spec
<1> QED BY <1>4 DEF RevocationFinal, Final

(***************************************************************************)
(* Collaboration.SharedByOwner, for every instance: a record of a client   *)
(* that is shared, or carried by a work packet, was shared by the owner,   *)
(* whatever stale states were read (applyOwnerRecordAction,                *)
(* createContinuationWorkPacket).                                          *)
(***************************************************************************)
THEOREM OwnerShares == Spec => []SharedByOwner
<1>1. ASSUME IInv PROVE SharedByOwner
  <2>1. \A r \in Row : records[r].visibility = "shared" => Shared(r)
    BY <1>1 DEF IInv, RecordsInv
  <2>2. \A p \in Packet : \A r \in packets[p].carried : records[r].client # Owner => Shared(r)
    BY <1>1 DEF IInv, PacketsInv, Carriable
  <2> QED BY <2>1, <2>2 DEF SharedByOwner, Shared
<1> QED BY Invariance, <1>1, PTL

=============================================================================
