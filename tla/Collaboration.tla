--------------------------- MODULE Collaboration ---------------------------
(***************************************************************************)
(* Collaboration on one project: the authority of its clients, what they   *)
(* submit, what the owner decides about it, the brief, the work packets    *)
(* that carry it to other clients, and the collection of bodies nobody     *)
(* names.                                                                  *)
(*                                                                         *)
(* A request is a call in a slot.  It reads what it needs, puts its body   *)
(* in R2, and commits in one D1 batch; other calls run in between, and a   *)
(* call may be lost at any step.  A batch may commit although the worker   *)
(* is told that it failed.                                                 *)
(*                                                                         *)
(* What is abstracted. The project has one work item and one vault, and    *)
(* its knowledge space never changes, as in the code. A request for the    *)
(* project appears when it is approved: which of them are pending, and     *)
(* which vault grant each was last bound to, is the choice of the grant it *)
(* is approved under. The owner's own import needs no connection and is    *)
(* left out, and a batch refused because two first submissions of one      *)
(* client collide on its participant row ends as a lost call does. A       *)
(* submission, its record and its idempotency key have one identity, and   *)
(* what it says follows from it (`sent'). Record and receipt are one row:  *)
(* one batch inserts both. The bodies of one batch are put and queued      *)
(* together, so one object stands for them; a submission's object is named *)
(* by its content, every other one by a random identity; only the latter   *)
(* are ever queued here. Artifacts and reviews go the way of handoffs. Two *)
(* packets of the same second may be read in the wrong order: the older    *)
(* one is rotated already, and the call answers with its successor and     *)
(* changes nothing.                                                        *)
(***************************************************************************)
EXTENDS Naturals, Sequences, FiniteSets

CONSTANTS
    Client,        \* OAuth clients
    Slot,          \* requests in flight
    Submission,    \* identities of submissions
    Owner,         \* the producer of a decision
    Action,        \* what the owner does with a record
    MaxAgents,     \* bound: vault grants
    MaxGrants,     \* bound: collaboration grants
    MaxEpoch,      \* bound: pairings of the vault
    MaxPackets,    \* bound: work packets
    MaxVersions,   \* bound: versions of the brief, both kinds together
    MaxRows,       \* bound: records
    MaxBodies,     \* bound: bodies with a random identity
    MaxTurns,      \* bound: turns of authority, project and clock between requests
    MaxCalls,      \* bound: requests
    MaxLost        \* bound: batches that commit without an answer

Kind == {"project", "work"}

\* Clients, submissions and decisions have identities of their own.
ASSUME CollaborationAssumption ==
    /\ IsFiniteSet(Client) /\ Owner \notin Client
    /\ Client \cap Submission = {} /\ "decision" \notin Submission
    /\ MaxEpoch >= 1
    /\ Action \subseteq {"share", "accept", "reject", "quarantine"}
    /\ \A n \in {MaxAgents, MaxGrants, MaxEpoch, MaxPackets, MaxVersions, MaxRows,
                 MaxBodies, MaxTurns, MaxCalls, MaxLost} : n \in Nat

VARIABLES
    vault,     \* the row of vaults; epoch counts its pairings
    agents,    \* rows of agent_grants
    grants,    \* rows of collaboration_grants; lapsed: expires_at is past
    approvals, \* approved rows of project_initialization_requests
    project,   \* status and agent_visibility, and whether the work item is open
    versions,  \* project versions and work item versions
    active,    \* the active version of each kind
    packets,   \* work packets, each with the packet it was rotated from
    records,   \* submitted records with their receipts, and decisions
    events,    \* rows of collaboration_owner_events about records
    objects,   \* keys of the bodies in R2
    queue,     \* rows of collaboration_gc_objects
    bodies,    \* random body identities used
    sent,      \* what a client made of each submission
    answers,   \* receipts returned to clients
    call,      \* requests in flight
    spent      \* calls, turns and lost answers so far

access == <<vault, agents, grants, approvals>>
plan == <<versions, active, packets>>
work == <<records, events>>
store == <<objects, queue, bodies>>
client == <<sent, answers>>
vars == <<access, project, plan, work, store, client, call, spent>>

Idle == [pc |-> "idle"]

Live(g) == grants[g].status \in {"active", "pending"}
Agent == DOMAIN agents
Grant == DOMAIN grants
Approval == DOMAIN approvals
Packet == DOMAIN packets
Row == DOMAIN records
Version == DOMAIN versions

\* A request comes in.
Begin(s, request) ==
    /\ call[s] = Idle /\ spent.calls < MaxCalls
    /\ call' = [call EXCEPT ![s] = request]
    /\ spent' = [spent EXCEPT !.calls = @ + 1]

Goto(s, request) == call' = [call EXCEPT ![s] = request] /\ UNCHANGED spent

Done(s) == Goto(s, Idle)

\* A batch commits; when its answer is lost the worker takes it for a failure.
Answered(s, lost) ==
    /\ call' = [call EXCEPT ![s] = Idle]
    /\ lost => spent.lost < MaxLost
    /\ spent' = IF lost THEN [spent EXCEPT !.lost = @ + 1] ELSE spent

\* Something that is done in one step and leaves the requests alone.
Turn ==
    /\ spent.turns < MaxTurns
    /\ spent' = [spent EXCEPT !.turns = @ + 1]
    /\ UNCHANGED call

Revoked(rows, which) ==
    [i \in DOMAIN rows |->
       IF i \in which /\ rows[i].status \in {"active", "pending"}
       THEN [rows[i] EXCEPT !.status = "revoked"] ELSE rows[i]]

-----------------------------------------------------------------------------
(* Authority *)

\* The approval of a vault connection: createPendingAgentGrant.
CreateAgent(s, c) ==
    /\ vault.status = "active" /\ Len(agents) < MaxAgents
    /\ agents' = Append(agents, [client |-> c, epoch |-> vault.epoch, status |-> "pending"])
    /\ Begin(s, [pc |-> "agent", agent |-> Len(agents) + 1])
    /\ UNCHANGED <<vault, grants, approvals, project, plan, work, store, client>>

\* The active grants of the same client that this one replaces.
Replaced(n) ==
    {m \in Agent \ {n} : agents[m].status = "active" /\ agents[m].client = agents[n].client}

\* activateAgentGrant; the authorization in between may also fail, and its
\* grant is then revoked.
ActivateAgent(s) ==
    LET n == call[s].agent
    IN  /\ call[s].pc = "agent"
        /\ agents' = IF agents[n].status # "pending" THEN agents
                     ELSE [Revoked(agents, Replaced(n)) EXCEPT ![n].status = "active"]
        /\ Done(s)
        /\ UNCHANGED <<vault, grants, approvals, project, plan, work, store, client>>

Discoverable == project.status = "active" /\ project.visible

\* readCollaborationGrant and authorizeCollaboration.
Usable(g) ==
    /\ grants[g].status = "active" /\ ~grants[g].lapsed
    /\ agents[grants[g].agent].status = "active"
    /\ vault.status = "active" /\ Discoverable

\* The connections a new one replaces.
Superseded(c) == {g \in Grant : grants[g].client = c}

\* A connection under the vault grant n, in the place of the client's others.
Connected(n, status) ==
    Append(Revoked(grants, Superseded(agents[n].client)),
           [client |-> agents[n].client, agent |-> n, status |-> status, lapsed |-> FALSE])

\* approveInitializationWithProjectGrant: everything that was read before is
\* compared again in the batch, which makes the connection, ends the client's
\* others and records the approval, or does nothing.  A work item the request
\* continues is opened again.
Approve(s, n) ==
    /\ agents[n].status = "active" /\ vault.status = "active" /\ Discoverable
    /\ Len(grants) < MaxGrants
    /\ grants' = Connected(n, "active")
    /\ approvals' = Append(approvals, [agent |-> n, grant |-> Len(grants) + 1,
                                       status |-> "approved", legacy |-> FALSE])
    /\ project' = [project EXCEPT !.open = TRUE]
    /\ Begin(s, Idle)
    /\ UNCHANGED <<vault, agents, plan, work, store, client>>

\* supersedeInitializationForFreshApproval.
Supersede(a) ==
    /\ approvals[a].status = "approved"
    /\ approvals' = [approvals EXCEPT ![a].status = "expired"]
    /\ Turn
    /\ UNCHANGED <<vault, agents, grants, project, plan, work, store, client>>

\* expires_at passes.
Lapse(g) ==
    /\ grants[g].status = "active" /\ ~grants[g].lapsed
    /\ grants' = [grants EXCEPT ![g].lapsed = TRUE]
    /\ Turn
    /\ UNCHANGED <<vault, agents, approvals, project, plan, work, store, client>>

\* An approval made by an older release names no connection yet.
Unclaimed == 0

\* readActiveProjectAuthorization.
Resolved(n) ==
    \E a \in Approval :
       /\ approvals[a].status = "approved" /\ approvals[a].grant # Unclaimed
       /\ Usable(approvals[a].grant) /\ grants[approvals[a].grant].agent = n

\* The connection g may give way to one under n: it has lapsed, or its vault
\* grant ended.  An active vault grant was activated after every ended one of
\* its client, so the comparison of activated_at with revoked_at adds nothing.
Renewable(g, n) ==
    /\ grants[g].status = "active"
    /\ IF grants[g].agent = n THEN grants[g].lapsed
       ELSE agents[grants[g].agent].status = "revoked"

\* The conditions a repair reads first and states again in its batch.
Repairable(a, n) ==
    /\ approvals[a].status = "approved"
    /\ agents[approvals[a].agent].client = agents[n].client
    /\ agents[n].status = "active" /\ vault.status = "active" /\ Discoverable
    /\ IF approvals[a].grant = Unclaimed THEN approvals[a].agent = n
       ELSE Renewable(approvals[a].grant, n)

\* resolveApprovedProjectAuthorization: a client asks for the project under the
\* vault grant n, has no connection that n carries, and an approval of the
\* client gives it one.  Which of several approvals is taken is left open.
BeginRepair(s, a, n) ==
    /\ ~Resolved(n) /\ Repairable(a, n)
    /\ Begin(s, [pc |-> "repair", approval |-> a, agent |-> n, expected |-> approvals[a].grant])
    /\ UNCHANGED <<access, project, plan, work, store, client>>

\* (mutant) only the approval is compared again
SameApproval(s) ==
    approvals[call[s].approval].status = "approved"
    /\ approvals[call[s].approval].grant = call[s].expected

\* What the INSERT of the repair selects on.
Unmoved(s) ==
    /\ approvals[call[s].approval].grant = call[s].expected
    /\ Repairable(call[s].approval, call[s].agent)

\* repairApprovedProjectAuthorization.
CommitRepair(s) ==
    LET c == call[s]
    IN  /\ c.pc = "repair"
        /\ IF Unmoved(s)
           THEN /\ Len(grants) < MaxGrants
                /\ grants' = Connected(c.agent, "active")
                /\ approvals' = [approvals EXCEPT ![c.approval].grant = Len(grants) + 1]
           ELSE UNCHANGED <<grants, approvals>>
        /\ Done(s)
        /\ UNCHANGED <<vault, agents, project, plan, work, store, client>>

\* The consent to an approval of an older release, up to the grant's batch.
\* The approval, the project and the vault grant are read one after another;
\* as the vault grant is active once and for one stretch, and the project and
\* the approval are compared again below, one step stands for the three reads.
AskGrant(s, a) ==
    /\ approvals[a].status = "approved" /\ approvals[a].grant = Unclaimed
    /\ Discoverable /\ agents[approvals[a].agent].status = "active"
    /\ Begin(s, [pc |-> "ask", approval |-> a])
    /\ UNCHANGED <<access, project, plan, work, store, client>>

\* createPendingCollaborationGrant: the client's earlier connections end even
\* when the project has become unavailable.
CreateGrant(s) ==
    LET a == call[s].approval
        n == approvals[a].agent
    IN  /\ call[s].pc = "ask"
        /\ IF Discoverable
           THEN /\ Len(grants) < MaxGrants
                /\ grants' = Connected(n, "pending")
                /\ Goto(s, [pc |-> "grant", approval |-> a, grant |-> Len(grants) + 1])
           ELSE grants' = Revoked(grants, Superseded(agents[n].client)) /\ Done(s)
        /\ UNCHANGED <<vault, agents, approvals, project, plan, work, store, client>>

\* activateCollaborationGrant; a grant that cannot be activated is revoked.
ActivateGrant(s) ==
    LET g == call[s].grant
    IN  /\ call[s].pc = "grant"
        /\ IF grants[g].status = "pending" /\ Discoverable
           THEN /\ grants' = [grants EXCEPT ![g].status = "active"]
                /\ Goto(s, [call[s] EXCEPT !.pc = "complete"])
           ELSE grants' = Revoked(grants, {g}) /\ Done(s)
        /\ UNCHANGED <<vault, agents, approvals, project, plan, work, store, client>>

\* completeProjectAuthorization; when the grant, the project or the approval
\* has changed the grant is revoked.
CompleteGrant(s) ==
    LET g == call[s].grant
        a == call[s].approval
    IN  /\ call[s].pc = "complete"
        /\ IF /\ approvals[a].status = "approved" /\ approvals[a].grant = Unclaimed
              /\ grants[g].status = "active" /\ Discoverable
           THEN approvals' = [approvals EXCEPT ![a].grant = g] /\ UNCHANGED grants
           ELSE grants' = Revoked(grants, {g}) /\ UNCHANGED approvals
        /\ Done(s)
        /\ UNCHANGED <<vault, agents, project, plan, work, store, client>>

RevokeGrant(g) ==
    /\ Live(g)
    /\ grants' = Revoked(grants, {g})
    /\ Turn
    /\ UNCHANGED <<vault, agents, approvals, project, plan, work, store, client>>

From(which) == {g \in Grant : grants[g].agent \in which}

\* revokeAgentGrant; of one that has ended the connections are still revoked.
RevokeAgent(n) ==
    /\ agents' = Revoked(agents, {n}) /\ grants' = Revoked(grants, From({n}))
    /\ Turn
    /\ UNCHANGED <<vault, approvals, project, plan, work, store, client>>

\* (mutant) what an approval under way and an earlier vault grant hold stays
ActiveAgents == {n \in Agent : agents[n].status = "active"}

\* The vault grants that end with the vault, with the connections under them.
OfVault == Agent

\* revokeVault, which may be asked for again.
RevokeVault ==
    /\ vault' = [vault EXCEPT !.status = "revoked"]
    /\ agents' = Revoked(agents, OfVault) /\ grants' = Revoked(grants, From(OfVault))
    /\ Turn
    /\ UNCHANGED <<approvals, project, plan, work, store, client>>

\* exchangePairingGrant: the same vault is paired again.  Pairing a vault that
\* is active replaces its credential and leaves its grants: nothing changes
\* here, and epoch counts the pairings that followed a revocation.
Pair ==
    /\ vault.status = "revoked" /\ vault.epoch < MaxEpoch
    /\ vault' = [status |-> "active", epoch |-> vault.epoch + 1]
    /\ Turn
    /\ UNCHANGED <<agents, grants, approvals, project, plan, work, store, client>>

\* revokeAllAgentGrants: the connections of the vault grants that are live end
\* with them,
BeginRevokeAll(s) ==
    LET live == {n \in Agent : agents[n].status # "revoked"}
    IN  /\ agents' = Revoked(agents, Agent) /\ grants' = Revoked(grants, From(live))
        /\ Begin(s, [pc |-> "revoke"])
        /\ UNCHANGED <<vault, approvals, project, plan, work, store, client>>

\* and revokeAllCollaborationGrants ends the others, which the owner can also
\* ask for alone.
RevokeConnections(s) ==
    /\ IF call[s] = Idle THEN Begin(s, Idle) ELSE call[s].pc = "revoke" /\ Done(s)
    /\ grants' = Revoked(grants, Grant)
    /\ UNCHANGED <<vault, agents, approvals, project, plan, work, store, client>>

\* setCollaborationProjectArchived.
SetArchived(archived) ==
    /\ project.status # (IF archived THEN "archived" ELSE "active")
    /\ project' = [project EXCEPT !.status = IF archived THEN "archived" ELSE "active"]
    /\ grants' = IF archived THEN Revoked(grants, Grant) ELSE grants
    /\ Turn
    /\ UNCHANGED <<vault, agents, approvals, plan, work, store, client>>

\* setCollaborationProjectAgentVisibility.
SetVisible(visible) ==
    /\ project.visible # visible
    /\ project' = [project EXCEPT !.visible = visible]
    /\ grants' = IF visible THEN grants ELSE Revoked(grants, Grant)
    /\ Turn
    /\ UNCHANGED <<vault, agents, approvals, plan, work, store, client>>

\* A lead's completed run closes the work item, the owner reopens it.
SetOpen(open) ==
    /\ project.open # open
    /\ open => project.status = "active"
    /\ project' = [project EXCEPT !.open = open]
    /\ Turn
    /\ UNCHANGED <<access, plan, work, store, client>>

-----------------------------------------------------------------------------
(* The brief *)

Body(n) == <<"body", n>>
ContentOf(id) == <<"submission", id>>

\* updateCollaborationProjectBrief up to its batch, for the versions the owner
\* saw.  With other versions active it is refused or answered from the past.
BeginBrief(s, kinds) ==
    /\ project.status = "active" /\ project.open
    /\ bodies < MaxBodies /\ Len(versions) + Cardinality(kinds) <= MaxVersions
    /\ bodies' = bodies + 1 /\ objects' = objects \cup {Body(bodies + 1)}
    /\ Begin(s, [pc |-> "brief", kinds |-> kinds, expected |-> active, body |-> bodies + 1])
    /\ UNCHANGED <<access, project, plan, work, queue, client>>

\* (mutant) only the UPDATE statements compare the versions
Unguarded(s) == TRUE

\* The INSERT that violates the primary key when a version has moved.
Guarded(s) == active = call[s].expected

NewVersions(s) ==
    LET made == call[s].kinds
        add(seq, k) == IF k \in made
                       THEN Append(seq, [kind |-> k, prev |-> call[s].expected[k],
                                         body |-> call[s].body])
                       ELSE seq
    IN  add(add(versions, "project"), "work")

\* The batch.  The UPDATE of a kind compares its version once more.
CommitBrief(s, lost) ==
    LET new == NewVersions(s)
        id(k) == CHOOSE i \in DOMAIN new \ Version : new[i].kind = k
    IN  /\ call[s].pc = "brief"
        /\ IF Guarded(s)
           THEN /\ Len(new) <= MaxVersions
                /\ versions' = new
                /\ active' = [k \in Kind |->
                      IF k \in call[s].kinds /\ active[k] = call[s].expected[k]
                      THEN id(k) ELSE active[k]]
           ELSE ~lost /\ UNCHANGED <<versions, active>>
        /\ queue' = IF lost \/ ~Guarded(s) THEN queue \cup {Body(call[s].body)} ELSE queue
        /\ Answered(s, lost)
        /\ UNCHANGED <<access, project, packets, work, objects, bodies, client>>

-----------------------------------------------------------------------------
(* Work packets *)

Rotated(p) == \E q \in Packet : packets[q].prior = p

\* The packet that has no successor.
Latest == CHOOSE p \in Packet : ~Rotated(p)

\* (mutant) what the owner accepted is carried on as well
SelectedAccepted ==
    {r \in Row : \/ records[r].disposition = "accepted"
                 \/ records[r].type = "handoff" /\ records[r].visibility = "shared"}

\* The records a continuation carries to every client.
Selected ==
    {r \in Row : \/ records[r].type = "decision" /\ records[r].disposition = "accepted"
                 \/ records[r].type = "handoff" /\ records[r].visibility = "shared"}

\* createContinuationWorkPacket: the active versions are read first.
BeginRotation(s) ==
    /\ project.status = "active" /\ project.open
    /\ Begin(s, [pc |-> "versions", read |-> active])
    /\ UNCHANGED <<access, project, plan, work, store, client>>

\* workPacketNeedsAutomaticRefresh and workPacketVersionsNeedRefresh.
NeedsRefresh(p) ==
    \/ packets[p].expired
    \/ packets[p].project # active["project"] \/ packets[p].work # active["work"]

\* A client reads its current packet, and one that is out of date is continued:
\* refreshContinuationWorkPacketIfNeeded.
BeginRefresh(s, g) ==
    /\ Usable(g) /\ project.open /\ NeedsRefresh(Latest)
    /\ Begin(s, [pc |-> "versions", read |-> active])
    /\ UNCHANGED <<access, project, plan, work, store, client>>

\* Then the latest packet is read and the records it carries on; the body is put.
SelectRecords(s) ==
    /\ call[s].pc = "versions" /\ bodies < MaxBodies
    /\ bodies' = bodies + 1 /\ objects' = objects \cup {Body(bodies + 1)}
    /\ Goto(s, [pc |-> "rotate", read |-> call[s].read, prior |-> Latest,
                carried |-> Selected, body |-> bodies + 1])
    /\ UNCHANGED <<access, project, plan, work, queue, client>>

\* The primary key of collaboration_packet_rotations.
NotContinued(s) == ~Rotated(call[s].prior)

\* The batch.  A call that lost answers with the winner's packet.
CommitRotation(s, lost) ==
    /\ call[s].pc = "rotate"
    /\ IF NotContinued(s)
       THEN /\ Len(packets) < MaxPackets
            /\ packets' = Append(packets,
                 [prior |-> call[s].prior, project |-> call[s].read["project"],
                  work |-> call[s].read["work"], carried |-> call[s].carried,
                  body |-> call[s].body, expired |-> FALSE])
       ELSE ~lost /\ UNCHANGED packets
    /\ queue' = IF lost \/ ~NotContinued(s) THEN queue \cup {Body(call[s].body)} ELSE queue
    /\ Answered(s, lost)
    /\ UNCHANGED <<access, project, versions, active, work, objects, bodies, client>>

\* The lifetime of a packet ends; nobody can use one that was rotated.
Expire(p) ==
    /\ ~packets[p].expired /\ ~Rotated(p)
    /\ packets' = [packets EXCEPT ![p].expired = TRUE]
    /\ Turn
    /\ UNCHANGED <<access, project, versions, active, work, store, client>>

\* requireFreshPacket.
Fresh(p) ==
    /\ project.status = "active" /\ project.open /\ ~Rotated(p) /\ ~packets[p].expired
    /\ packets[p].project = active["project"] /\ packets[p].work = active["work"]

-----------------------------------------------------------------------------
(* Submissions *)

NoSubmission == [client |-> Owner, type |-> "none", packet |-> 0, attempt |-> 0]

\* validateSubmissionParents: a handoff belongs to an attempt of the same
\* client on the same packet.
Parents(sub) ==
    sub.type = "handoff" =>
       /\ sub.attempt \in Row /\ records[sub.attempt].type = "attempt"
       /\ records[sub.attempt].client = sub.client /\ records[sub.attempt].packet = sub.packet

Admitted(g, sub) == Usable(g) /\ Fresh(sub.packet) /\ Parents(sub)

Stored(id) == {r \in Row : records[r].id = id}

\* submitCollaborationRecord up to its batch.  A receipt of this grant is
\* returned; one of another grant is refused as a replay.
BeginSubmit(s, g, id, sub) ==
    /\ sub.client = grants[g].client /\ sent[id] \in {NoSubmission, sub}
    /\ Admitted(g, sub) /\ Stored(id) = {}
    /\ Begin(s, [pc |-> "submit", grant |-> g, id |-> id])
    /\ sent' = [sent EXCEPT ![id] = sub]
    /\ objects' = objects \cup {ContentOf(id)}
    /\ UNCHANGED <<access, project, plan, work, queue, bodies, answers>>

Receipt(id) == [id |-> id, record |-> CHOOSE r \in Stored(id) : TRUE]

ReadReceipt(s, g, id) ==
    /\ \E r \in Stored(id) : records[r].grant = g
    /\ Admitted(g, sent[id])
    /\ Begin(s, Idle)
    /\ answers' = answers \cup {Receipt(id)}
    /\ UNCHANGED <<access, project, plan, work, store, sent>>

\* (mutant) keys are unique for each grant only
UniqueForGrant(s) == \A r \in Stored(call[s].id) : records[r].grant # call[s].grant

\* The primary keys of the record and the receipt, and the unique submission.
Unique(s) == Stored(call[s].id) = {}

\* The batch.  When it fails because the same grant committed the same
\* submission, the call starts over and finds the receipt.
CommitSubmit(s, lost) ==
    LET id == call[s].id
        sub == sent[id]
    IN  /\ call[s].pc = "submit"
        /\ IF Unique(s)
           THEN /\ Len(records) < MaxRows
                /\ records' = Append(records,
                     [id |-> id, type |-> sub.type, client |-> sub.client, grant |-> call[s].grant,
                      packet |-> sub.packet, attempt |-> sub.attempt,
                      visibility |-> "private", disposition |-> "pending"])
           ELSE ~lost /\ UNCHANGED records
        /\ IF Unique(s) /\ ~lost
           THEN /\ answers' = answers \cup {[id |-> id, record |-> Len(records) + 1]}
                /\ Answered(s, lost)
           ELSE /\ UNCHANGED answers
                /\ call' = [call EXCEPT ![s].pc = "again"]
                /\ lost => spent.lost < MaxLost
                /\ spent' = IF lost THEN [spent EXCEPT !.lost = @ + 1] ELSE spent
        /\ UNCHANGED <<access, project, plan, events, store, sent>>

SubmitAgain(s) ==
    LET id == call[s].id
        found == \E r \in Stored(id) : records[r].grant = call[s].grant
    IN  /\ call[s].pc = "again"
        /\ answers' = IF found /\ Admitted(call[s].grant, sent[id])
                      THEN answers \cup {Receipt(id)} ELSE answers
        /\ Done(s)
        /\ UNCHANGED <<access, project, plan, work, store, sent>>

-----------------------------------------------------------------------------
(* The owner *)

\* createOwnerDecision: what it reads never changes.
Decide(s) ==
    /\ Begin(s, Idle) /\ Len(records) < MaxRows
    /\ records' = Append(records,
         [id |-> "decision", type |-> "decision", client |-> Owner, grant |-> 0, packet |-> 0,
          attempt |-> 0, visibility |-> "owner-only", disposition |-> "accepted"])
    /\ UNCHANGED <<access, project, plan, events, store, client>>

\* applyOwnerRecordAction reads the state of the record,
BeginAction(s, r, action) ==
    /\ ~(action = "share" /\ records[r].disposition = "quarantined")
    /\ Begin(s, [pc |-> "act", record |-> r, action |-> action,
                 visibility |-> records[r].visibility, disposition |-> records[r].disposition])
    /\ UNCHANGED <<access, project, plan, work, store, client>>

\* and later writes both parts of it, the one it does not change as it was read.
CommitAction(s) ==
    LET c == call[s]
        new == [accept |-> "accepted", reject |-> "rejected", quarantine |-> "quarantined"]
    IN  /\ c.pc = "act"
        /\ records' = [records EXCEPT ![c.record].visibility =
                          IF c.action = "share" THEN "shared" ELSE c.visibility,
                        ![c.record].disposition =
                          IF c.action = "share" THEN c.disposition ELSE new[c.action]]
        /\ events' = events \cup {[record |-> c.record, action |-> c.action]}
        /\ Done(s)
        /\ UNCHANGED <<access, project, plan, store, client>>

-----------------------------------------------------------------------------
(* Garbage *)

Named ==
    {Body(packets[p].body) : p \in Packet} \cup {Body(versions[v].body) : v \in Version}
    \cup {ContentOf(records[r].id) : r \in {i \in Row : records[i].client # Owner}}

\* runCollaborationGarbageCollection: the queue is read with what is referenced.
BeginCollection(s) ==
    /\ queue # {}
    /\ Begin(s, [pc |-> "collect", garbage |-> queue \ Named, kept |-> queue \cap Named])
    /\ UNCHANGED <<access, project, plan, work, store, client>>

\* Some deletions fail and stay queued; the worker may be lost before the rows
\* of the others are deleted.
Collect(s, erased, finished) ==
    /\ call[s].pc = "collect" /\ erased \subseteq call[s].garbage
    /\ objects' = objects \ erased
    /\ queue' = IF finished THEN queue \ (erased \cup call[s].kept) ELSE queue
    /\ Done(s)
    /\ UNCHANGED <<access, project, plan, work, bodies, client>>

\* A call ends without its next step.
Abandon(s) ==
    /\ call[s] # Idle
    /\ Done(s)
    /\ UNCHANGED <<access, project, plan, work, store, client>>

-----------------------------------------------------------------------------

\* Every client is connected by one approval, has another of an older release
\* that it never took up, and has begun an attempt; its record stands for one
\* more submission, named by the client.
Init ==
    /\ vault = [status |-> "active", epoch |-> 1]
    /\ \E order \in [1..Cardinality(Client) -> Client] :
          /\ {order[i] : i \in DOMAIN order} = Client
          /\ agents = [i \in DOMAIN order |->
                         [client |-> order[i], epoch |-> 1, status |-> "active"]]
          /\ grants = [i \in DOMAIN order |->
                         [client |-> order[i], agent |-> i, status |-> "active",
                          lapsed |-> FALSE]]
          /\ approvals = [i \in 1..(2 * Len(order)) |->
                            IF i <= Len(order)
                            THEN [agent |-> i, grant |-> i, status |-> "approved",
                                  legacy |-> FALSE]
                            ELSE [agent |-> i - Len(order), grant |-> Unclaimed,
                                  status |-> "approved", legacy |-> TRUE]]
          /\ records = [i \in DOMAIN order |->
                          [id |-> order[i], type |-> "attempt", client |-> order[i], grant |-> i,
                           packet |-> 1, attempt |-> 0,
                           visibility |-> "private", disposition |-> "pending"]]
    /\ project = [status |-> "active", visible |-> TRUE, open |-> TRUE]
    /\ versions = <<[kind |-> "project", prev |-> 0, body |-> 1],
                    [kind |-> "work", prev |-> 0, body |-> 1]>>
    /\ active = [k \in Kind |-> IF k = "project" THEN 1 ELSE 2]
    /\ packets = <<[prior |-> 0, project |-> 1, work |-> 2, carried |-> {}, body |-> 1,
                    expired |-> FALSE]>>
    /\ events = {} /\ queue = {} /\ bodies = 1
    /\ objects = {Body(1)} \cup {ContentOf(c) : c \in Client}
    /\ sent = [id \in Submission |-> NoSubmission] /\ answers = {}
    /\ call = [s \in Slot |-> Idle]
    /\ spent = [calls |-> 0, turns |-> 0, lost |-> 0]

Submissions ==
    [client : Client, type : {"attempt"}, packet : Packet, attempt : {0}]
    \cup [client : Client, type : {"handoff"}, packet : Packet, attempt : Row]

Connect(s) ==
    \/ \E c \in Client : CreateAgent(s, c)
    \/ ActivateAgent(s)
    \/ \E n \in Agent : Approve(s, n)
    \/ \E a \in Approval, n \in Agent : BeginRepair(s, a, n)
    \/ CommitRepair(s)
    \/ \E a \in Approval : AskGrant(s, a)
    \/ CreateGrant(s) \/ ActivateGrant(s) \/ CompleteGrant(s)
    \/ BeginRevokeAll(s) \/ RevokeConnections(s)

Submit(s) ==
    \/ \E g \in Grant, id \in Submission :
          \/ \E sub \in Submissions : BeginSubmit(s, g, id, sub)
          \/ ReadReceipt(s, g, id)
    \/ \E lost \in BOOLEAN : CommitSubmit(s, lost)
    \/ SubmitAgain(s)

Steer(s) ==
    \/ \E kinds \in SUBSET Kind \ {{}} : BeginBrief(s, kinds)
    \/ BeginRotation(s) \/ (\E g \in Grant : BeginRefresh(s, g)) \/ SelectRecords(s)
    \/ \E lost \in BOOLEAN : CommitBrief(s, lost) \/ CommitRotation(s, lost)
    \/ Decide(s)
    \/ \E r \in Row, action \in Action : BeginAction(s, r, action)
    \/ CommitAction(s)

Clean(s) ==
    \/ BeginCollection(s)
    \/ \E erased \in SUBSET queue, finished \in BOOLEAN : Collect(s, erased, finished)

Revoke ==
    \/ \E g \in Grant : RevokeGrant(g) \/ Lapse(g)
    \/ \E n \in Agent : RevokeAgent(n)
    \/ \E a \in Approval : Supersede(a)
    \/ RevokeVault \/ Pair

Next ==
    \/ \E s \in Slot : Connect(s) \/ Submit(s) \/ Steer(s) \/ Clean(s) \/ Abandon(s)
    \/ Revoke
    \/ \E b \in BOOLEAN : SetArchived(b) \/ SetVisible(b) \/ SetOpen(b)
    \/ \E p \in Packet : Expire(p)

Spec == Init /\ [][Next]_vars

-----------------------------------------------------------------------------
(* Properties *)

TypeOK ==
    /\ vault \in [status : {"active", "revoked"}, epoch : 1..MaxEpoch]
    /\ agents \in Seq([client : Client, epoch : 1..MaxEpoch,
                       status : {"pending", "active", "revoked"}])
    /\ grants \in Seq([client : Client, agent : Agent, lapsed : BOOLEAN,
                       status : {"pending", "active", "revoked"}])
    /\ approvals \in Seq([agent : Agent, grant : Grant \cup {Unclaimed}, legacy : BOOLEAN,
                          status : {"approved", "expired"}])
    /\ project \in [status : {"active", "archived"}, visible : BOOLEAN, open : BOOLEAN]
    /\ versions \in Seq([kind : Kind, prev : Nat, body : Nat])
    /\ active \in [Kind -> Version]
    /\ packets \in Seq([prior : Nat, project : Version, work : Version, carried : SUBSET Row,
                        body : Nat, expired : BOOLEAN])
    /\ records \in Seq([id : Submission \cup Client \cup {"decision"},
                        type : {"attempt", "handoff", "decision"},
                        client : Client \cup {Owner}, grant : Nat, packet : Nat, attempt : Nat,
                        visibility : {"private", "shared", "owner-only"},
                        disposition : {"pending", "accepted", "rejected", "quarantined"}])
    /\ events \subseteq [record : Row, action : Action]
    /\ answers \subseteq [id : Submission, record : Row]

\* Each kind of version has one history: every version succeeds the one that
\* was active when it was made, none has two successors, and the active one is
\* the last, although two owners' tabs edit the same versions and batches
\* commit without an answer (updateCollaborationProjectBrief's guard).
OneHistory ==
    \A v \in Version :
       LET later == {w \in Version : versions[w].prev = v}
       IN  /\ Cardinality(later) <= 1
           /\ later = {} => active[versions[v].kind] = v
           /\ \A w \in later : w > v /\ versions[w].kind = versions[v].kind

\* At any time exactly one packet can be worked on, and it descends from all
\* earlier ones, however many calls refresh it at once
\* (collaboration_packet_rotations).
OneCurrentPacket ==
    \A p \in Packet :
       /\ packets[p].prior = p - 1
       /\ Cardinality({q \in Packet : packets[q].prior = p}) <= 1

\* Whatever is recorded has its body: a batch that failed queues bodies for
\* collection, one that seemed to fail did commit, and the collector decides on
\* what it read before it deletes (queueCollaborationObjectCleanup).  Only bodies
\* with a random identity are queued; content-named ones that retention queues, and
\* a later record finds by HEAD, are outside.
BodiesKept == Named \subseteq objects

\* The records of a project: one history of the brief, one current packet, and
\* every body present.
CollaborationInv == TypeOK /\ OneHistory /\ OneCurrentPacket /\ BodiesKept

\* A submission is recorded once, though it is delivered again, concurrently,
\* after its answer was lost or under a new connection, and every receipt a
\* client got is of that record (submitCollaborationRecord).
SubmittedOnce ==
    /\ \A id \in Submission : Cardinality(Stored(id)) <= 1
    /\ \A a \in answers : records[a.record].id = a.id
    /\ \A r \in Row : records[r].type = "handoff" =>
          LET a == records[records[r].attempt]
          IN  a.type = "attempt" /\ a.client = records[r].client /\ a.packet = records[r].packet

\* Authority ends with the vault, whatever was under way at the time.  The
\* vault grant of a connection a client can use was approved since the vault
\* was last revoked, and so was the project, however often the approval has
\* been repaired; an approval of an older release is the exception, for its
\* consent may straddle revokeVault.  A client has one live connection and one
\* active vault grant at most, and no connection outlives the archiving or
\* hiding of the project (revokeVault, repairApprovedProjectAuthorization,
\* activateCollaborationGrant).
AuthorityEnds ==
    /\ \A g \in Grant : Usable(g) => agents[grants[g].agent].epoch = vault.epoch
    /\ \A a \in Approval :
          LET g == approvals[a].grant
          IN  ~approvals[a].legacy /\ Usable(g) => agents[approvals[a].agent].epoch = vault.epoch
    /\ \A c \in Client : Cardinality({g \in Grant : grants[g].client = c /\ Live(g)}) <= 1
    /\ \A c \in Client :
          Cardinality({n \in Agent : agents[n].client = c /\ agents[n].status = "active"}) <= 1
    /\ ~Discoverable => \A g \in Grant : ~Live(g)

\* A connection that was revoked stays so, and so does the approval that names
\* it: no repair gives that approval another connection, although the owner
\* revokes between what a repair reads and what it writes
\* (repairApprovedProjectAuthorization).
RevocationFinal ==
    [][\A a \in Approval :
          LET g == approvals[a].grant
          IN  g # Unclaimed /\ grants[g].status = "revoked" =>
                 approvals'[a].grant = g /\ grants'[g].status = "revoked"]_vars

\* What one client submitted reaches the others only by an owner's act: a
\* shared record and a handoff in a work packet have been shared by the owner,
\* however stale the states that were read (createContinuationWorkPacket).
SharedByOwner ==
    \A r \in Row :
       (\/ records[r].visibility = "shared"
        \/ records[r].client # Owner /\ \E p \in Packet : r \in packets[p].carried)
       => [record |-> r, action |-> "share"] \in events

=============================================================================
