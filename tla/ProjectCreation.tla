-------------------------- MODULE ProjectCreation --------------------------
(***************************************************************************)
(* Agents ask for one project name in one vault; the owner approves a      *)
(* request in the browser, or has prepared a handoff that approves a       *)
(* matching request at once.  Whatever is approved must end in one project *)
(* with the definition that was approved.                                  *)
(*                                                                         *)
(* An approval takes a claim on the request, then the reservation of the   *)
(* name, creates the project, binds the reservation to it and commits the  *)
(* grant: separate D1 calls, of which each may fail, while the claim may   *)
(* lapse and be taken by a second approval of the same request.            *)
(*                                                                         *)
(* What is abstracted.  A definition is what the contract hash covers: the *)
(* draft of the request and the context policy the owner approved; the     *)
(* payload of a project also has the name as it was written.  Times are    *)
(* flags: a request is overdue, a claim has lapsed.  A call compares a     *)
(* claim with the time it began, so it remembers which had lapsed then.    *)
(* The batch that binds and the read that follows are one step.  Requests  *)
(* to join a project, legacy reservations without a contract, equivalent   *)
(* spellings of stored names, moving a pending request to the grant that   *)
(* replaced its own, and changes of a project after its creation are left  *)
(* out.                                                                    *)
(***************************************************************************)
EXTENDS Naturals, FiniteSets

CONSTANTS
    Request,    \* initialization requests for the name
    Grant,      \* the agent grant of a request
    Draft,      \* what a request proposes, its context policy aside
    Title,      \* the name as the request wrote it
    Policy,     \* context policies the owner may approve
    Proposed,   \* the context policy in the requests' drafts
    Slot,       \* calls in flight
    None,       \* NULL
    MaxClaims,  \* bound: approval claims
    MaxTroubles,\* bound: failed calls, evictions, revocations, rejections, requests
                \* that run out and projects the owner makes
    MaxHandoffs \* bound: handoffs prepared

Agent == {Grant[r] : r \in Request}

ASSUME CreationAssumption ==
    /\ Proposed \in Policy /\ MaxClaims \in Nat /\ MaxTroubles \in Nat /\ MaxHandoffs \in Nat
    /\ None \notin Request \cup Policy

VARIABLES
    request,     \* rows of project_initialization_requests
    claim,       \* rows of project_initialization_approval_claims
    claims,      \* claims made so far
    reservation, \* the row of project_creation_reservations
    project,     \* projects of this name, with their commits
    receipt,     \* rows of project_initialization_projects
    handoff,     \* the latest row of prepared_project_handoffs
    active,      \* agent grants that are active
    approval,    \* what each request was approved for
    call,        \* calls in flight
    troubles     \* what went wrong so far

creationVars == <<request, claim, claims, reservation, project, receipt, handoff, active,
          approval, call, troubles>>
requestVars == <<request, claim, claims>>
nameVars == <<reservation, project, receipt>>

Idle == [pc |-> "idle"]
NoClaim == [id |-> 0, live |-> FALSE]
NoHandoff == [id |-> 0, status |-> "none", agent |-> None, request |-> None, live |-> FALSE]

Definition(r, p) == <<Draft[r], p>>
Payload(r, p) == <<Draft[r], Title[r], p>>

Trouble == troubles < MaxTroubles /\ troubles' = troubles + 1

Goto(s, pc) == call' = [call EXCEPT ![s].pc = pc]

Done(s) == call' = [call EXCEPT ![s] = Idle]

\* Every error leads to the catch block.
GiveUp(s) == Goto(s, "release")

-----------------------------------------------------------------------------
(* Requests *)

Decidable(r) == request[r].status = "pending" /\ ~request[r].overdue

\* The unique index on client, vault and semantic key.
Repeated(r) ==
    \E q \in Request \ {r} :
       /\ Grant[q] = Grant[r] /\ Draft[q] = Draft[r] /\ Title[q] = Title[r]
       /\ request[q].status \in {"pending", "approved"}

\* requestProjectInitialization
Ask(r) ==
    /\ request[r].status = "none" /\ Grant[r] \in active /\ ~Repeated(r)
    /\ request' = [request EXCEPT ![r].status = "pending"]
    /\ UNCHANGED <<claim, claims, nameVars, handoff, active, approval, call, troubles>>

\* renewExpiredInitializationRequest, when the agent repeats its request.
Renew(r) ==
    /\ request[r].status \in {"pending", "expired"} /\ request[r].overdue
    /\ Grant[r] \in active /\ ~Repeated(r)
    /\ request' = [request EXCEPT ![r] = [status |-> "pending", overdue |-> FALSE]]
    /\ UNCHANGED <<claim, claims, nameVars, handoff, active, approval, call, troubles>>

\* rejectInitialization, by the owner.
Reject(r) ==
    /\ Decidable(r) /\ ~claim[r].live
    /\ request' = [request EXCEPT ![r].status = "rejected"]
    /\ Trouble
    /\ UNCHANGED <<claim, claims, nameVars, handoff, active, approval, call>>

\* supersedeInitializationForFreshApproval, after the grant was replaced.
Supersede(r) ==
    /\ request[r].status = "pending" /\ Grant[r] \notin active
    /\ ~claim[r].live /\ receipt[r] = None
    /\ request' = [request EXCEPT ![r].status = "expired"]
    /\ UNCHANGED <<claim, claims, nameVars, handoff, active, approval, call, troubles>>

\* expireInitializations
ExpireInitializations ==
    /\ \E r \in Request : (claim[r].id > 0 /\ ~claim[r].live)
                          \/ (request[r].status = "pending" /\ request[r].overdue)
    /\ claim' = [r \in Request |-> IF claim[r].live THEN claim[r] ELSE NoClaim]
    /\ request' = [r \in Request |->
          IF request[r].status = "pending" /\ request[r].overdue /\ ~claim[r].live
          THEN [request[r] EXCEPT !.status = "expired"] ELSE request[r]]
    /\ UNCHANGED <<claims, nameVars, handoff, active, approval, call, troubles>>

\* Time passes: a request, its claim or the claim of the handoff runs out.
RequestLapses(r) ==
    /\ request[r].status \in {"pending", "expired"} /\ ~request[r].overdue
    /\ request' = [request EXCEPT ![r].overdue = TRUE]
    /\ Trouble
    /\ UNCHANGED <<claim, claims, nameVars, handoff, active, approval, call>>

ClaimLapses(r) ==
    /\ claim[r].live
    /\ claim' = [claim EXCEPT ![r].live = FALSE]
    /\ UNCHANGED <<request, claims, nameVars, handoff, active, approval, call, troubles>>

HandoffLapses ==
    /\ handoff.live
    /\ handoff' = [handoff EXCEPT !.live = FALSE]
    /\ UNCHANGED <<requestVars, nameVars, active, approval, call, troubles>>

\* revokeAgentGrant takes the handoffs of the grant with it.
RevokeGrant(g) ==
    /\ g \in active
    /\ active' = active \ {g}
    /\ handoff' = IF handoff.agent = g /\ handoff.status \in {"prepared", "claiming"}
                  THEN [handoff EXCEPT !.status = "revoked", !.live = FALSE] ELSE handoff
    /\ Trouble
    /\ UNCHANGED <<requestVars, nameVars, approval, call>>

\* prepareProjectHandoff revokes the one before it.
Prepare(g) ==
    /\ g \in active /\ handoff.id < MaxHandoffs
    /\ handoff' = [id |-> handoff.id + 1, status |-> "prepared", agent |-> g,
                   request |-> None, live |-> FALSE]
    /\ UNCHANGED <<requestVars, nameVars, active, approval, call, troubles>>

-----------------------------------------------------------------------------
(* The claim *)

LapsedIds == {claim[r].id : r \in {q \in Request : ~claim[q].live}}

\* claimInitializationForApproval
Claimable(r) == Decidable(r) /\ ~claim[r].live /\ claims < MaxClaims

TakeClaim(r) ==
    /\ claims' = claims + 1
    /\ claim' = [claim EXCEPT ![r] = [id |-> claims + 1, live |-> TRUE]]

\* The approval in the browser, with the policy the owner chose.
BeginApprove(s, r, p) ==
    /\ call[s] = Idle /\ Claimable(r)
    /\ TakeClaim(r)
    /\ call' = [call EXCEPT ![s] = [pc |-> "reserve", request |-> r, policy |-> p,
                                    claim |-> claims + 1, handoff |-> 0, lapsed |-> LapsedIds]]
    /\ UNCHANGED <<request, nameVars, handoff, active, approval, troubles>>

\* claimPreparedProjectHandoff: a claim that lapsed is taken again only for the
\* same request.
HandoffClaimable(r) ==
    /\ handoff.agent = Grant[r]
    /\ \/ handoff.status = "prepared"
       \/ handoff.status = "claiming" /\ handoff.request = r /\ ~handoff.live

\* approvePreparedProjectHandoff
BeginPrepared(s, r) ==
    /\ call[s] = Idle /\ Decidable(r) /\ Grant[r] \in active /\ HandoffClaimable(r)
    /\ handoff' = [handoff EXCEPT !.status = "claiming", !.request = r, !.live = TRUE]
    /\ call' = [call EXCEPT ![s] = [pc |-> "claim", request |-> r, policy |-> Proposed,
                                    claim |-> 0, handoff |-> handoff.id, lapsed |-> LapsedIds]]
    /\ UNCHANGED <<requestVars, nameVars, active, approval, troubles>>

ClaimPrepared(s) ==
    LET r == call[s].request
    IN  /\ call[s].pc = "claim"
        /\ IF Claimable(r)
           THEN /\ TakeClaim(r)
                /\ call' = [call EXCEPT ![s].pc = "reserve", ![s].claim = claims + 1]
           ELSE Goto(s, "giveback") /\ UNCHANGED <<claim, claims>>
        /\ UNCHANGED <<request, nameVars, handoff, active, approval, troubles>>

-----------------------------------------------------------------------------
(* The name *)

\* The creator gave up: its request is over, it made nothing, and no claim of it
\* was running when this call began.
Abandoned(s) ==
    LET c == reservation.creator
    IN  /\ receipt[c] = None /\ request[c].status \in {"expired", "rejected"}
        /\ claim[c].id = 0 \/ claim[c].id \in call[s].lapsed

\* The WHERE clause of claimProjectCreationReservation.
Reservable(s) ==
    reservation.project = None /\ (reservation.creator = None \/ Abandoned(s))

\* The source grant is read, once, the reservation inserted when missing, and claimed.
Reserve(s) ==
    LET r == call[s].request
    IN  /\ call[s].pc \in {"reserve", "again"}
        /\ \/ /\ call[s].pc = "again" \/ Grant[r] \in active
              /\ reservation' = IF Reservable(s)
                                THEN [creator |-> r, contract |-> Definition(r, call[s].policy),
                                      project |-> None]
                                ELSE reservation
              /\ Goto(s, "bound")
           \/ /\ call[s].pc = "reserve" /\ Grant[r] \notin active
              /\ GiveUp(s) /\ UNCHANGED reservation
        /\ UNCHANGED <<requestVars, project, receipt, handoff, active, approval, troubles>>

\* bindProjectCreationReservation: only the creator's receipt binds it.
Bound ==
    IF /\ reservation.project = None /\ reservation.creator # None
       /\ receipt[reservation.creator] # None
    THEN [reservation EXCEPT !.project = receipt[reservation.creator]]
    ELSE reservation

SameContract(s) == Bound.contract = Definition(call[s].request, call[s].policy)

\* A name that is bound with the same contract is followed; its creator goes on
\* to create; anyone else waits for the creator, a handoff not at all.
BindOrWait(s) ==
    /\ call[s].pc = "bound"
    /\ reservation' = Bound
    /\ \/ Bound.project # None /\ SameContract(s) /\ Goto(s, "check")
       \/ Bound.project = None /\ SameContract(s) /\ Bound.creator = call[s].request
          /\ Goto(s, "receipt")
       \/ /\ Bound.project = None /\ call[s].handoff = 0
          /\ Bound.creator # call[s].request /\ (Bound.contract = None \/ SameContract(s))
          /\ Goto(s, "again")
       \/ /\ ~SameContract(s) \/ (Bound.project = None /\ Bound.creator # call[s].request)
          /\ GiveUp(s)
    /\ UNCHANGED <<requestVars, project, receipt, handoff, active, approval, troubles>>

\* readInitializationProjectReceipt
ReadReceipt(s) ==
    /\ call[s].pc = "receipt"
    /\ Goto(s, IF receipt[call[s].request] = None THEN "create" ELSE "bind")
    /\ UNCHANGED <<requestVars, nameVars, handoff, active, approval, troubles>>

\* (mutant) the commit of a name is not unique
AlwaysFree == TRUE

\* The primary key of project_creation_commits.
NameFree == project = {}

\* The project with its commit and, for a request, its receipt.
NewProject(payload) == [number |-> Cardinality(project) + 1, payload |-> payload,
                        definition |-> <<payload[1], payload[3]>>]

\* recoverCommittedProject: a project with the same payload that no other
\* request has a receipt for.
Recovered(r, p) ==
    {x \in project : /\ x.payload = Payload(r, p)
                     /\ \A q \in Request \ {r} : receipt[q] # x
                     /\ receipt[r] \in {None, x}}

\* createCollaborationProject: its batch, or what it finds when that fails.
Create(s) ==
    LET r == call[s].request
        p == call[s].policy
    IN  /\ call[s].pc = "create"
        /\ IF NameFree /\ receipt[r] = None
           THEN /\ project' = project \cup {NewProject(Payload(r, p))}
                /\ receipt' = [receipt EXCEPT ![r] = NewProject(Payload(r, p))]
                /\ Goto(s, "bind")
           ELSE /\ \/ \E x \in Recovered(r, p) :
                         receipt' = [receipt EXCEPT ![r] = x] /\ Goto(s, "bind")
                   \/ Recovered(r, p) = {} /\ UNCHANGED receipt /\ GiveUp(s)
                /\ UNCHANGED project
        /\ UNCHANGED <<requestVars, reservation, handoff, active, approval, troubles>>

\* The owner creates a project of this name in the browser, perhaps just as a
\* request describes it.
OwnerCreates(payload) ==
    /\ NameFree
    /\ project' = project \cup {NewProject(payload)}
    /\ Trouble
    /\ UNCHANGED <<requestVars, reservation, receipt, handoff, active, approval, call>>

Bind(s) ==
    /\ call[s].pc = "bind"
    /\ reservation' = Bound
    /\ IF Bound.project # None /\ SameContract(s) THEN Goto(s, "check") ELSE GiveUp(s)
    /\ UNCHANGED <<requestVars, project, receipt, handoff, active, approval, troubles>>

-----------------------------------------------------------------------------
(* The decision *)

\* The selector of the project's knowledge space is the approved one.
SameContext(s) == reservation.project.definition[2] = call[s].policy

CheckContext(s) ==
    /\ call[s].pc = "check"
    /\ IF SameContext(s) THEN Goto(s, "approve") ELSE GiveUp(s)
    /\ UNCHANGED <<requestVars, nameVars, handoff, active, approval, troubles>>

\* (mutant) the batch relies on the checks made before it
ClaimedOnce(s) == Grant[call[s].request] \in active

\* The batch of approveInitializationWithProjectGrant: the request is pending,
\* the claim is still this call's, the grant is active and the handoff, if it
\* was one, is being claimed for this request.
Fenced(s) ==
    LET r == call[s].request
    IN  /\ request[r].status = "pending" /\ claim[r].id = call[s].claim
        /\ Grant[r] \in active
        /\ call[s].handoff > 0 =>
              /\ handoff.id = call[s].handoff
              /\ handoff.status = "claiming" /\ handoff.request = r

Proceed(s) == IF call[s].handoff > 0 THEN Goto(s, "consume") ELSE Done(s)

\* approveInitializationWithProjectGrant reads the request first: what another call
\* approved is taken for this call's, what is not pending is given up,
ReadStatus(s) ==
    LET r == call[s].request
        status == request[r].status
    IN  /\ call[s].pc = "approve"
        /\ \/ status = "approved" /\ Grant[r] \in active /\ Proceed(s)
           \/ status = "approved" /\ Grant[r] \notin active /\ GiveUp(s)
           \/ status = "pending" /\ Goto(s, "commit")
           \/ status \notin {"approved", "pending"} /\ GiveUp(s)
        /\ UNCHANGED <<requestVars, nameVars, handoff, active, approval, troubles>>

\* and its batch approves what is still as it was.
Approve(s) ==
    LET r == call[s].request
    IN  /\ call[s].pc = "commit"
        /\ IF Fenced(s)
           THEN /\ request' = [request EXCEPT ![r].status = "approved"]
                /\ claim' = [claim EXCEPT ![r] = NoClaim]
                /\ approval' = approval \cup {[request |-> r, policy |-> call[s].policy,
                                               project |-> reservation.project]}
                /\ Proceed(s)
           ELSE GiveUp(s) /\ UNCHANGED <<request, claim, approval>>
        /\ UNCHANGED <<claims, nameVars, handoff, active, troubles>>

\* consumePreparedProjectHandoff
Consume(s) ==
    LET r == call[s].request
    IN  /\ call[s].pc = "consume"
        /\ handoff' = IF /\ handoff.id = call[s].handoff /\ handoff.status = "claiming"
                         /\ handoff.request = r /\ request[r].status = "approved"
                      THEN [handoff EXCEPT !.status = "consumed", !.live = FALSE] ELSE handoff
        /\ Done(s)
        /\ UNCHANGED <<requestVars, nameVars, active, approval, troubles>>

-----------------------------------------------------------------------------
(* Giving up *)

\* The WHERE clause of releaseProjectCreationReservation.
Releasable(r) ==
    reservation.creator = r /\ reservation.project = None /\ receipt[r] = None

Release(s) ==
    LET r == call[s].request
    IN  /\ call[s].pc = "release"
        /\ reservation' = IF Releasable(r)
                          THEN [creator |-> None, contract |-> None, project |-> None]
                          ELSE reservation
        /\ Goto(s, "return")
        /\ UNCHANGED <<requestVars, project, receipt, handoff, active, approval, troubles>>

\* returnInitializationToPending
Return(s) ==
    LET r == call[s].request
    IN  /\ call[s].pc = "return"
        /\ claim' = IF claim[r].id = call[s].claim THEN [claim EXCEPT ![r] = NoClaim] ELSE claim
        /\ IF call[s].handoff > 0 THEN Goto(s, "giveback") ELSE Done(s)
        /\ UNCHANGED <<request, claims, nameVars, handoff, active, approval, troubles>>

\* (mutant) the status is not looked at
OfThisCall(s) == handoff.id = call[s].handoff /\ handoff.request = call[s].request

\* The WHERE clause of releasePreparedProjectHandoff: status and request, not the call.
StillClaimed(s) ==
    /\ handoff.id = call[s].handoff /\ handoff.status = "claiming"
    /\ handoff.request = call[s].request

GiveBack(s) ==
    /\ call[s].pc = "giveback"
    /\ handoff' = IF StillClaimed(s)
                  THEN [handoff EXCEPT !.status = "prepared", !.request = None, !.live = FALSE]
                  ELSE handoff
    /\ Done(s)
    /\ UNCHANGED <<requestVars, nameVars, active, approval, troubles>>

\* A D1 or R2 call fails inside the try block.
Throw(s) ==
    /\ call[s].pc \in {"reserve", "again", "bound", "receipt", "create", "bind", "check",
                       "approve", "commit", "consume"}
    /\ GiveUp(s)
    /\ Trouble
    /\ UNCHANGED <<requestVars, nameVars, handoff, active, approval>>

\* The worker is evicted.
Crash(s) ==
    /\ call[s] # Idle
    /\ Done(s)
    /\ Trouble
    /\ UNCHANGED <<requestVars, nameVars, handoff, active, approval>>

-----------------------------------------------------------------------------

CreationInit ==
    /\ request = [r \in Request |-> [status |-> "none", overdue |-> FALSE]]
    /\ claim = [r \in Request |-> NoClaim] /\ claims = 0
    /\ reservation = [creator |-> None, contract |-> None, project |-> None]
    /\ project = {} /\ receipt = [r \in Request |-> None]
    /\ handoff = NoHandoff /\ active = Agent /\ approval = {}
    /\ call = [s \in Slot |-> Idle] /\ troubles = 0

Step(s) ==
    \/ \E r \in Request : BeginPrepared(s, r) \/ \E p \in Policy : BeginApprove(s, r, p)
    \/ ClaimPrepared(s) \/ Reserve(s) \/ BindOrWait(s) \/ ReadReceipt(s) \/ Create(s)
    \/ Bind(s) \/ CheckContext(s) \/ ReadStatus(s) \/ Approve(s) \/ Consume(s)
    \/ Release(s) \/ Return(s) \/ GiveBack(s) \/ Throw(s) \/ Crash(s)

Environment ==
    \/ \E r \in Request : Ask(r) \/ Renew(r) \/ Reject(r) \/ Supersede(r)
                          \/ RequestLapses(r) \/ ClaimLapses(r)
    \/ \E p \in Policy : OwnerCreates(<<None, None, p>>)
                         \/ \E r \in Request : OwnerCreates(Payload(r, p))
    \/ ExpireInitializations \/ HandoffLapses
    \/ \E g \in Agent : RevokeGrant(g) \/ Prepare(g)

CreationNext == (\E s \in Slot : Step(s)) \/ Environment

CreationSpec == CreationInit /\ [][CreationNext]_creationVars

-----------------------------------------------------------------------------
(* Properties *)

\* The rows have the values their tables allow.
CreationTypeOK ==
    /\ request \in [Request -> [status : {"none", "pending", "approved", "rejected", "expired"},
                                overdue : BOOLEAN]]
    /\ claim \in [Request -> [id : 0..MaxClaims, live : BOOLEAN]]
    /\ reservation.project \in project \cup {None}
    /\ reservation.project # None => reservation.creator \in Request
    /\ \A r \in Request : receipt[r] \in project \cup {None}
    /\ handoff.status \in {"none", "prepared", "claiming", "consumed", "revoked"}

\* "A later caller cannot create a second Project through a race": however
\* claims lapse, are taken again and are released late, a name has one project.
OneProject == Cardinality(project) <= 1

\* A request is approved at most once, for the one project, and its definition is
\* the one the owner approved, also when another request created it.
ApprovedAsDefined ==
    /\ \A a \in approval : a.project.definition = Definition(a.request, a.policy)
    /\ \A a, b \in approval : a.request = b.request => a = b

\* What was decided stands: no late call approves a request that was rejected or
\* superseded or takes back an approval, and a reservation once bound stays bound
\* to that project, also when a call that outlived its claim gives it back.
OutcomesFinal ==
    [][/\ \A r \in Request :
             /\ request[r].status \in {"approved", "rejected"} =>
                   request'[r].status = request[r].status
             /\ request'[r].status = "approved" =>
                   request[r].status \in {"pending", "approved"}
       /\ reservation.project # None => reservation'.project = reservation.project]_creationVars

\* A handoff that was consumed or revoked is never prepared again, however late a
\* failed call gives it back.
HandoffSpent ==
    [][handoff.status \in {"consumed", "revoked"} =>
          handoff' = handoff \/ handoff'.id > handoff.id]_creationVars

\* The state invariant of project creation: one name gets one project though
\* claims lapse and answers are lost, and what a request was approved for is
\* what it defined.
CreationInv == CreationTypeOK /\ OneProject /\ ApprovedAsDefined

=============================================================================
