------------------------------ MODULE LeadRun ------------------------------
(***************************************************************************)
(* One run of a work item: its actors submit event bundles (provisional    *)
(* results with claims, review requests, review results), the lead         *)
(* evaluates the owner's policy over them and completes the run.           *)
(*                                                                         *)
(* Every request reads what it needs in several queries, puts its bodies   *)
(* in R2 and commits in one D1 batch.  The batch repeats some of what was  *)
(* read: the receipt of the request, the version of the budget, the number *)
(* of bundles, the binding of the policy.  Everything else may have        *)
(* changed since.                                                          *)
(*                                                                         *)
(* What is abstracted.  A batch whose lease is no longer live fails like a *)
(* request that is cut short (Fail); LeadContinuity has the fence itself.  *)
(* A request is sent under one idempotency key, and a bundle's key is the  *)
(* bundle.  A bundle has one event and may ask for an owner's action; all  *)
(* claims are about one key, a batch of bundles has one element and costs  *)
(* one unit.  An inactive author cannot begin; whether a reviewer is       *)
(* active is an input.  Purpose evidence is one provisional result.        *)
(* Scopes of actors and the integrity of stored bodies are left out.       *)
(***************************************************************************)
EXTENDS Naturals, FiniteSets

CONSTANTS
    Actor,          \* actors of the run
    Bundle,         \* bundles that may be submitted
    Author,         \* the actor of a bundle
    Event,          \* the event of a bundle
    Entry,          \* keys of budget entries
    Eval,           \* keys of policy evaluations
    Finish,         \* keys of completions
    Slot,           \* requests in flight
    MaxBundles,     \* MAX_R2_BUNDLES_PER_RUN
    Limit,          \* units of the budget of an elastic run
    MaxBinding      \* bound: activations of a policy binding

Key == Bundle \cup Entry \cup Eval \cup Finish

Kinds == {"result", "request", "review"}

\* The primary key of the receipts holds the operation: requests of different
\* operations never have the same key.
ASSUME RunAssumption ==
    /\ MaxBundles \in Nat /\ Limit \in Nat /\ MaxBinding \in Nat
    /\ Bundle \cap Entry = {} /\ Bundle \cap Eval = {} /\ Bundle \cap Finish = {}
    /\ Author \in [Bundle -> Actor]
    /\ \A b \in Bundle : Event[b].kind \in Kinds /\ Event[b].asks \in BOOLEAN

VARIABLES
    run,        \* row of project_runs
    bundles,    \* rows of project_event_bundles, with their claims
    budget,     \* row of project_run_budgets
    entries,    \* budget entries accepted
    exceptions, \* rows of project_exceptions
    receipt,    \* rows of project_operation_receipts
    point,      \* a live continuity point since the run began
    binding,    \* the active policy binding, 0 when there is none
    decisions,  \* rows of project_policy_decisions
    call        \* requests in flight

vars == <<run, bundles, budget, entries, exceptions, receipt, point, binding,
          decisions, call>>
evidence == <<bundles, budget, entries>>
policy == <<point, binding, decisions>>

Idle == [pc |-> "idle"]

Free(s) == call[s] = Idle

Proceed(s, c) == call' = [call EXCEPT ![s] = c]

\* A key whose receipt exists is answered from the receipt.
CanBegin(s, k) == Free(s) /\ run.status = "active" /\ receipt[k] = "none"

\* The primary key of the receipts.
FreshReceipt(s) == receipt[call[s].key] = "none"

Receive(s, outcome) == receipt' = [receipt EXCEPT ![call[s].key] = outcome]

\* makeException, exceptionProjectionStatement
Exception(kind, cause) == [kind |-> kind, cause |-> cause, open |-> TRUE]

-----------------------------------------------------------------------------
(* Bundles *)

Results == {b \in bundles : Event[b].kind = "result"}

\* project_run_claims
Values(some) == {Event[b].value : b \in {c \in some : Event[c].kind = "result"}}

Conflicting == Cardinality(Values(bundles)) > 1

\* (mutant) the reviewer may be the author of what it reviews
RoutedAnywhere(b) ==
    CASE Event[b].kind = "request" ->
            Event[b].target \in Results
      [] Event[b].kind = "review" -> Event[b].target \in Results
      [] OTHER -> TRUE

\* A request names a provisional result and another actor; a review
\* comes from an actor that was asked for it and did not write the result.
Routed(b) ==
    CASE Event[b].kind = "request" ->
            /\ Event[b].target \in Results
            /\ Author[Event[b].target] # Event[b].reviewer
      [] Event[b].kind = "review" ->
            /\ Event[b].target \in Results
            /\ Author[Event[b].target] # Author[b]
            /\ \E q \in bundles : /\ Event[q].kind = "request"
                                  /\ Event[q].target = Event[b].target
                                  /\ Event[q].reviewer = Author[b]
      [] OTHER -> TRUE

\* The reviewer asked for must be active as well.
Accepted(b, live) == Routed(b) /\ (Event[b].kind = "request" => live)

\* (mutant) the last unit may be spent twice
AffordableOnce == budget.used <= Limit

Affordable == budget.used + 1 <= Limit

Full == run.count >= MaxBundles

\* submitRunBundle and submitRunBundlesBatch, up to the read of the claims: an
\* elastic run reads its budget, and answers a full run with backpressure.
BeginBundle(s, b, live) ==
    /\ CanBegin(s, b)
    /\ ~(run.elastic /\ Accepted(b, live) /\ Full)
    /\ Proceed(s, IF ~Accepted(b, live)
                  THEN [pc |-> "deny", key |-> b, kind |-> "independence"]
                  ELSE IF (run.elastic /\ ~Affordable) \/ (~run.elastic /\ Full)
                  THEN [pc |-> "deny", key |-> b, kind |-> "exhausted"]
                  ELSE [pc |-> "claims", key |-> b, version |-> budget.version])
    /\ UNCHANGED <<run, evidence, exceptions, receipt, policy>>

ReadClaims(s) ==
    LET b == call[s].key
    IN  /\ call[s].pc = "claims"
        /\ Proceed(s, [pc |-> "bundle", key |-> b,
                       version |-> call[s].version,
                       conflict |-> Event[b].kind = "result"
                                    /\ Cardinality(Values(bundles \cup {b})) > 1])
        /\ UNCHANGED <<run, evidence, exceptions, receipt, policy>>

\* (mutant) usage is added to whatever the budget has become
AnyVersion(s) == TRUE

\* The row of project_run_budget_versions that the entry refers to exists.
VersionHolds(s) == budget.version = call[s].version

Charge == budget' = [used |-> budget.used + 1, version |-> budget.version + 1]

\* The exceptions that come with a bundle: what it asked for, and the conflict
\* found when the claims were read.
Raised(s) ==
    {Exception("conflict", call[s].key) : x \in {y \in {call[s]} : y.conflict}}
    \cup {Exception("action", b) : b \in {c \in {call[s].key} : Event[c].asks}}

CommitBundle(s) ==
    /\ call[s].pc = "bundle"
    /\ IF /\ FreshReceipt(s)
          /\ run.elastic => VersionHolds(s) /\ Affordable
          /\ run.status = "active" => ~Full
       THEN /\ bundles' = bundles \cup {call[s].key}
            /\ run' = [run EXCEPT !.count = IF run.status = "active" THEN @ + 1 ELSE @]
            /\ IF run.elastic THEN Charge ELSE UNCHANGED budget
            /\ exceptions' = exceptions \cup Raised(s)
            /\ Receive(s, "ok")
       ELSE UNCHANGED <<bundles, run, budget, exceptions, receipt>>
    /\ Proceed(s, Idle)
    /\ UNCHANGED <<entries, policy>>

\* persistDeniedException
CommitDenial(s) ==
    /\ call[s].pc = "deny"
    /\ IF FreshReceipt(s)
       THEN /\ exceptions' = exceptions \cup {Exception(call[s].kind, call[s].key)}
            /\ Receive(s, "denied")
       ELSE UNCHANGED <<exceptions, receipt>>
    /\ Proceed(s, Idle)
    /\ UNCHANGED <<run, evidence, policy>>

\* submitRunBudgetEntry
BeginEntry(s, e) ==
    /\ CanBegin(s, e) /\ run.elastic
    /\ Proceed(s, IF Affordable
                  THEN [pc |-> "entry", key |-> e, version |-> budget.version]
                  ELSE [pc |-> "deny", key |-> e, kind |-> "exhausted"])
    /\ UNCHANGED <<run, evidence, exceptions, receipt, policy>>

CommitEntry(s) ==
    /\ call[s].pc = "entry"
    /\ IF FreshReceipt(s) /\ VersionHolds(s) /\ Affordable
       THEN /\ entries' = entries \cup {call[s].key}
            /\ Charge
            /\ Receive(s, "ok")
       ELSE UNCHANGED <<entries, budget, receipt>>
    /\ Proceed(s, Idle)
    /\ UNCHANGED <<run, bundles, exceptions, policy>>

-----------------------------------------------------------------------------
(* Policy *)

\* The query for an independent, requested, passing review.
Reviewed ==
    \E b, q \in bundles :
       /\ Event[b].kind = "review" /\ Event[b].passed
       /\ Event[b].target \in Results /\ Author[b] # Author[Event[b].target]
       /\ Event[q].kind = "request"
       /\ Event[q].target = Event[b].target /\ Event[q].reviewer = Author[b]

Blocked == \E x \in exceptions : x.open

\* A run that claims to be solo has one actor; an actor is registered before it
\* submits, so authors are counted.  The others need three (RunActors).
RunIdentity == run.solo => Cardinality({Author[b] : b \in bundles}) <= 1

\* gateChecks; a request that itself asks for an owner's action, which the
\* no-owner-only-action check refuses, is left out.
GatesPass ==
    /\ RunIdentity /\ (run.solo \/ Reviewed)
    /\ Results # {} /\ point /\ ~Blocked /\ ~Conflicting
    /\ run.elastic => budget.used < Limit

SoloAllowed == run.solo => binding.solo

\* evaluateRunPolicy and collectGateInputs, up to the count of the bundles,
\* which is the last thing read.
BeginEvaluate(s, e) ==
    /\ CanBegin(s, e) /\ binding.id > 0 /\ SoloAllowed
    /\ Proceed(s, [pc |-> "count", key |-> e, binding |-> binding.id,
                   allow |-> GatesPass])
    /\ UNCHANGED <<run, evidence, exceptions, receipt, policy>>

CountBundles(s) ==
    /\ call[s].pc = "count"
    /\ Proceed(s, [pc |-> "decide", key |-> call[s].key,
                   binding |-> call[s].binding, allow |-> call[s].allow,
                   count |-> Cardinality(bundles)])
    /\ UNCHANGED <<run, evidence, exceptions, receipt, policy>>

\* The decision; a check that failed raises an exception.
CommitDecision(s) ==
    /\ call[s].pc = "decide"
    /\ IF FreshReceipt(s) /\ call[s].count = Cardinality(bundles)
       THEN /\ decisions' = decisions \cup {[binding |-> call[s].binding, allow |-> call[s].allow,
                                             count |-> call[s].count]}
            /\ exceptions' = exceptions \cup
                  {Exception("policy", k) : k \in {j \in {call[s].key} : ~call[s].allow}}
            /\ Receive(s, "ok")
       ELSE UNCHANGED <<decisions, exceptions, receipt>>
    /\ Proceed(s, Idle)
    /\ UNCHANGED <<run, evidence, point, binding>>

\* An allow decision of the active binding over as many bundles as there are.
Decided ==
    \E d \in decisions : d.allow /\ d.binding = binding.id /\ d.count = Cardinality(bundles)

-----------------------------------------------------------------------------
(* The run *)

\* completeLeadWorkItem up to readCompletionPolicyFence.
BeginComplete(s, f) ==
    /\ CanBegin(s, f)
    /\ RunIdentity /\ ~Blocked /\ (run.solo \/ Reviewed) /\ point
    /\ Proceed(s, [pc |-> "policy", key |-> f])
    /\ UNCHANGED <<run, evidence, exceptions, receipt, policy>>

\* A reviewed run of a project without a binding needs no decision.
ReadPolicy(s) ==
    LET complete == [pc |-> "complete", key |-> call[s].key,
                     binding |-> binding.id, count |-> Cardinality(bundles)]
        allowed == IF binding.id = 0 THEN ~run.solo ELSE SoloAllowed /\ Decided
    IN  /\ call[s].pc = "policy"
        /\ Proceed(s, IF allowed THEN complete ELSE Idle)
        /\ UNCHANGED <<run, evidence, exceptions, receipt, policy>>

\* (mutant) the decision is not read again in the batch
DecisionAtStart(s) == TRUE

\* The last EXISTS of the receipt's fence.
DecisionStands(s) ==
    call[s].binding > 0 =>
       call[s].binding = binding.id /\ call[s].count = Cardinality(bundles)

\* The run must be active when the batch runs.  (The fence would also let a
\* second completion through that has the same outcome and ends in the same
\* second: it finds the run completed and adds only its own receipt.)
CommitComplete(s) ==
    /\ call[s].pc = "complete"
    /\ IF FreshReceipt(s) /\ run.status = "active" /\ DecisionStands(s)
       THEN /\ run' = [run EXCEPT !.status = "completed"]
            /\ Receive(s, "ok")
       ELSE UNCHANGED <<run, receipt>>
    /\ Proceed(s, Idle)
    /\ UNCHANGED <<evidence, exceptions, policy>>

\* startLeadRun; the unique index of active runs refuses a second one.
StartRun(elastic, solo) ==
    /\ run.status = "none"
    /\ run' = [status |-> "active", elastic |-> elastic, solo |-> solo, count |-> 0]
    /\ UNCHANGED <<evidence, exceptions, receipt, policy, call>>

\* checkpointProject
Checkpoint ==
    /\ run.status = "active" /\ ~point
    /\ point' = TRUE
    /\ UNCHANGED <<run, evidence, exceptions, receipt, binding, decisions, call>>

\* activateProjectPolicyBinding, by the owner: it supersedes the active one.
Activate(solo) ==
    /\ binding.id < MaxBinding
    /\ binding' = [id |-> binding.id + 1, solo |-> solo]
    /\ UNCHANGED <<run, evidence, exceptions, receipt, point, decisions, call>>

Close(x) == [x EXCEPT !.open = FALSE]

\* resolveProjectException, by the owner.
Resolve(x) ==
    /\ x \in exceptions /\ x.open
    /\ exceptions' = (exceptions \ {x}) \cup {Close(x)}
    /\ UNCHANGED <<run, evidence, receipt, policy, call>>

\* The request ends without a commit: an R2 put fails, its worker is evicted, or
\* the lease is no longer its own.
Fail(s) ==
    /\ call[s] # Idle
    /\ Proceed(s, Idle)
    /\ UNCHANGED <<run, evidence, exceptions, receipt, policy>>

-----------------------------------------------------------------------------

Init ==
    /\ bundles = {} /\ entries = {}
    /\ run = [status |-> "none", elastic |-> FALSE, solo |-> FALSE, count |-> 0]
    /\ budget = [used |-> 0, version |-> 0]
    /\ exceptions = {} /\ receipt = [k \in Key |-> "none"]
    /\ point = FALSE /\ binding = [id |-> 0, solo |-> FALSE] /\ decisions = {}
    /\ call = [s \in Slot |-> Idle]

Submit(s) ==
    \/ \E b \in Bundle, live \in BOOLEAN : BeginBundle(s, b, live)
    \/ ReadClaims(s) \/ CommitBundle(s) \/ CommitDenial(s)
    \/ (\E e \in Entry : BeginEntry(s, e)) \/ CommitEntry(s)

Conclude(s) ==
    \/ (\E e \in Eval : BeginEvaluate(s, e)) \/ CountBundles(s) \/ CommitDecision(s)
    \/ (\E f \in Finish : BeginComplete(s, f)) \/ ReadPolicy(s) \/ CommitComplete(s)

Next ==
    \/ \E s \in Slot : Submit(s) \/ Conclude(s) \/ Fail(s)
    \/ \E elastic, solo \in BOOLEAN : StartRun(elastic, solo)
    \/ Checkpoint \/ (\E solo \in BOOLEAN : Activate(solo))
    \/ (\E x \in exceptions : Resolve(x))

Spec == Init /\ [][Next]_vars

-----------------------------------------------------------------------------
(* Properties *)

\* The rows have the values their tables allow; bundles and entries are within
\* MAX_R2_BUNDLES_PER_RUN as long as the run is active.
TypeOK ==
    /\ run \in [status : {"none", "active", "completed"}, elastic : BOOLEAN, solo : BOOLEAN,
                count : 0..MaxBundles]
    /\ bundles \subseteq Bundle /\ entries \subseteq Entry
    /\ budget \in [used : Nat, version : Nat]
    /\ \A x \in exceptions :
          x.kind \in {"conflict", "action", "independence", "exhausted", "policy"}
          /\ x.cause \in Key /\ x.open \in BOOLEAN
    /\ receipt \in [Key -> {"none", "ok", "denied"}]
    /\ point \in BOOLEAN /\ binding \in [id : 0..MaxBinding, solo : BOOLEAN]
    /\ \A d \in decisions : d.binding \in 1..MaxBinding /\ d.count \in 0..Cardinality(bundles)

\* A request has one outcome: however often it is delivered, and whatever changed
\* in between, it is not both denied, with an exception, and accepted.
OneOutcome ==
    \A b \in Bundle :
       /\ receipt[b] = "ok" <=> b \in bundles
       /\ receipt[b] = "denied" <=>
             \E x \in exceptions : x.cause = b /\ x.kind \in {"independence", "exhausted"}

\* In an elastic run, two claims that differ leave an exception, although each
\* bundle compares its claims before the batch: the version of the budget, read
\* before the claims, orders the batches (submitRunBundlesBatch).
ConflictsRecorded ==
    (run.elastic /\ Conflicting) => \E x \in exceptions : x.kind = "conflict"

\* What was used is what was accepted, each unit once, and never above the limit;
\* the run counts its bundles exactly until it completes.
AccountsExact ==
    /\ run.elastic => budget.used = Cardinality(bundles) + Cardinality(entries)
    /\ budget.used <= Limit
    /\ run.status = "active" => run.count = Cardinality(bundles)

\* Every review among the bundles was asked of its author, by a request among the
\* bundles, and is of another actor's result.
ReviewsIndependent ==
    \A b \in bundles : Event[b].kind = "review" =>
       /\ Event[b].target \in bundles /\ Author[Event[b].target] # Author[b]
       /\ \E q \in bundles : Event[q].kind = "request" /\ Event[q].target = Event[b].target
                             /\ Event[q].reviewer = Author[b]

Completes == run.status = "active" /\ run'.status = "completed"

\* A solo run is completed only while the owner's consent stands, and over exactly
\* as many bundles as an allow decision of the active binding counted.
SoloConsentStands ==
    [][(Completes /\ run.solo) =>
          /\ binding.solo
          /\ \E d \in decisions : /\ d.allow /\ d.binding = binding.id
                                  /\ d.count = Cardinality(bundles)]_vars

\* The state invariant of a run: each request identity has one outcome,
\* whichever of its deliveries committed, and a review counts only when it
\* was routed to its author, who is not the author of what it reviews.
RunInv == TypeOK /\ OneOutcome /\ ReviewsIndependent

=============================================================================
