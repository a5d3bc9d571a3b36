---------------------------- MODULE LeadRunProofs ----------------------------
(***************************************************************************)
(* Proofs about LeadRun, for any bundles, events, budgets, policies and    *)
(* requests in flight.                                                     *)
(***************************************************************************)
EXTENDS LeadRun, FiniteSetTheorems, TLAPS

-----------------------------------------------------------------------------
(* The inductive invariant *)

Exceptions ==
    [kind : {"conflict", "action", "independence", "exhausted", "policy"},
     cause : Key, open : BOOLEAN]

\* The rows, as the steps need them: finitely many, and records throughout.
Rows ==
    /\ IsFiniteSet(bundles) /\ IsFiniteSet(entries)
    /\ exceptions \subseteq Exceptions
    /\ \A e \in entries : receipt[e] # "none"

\* Nothing is accepted, or asked, before the run begins.
NothingYet ==
    run.status = "none" =>
       /\ bundles = {} /\ entries = {} /\ budget.used = 0
       /\ \A s \in Slot : call[s] = Idle

Disagrees(b) == Event[b].kind = "result" /\ Cardinality(Values(bundles \cup {b})) > 1

\* What a request has read and later batches cannot make untrue.  Its claims
\* are those of now while the version it read is the budget's; the decision it
\* completes on is one of the binding it read.
CallFits(c) ==
    /\ c.pc = "deny" => c.key \in Key /\ c.kind \in {"independence", "exhausted"}
    /\ c.pc \in {"claims", "bundle"} => /\ c.key \in Bundle /\ Routed(c.key)
                                        /\ c.version \in 0..budget.version
    /\ c.pc = "bundle" =>
         (run.elastic /\ c.version = budget.version => (c.conflict <=> Disagrees(c.key)))
    /\ c.pc = "entry" => c.key \in Entry
    /\ c.pc \in {"count", "decide"} => c.key \in Eval /\ c.binding \in 1..MaxBinding
    /\ c.pc \in {"policy", "complete"} => c.key \in Finish
    /\ c.pc = "complete" =>
         /\ c.binding \in 0..binding.id
         /\ run.solo =>
              /\ c.binding > 0 /\ (c.binding = binding.id => binding.solo)
              /\ \E d \in decisions : d.allow /\ d.binding = c.binding /\ d.count = c.count

CallsFit == call = [s \in Slot |-> call[s]] /\ \A s \in Slot : CallFits(call[s])

IInv == RunInv /\ ConflictsRecorded /\ AccountsExact /\ Rows /\ NothingYet /\ CallsFit

LEMMA Parts ==
    IInv => /\ TypeOK /\ OneOutcome /\ ReviewsIndependent /\ ConflictsRecorded
            /\ AccountsExact /\ Rows /\ NothingYet /\ CallsFit
  BY DEF IInv, RunInv

LEMMA IdleFits == CallFits(Idle)
  BY DEF CallFits, Idle

LEMMA InitInv == Init => IInv
<1> SUFFICES ASSUME Init PROVE IInv
  OBVIOUS
<1>1. TypeOK
  <2>1. 0 \in 0..MaxBundles /\ 0 \in 0..MaxBinding
    BY RunAssumption DEF RunAssumption
  <2> QED BY <2>1 DEF Init, TypeOK
<1>2. OneOutcome /\ ReviewsIndependent
  BY DEF Init, OneOutcome, ReviewsIndependent, Key
<1>3. IsFiniteSet({}) /\ Cardinality({}) = 0
  BY FS_EmptySet
<1>4. ConflictsRecorded
  BY DEF Init, ConflictsRecorded
<1>5. AccountsExact
  BY <1>3, RunAssumption DEF Init, AccountsExact, RunAssumption
<1>6. Rows
  BY <1>3 DEF Init, Rows
<1>7. NothingYet
  BY DEF Init, NothingYet
<1>8. CallsFit
  BY IdleFits DEF Init, CallsFit
<1> QED BY <1>1, <1>2, <1>4, <1>5, <1>6, <1>7, <1>8 DEF IInv, RunInv

-----------------------------------------------------------------------------
(* Requests in flight *)

\* What a step may do to what the others have read.
Forward ==
    /\ bundles \subseteq bundles' /\ decisions \subseteq decisions'
    /\ budget.version \in Nat /\ budget'.version \in Nat /\ budget.version <= budget'.version
    /\ run'.elastic = run.elastic /\ run'.solo = run.solo
    /\ run.elastic => bundles' = bundles \/ budget.version < budget'.version
    /\ binding.id \in Nat /\ binding'.id \in Nat
    /\ binding' = binding \/ binding.id < binding'.id

\* A bundle that could be routed still can.
LEMMA StillRouted ==
    ASSUME bundles \subseteq bundles', NEW b, Routed(b) PROVE Routed(b)'
<1>1. Results \subseteq Results'
  BY DEF Results
<1>2. CASE Event[b].kind = "request"
  BY <1>1, <1>2 DEF Routed
<1>3. CASE Event[b].kind = "review"
  BY <1>1, <1>3 DEF Routed
<1>4. CASE Event[b].kind \notin {"request", "review"}
  BY <1>4 DEF Routed
<1> QED BY <1>2, <1>3, <1>4

LEMMA SameDisagreement ==
    ASSUME UNCHANGED bundles, NEW b PROVE Disagrees(b)' <=> Disagrees(b)
  BY DEF Disagrees, Values

LEMMA StillFits == ASSUME Forward, NEW c, CallFits(c) PROVE CallFits(c)'
<1>1. bundles \subseteq bundles'
  BY DEF Forward
<1>2. c.pc \in {"claims", "bundle"} => /\ c.key \in Bundle /\ Routed(c.key)'
                                        /\ c.version \in 0..budget'.version
  <2> SUFFICES ASSUME c.pc \in {"claims", "bundle"}
               PROVE  /\ c.key \in Bundle /\ Routed(c.key)'
                      /\ c.version \in 0..budget'.version
    OBVIOUS
  <2>1. c.key \in Bundle /\ Routed(c.key) /\ c.version \in 0..budget.version
    BY DEF CallFits
  <2> QED BY <1>1, <2>1, StillRouted DEF Forward
<1>3. c.pc = "bundle" /\ run'.elastic /\ c.version = budget'.version
        => (c.conflict <=> Disagrees(c.key)')
  <2> SUFFICES ASSUME c.pc = "bundle", run'.elastic, c.version = budget'.version
               PROVE  c.conflict <=> Disagrees(c.key)'
    OBVIOUS
  <2>1. c.version \in 0..budget.version
    BY DEF CallFits
  <2>2. UNCHANGED bundles /\ c.version = budget.version /\ run.elastic
    BY <2>1 DEF Forward
  <2>3. c.conflict <=> Disagrees(c.key)
    BY <2>2 DEF CallFits
  <2> QED BY <2>2, <2>3, SameDisagreement
<1>4. c.pc = "complete" =>
         /\ c.binding \in 0..binding'.id
         /\ run'.solo =>
              /\ c.binding > 0 /\ (c.binding = binding'.id => binding'.solo)
              /\ \E d \in decisions' : d.allow /\ d.binding = c.binding /\ d.count = c.count
  BY DEF CallFits, Forward
<1> QED BY <1>2, <1>3, <1>4 DEF CallFits

LEMMA CallsStep ==
    ASSUME CallsFit, Forward, NEW s \in Slot, NEW c, Proceed(s, c), CallFits(c)'
    PROVE  CallsFit'
<1>1. call' = [call EXCEPT ![s] = c] /\ call = [q \in Slot |-> call[q]]
  BY DEF Proceed, CallsFit
<1>2. call' = [q \in Slot |-> call'[q]]
  BY <1>1
<1>3. ASSUME NEW q \in Slot PROVE CallFits(call[q])'
  <2>1. PICK d : d = call'[q]
    OBVIOUS
  <2>2. CASE q = s
    <3>1. d = c
      BY <1>1, <2>1, <2>2
    <3>2. CallFits(d)'
      BY <3>1
    <3> QED BY <2>1, <3>2 DEF CallFits
  <2>3. CASE q # s
    <3>1. d = call[q]
      BY <1>1, <2>1, <2>3
    <3>2. CallFits(d)
      BY <3>1 DEF CallsFit
    <3>3. CallFits(d)'
      BY <3>2, StillFits
    <3> QED BY <2>1, <3>3 DEF CallFits
  <2> QED BY <2>2, <2>3
<1> QED BY <1>2, <1>3 DEF CallsFit

LEMMA CallsStay == ASSUME CallsFit, Forward, UNCHANGED call PROVE CallsFit'
<1>1. ASSUME NEW q \in Slot PROVE CallFits(call[q])'
  <2>1. PICK d : d = call[q] /\ CallFits(d)
    BY DEF CallsFit
  <2>2. CallFits(d)'
    BY <2>1, StillFits
  <2> QED BY <2>1, <2>2 DEF CallFits
<1>2. call' = [s \in Slot |-> call'[s]]
  BY DEF CallsFit
<1> QED BY <1>1, <1>2 DEF CallsFit

\* A request that ends, in a step that the others can bear.
LEMMA CallsEnd ==
    ASSUME CallsFit, Forward, NEW s \in Slot, Proceed(s, Idle)
    PROVE  CallsFit'
<1>1. PICK c : c = Idle /\ CallFits(c)
  BY IdleFits
<1> QED BY <1>1, StillFits, CallsStep

Still == UNCHANGED <<run, evidence, exceptions, receipt, policy>>

LEMMA StillForward == ASSUME TypeOK, Still PROVE Forward
  BY RunAssumption DEF TypeOK, Still, evidence, policy, Forward, RunAssumption

\* A step that leaves the rows alone.
LEMMA StillInv ==
    ASSUME IInv, Still, CallsFit', run.status = "none" => UNCHANGED call PROVE IInv'
<1>1. UNCHANGED <<run, bundles, budget, entries, exceptions, receipt, point, binding, decisions>>
  BY DEF Still, evidence, policy
<1>2. TypeOK' /\ OneOutcome' /\ ReviewsIndependent'
  BY <1>1, Parts DEF TypeOK, OneOutcome, ReviewsIndependent
<1>3. ConflictsRecorded' /\ AccountsExact'
  BY <1>1, Parts DEF ConflictsRecorded, Conflicting, Values, AccountsExact
<1>4. Rows' /\ NothingYet'
  BY <1>1, Parts DEF Rows, NothingYet
<1> QED BY <1>2, <1>3, <1>4 DEF IInv, RunInv

\* A request that is in flight came after the start of the run.
LEMMA InFlight ==
    ASSUME IInv, NEW s \in Slot, call[s].pc # "idle" \/ call[s] # Idle
    PROVE  run.status # "none" /\ CallFits(call[s])
  BY Parts DEF NothingYet, Idle, CallsFit

\* A request goes on with what it has read, and the rows stay.
LEMMA ReadInv ==
    ASSUME IInv, NEW s \in Slot, NEW c, Proceed(s, c), CallFits(c), Still,
           run.status # "none"
    PROVE  IInv'
<1>1. Forward
  BY Parts, StillForward
<1>2. CallFits(c)'
  BY <1>1, StillFits
<1>3. CallsFit'
  BY <1>1, <1>2, Parts, CallsStep
<1> QED BY <1>3, StillInv

LEMMA FailInv == ASSUME IInv, NEW s \in Slot, Fail(s) PROVE IInv'
<1>1. run.status # "none"
  BY InFlight DEF Fail
<1>2. PICK c : c = Idle /\ CallFits(c)
  BY IdleFits
<1> QED BY <1>1, <1>2, ReadInv DEF Fail, Still

LEMMA BeginBundleInv ==
    ASSUME IInv, NEW s \in Slot, NEW b \in Bundle, NEW live \in BOOLEAN, BeginBundle(s, b, live)
    PROVE  IInv'
<1>1. run.status # "none" /\ Still
  BY DEF BeginBundle, CanBegin, Still
<1>2. ASSUME NEW kind \in {"independence", "exhausted"},
             Proceed(s, [pc |-> "deny", key |-> b, kind |-> kind])
      PROVE  IInv'
  <2>1. PICK c : c = [pc |-> "deny", key |-> b, kind |-> kind]
    OBVIOUS
  <2>2. CallFits(c)
    BY <2>1 DEF CallFits, Key
  <2> QED BY <1>1, <1>2, <2>1, <2>2, ReadInv
<1>3. ASSUME Accepted(b, live),
             Proceed(s, [pc |-> "claims", key |-> b, version |-> budget.version])
      PROVE  IInv'
  <2>1. PICK c : c = [pc |-> "claims", key |-> b, version |-> budget.version]
    OBVIOUS
  <2>2. budget.version \in Nat /\ Routed(b)
    BY <1>3, Parts DEF TypeOK, Accepted
  <2>3. CallFits(c)
    BY <2>1, <2>2 DEF CallFits
  <2> QED BY <1>1, <1>3, <2>1, <2>3, ReadInv
<1> QED BY <1>2, <1>3 DEF BeginBundle

LEMMA ReadClaimsInv == ASSUME IInv, NEW s \in Slot, ReadClaims(s) PROVE IInv'
<1>1. run.status # "none" /\ Still /\ CallFits(call[s]) /\ call[s].pc = "claims"
  BY InFlight DEF ReadClaims, Still
<1> DEFINE b == call[s].key
<1>2. PICK c : c = [pc |-> "bundle", key |-> b, version |-> call[s].version,
                    conflict |-> Event[b].kind = "result"
                                 /\ Cardinality(Values(bundles \cup {b})) > 1]
  OBVIOUS
<1>3. b \in Bundle /\ Routed(b) /\ call[s].version \in 0..budget.version
  BY <1>1 DEF CallFits
<1>4. c.pc = "bundle" /\ c.key = b /\ c.version = call[s].version
  BY <1>2
<1>5. c.conflict <=> Disagrees(b)
  BY <1>2 DEF Disagrees
<1>6. CallFits(c)
  BY <1>3, <1>4, <1>5 DEF CallFits
<1> QED BY <1>1, <1>2, <1>6, ReadInv DEF ReadClaims

LEMMA BeginEntryInv ==
    ASSUME IInv, NEW s \in Slot, NEW e \in Entry, BeginEntry(s, e) PROVE IInv'
<1>1. run.status # "none" /\ Still
  BY DEF BeginEntry, CanBegin, Still
<1>2. PICK c : /\ Proceed(s, c)
               /\ \/ c = [pc |-> "entry", key |-> e, version |-> budget.version]
                  \/ c = [pc |-> "deny", key |-> e, kind |-> "exhausted"]
  BY DEF BeginEntry
<1>3. CallFits(c)
  BY <1>2 DEF CallFits, Key
<1> QED BY <1>1, <1>2, <1>3, ReadInv

LEMMA BeginEvaluateInv ==
    ASSUME IInv, NEW s \in Slot, NEW e \in Eval, BeginEvaluate(s, e) PROVE IInv'
<1>1. run.status # "none" /\ Still /\ binding.id \in 1..MaxBinding
  BY Parts, RunAssumption DEF BeginEvaluate, CanBegin, Still, TypeOK, RunAssumption
<1>2. PICK c : c = [pc |-> "count", key |-> e, binding |-> binding.id, allow |-> GatesPass]
  OBVIOUS
<1>3. CallFits(c)
  BY <1>1, <1>2 DEF CallFits
<1> QED BY <1>1, <1>2, <1>3, ReadInv DEF BeginEvaluate

LEMMA CountBundlesInv == ASSUME IInv, NEW s \in Slot, CountBundles(s) PROVE IInv'
<1>1. run.status # "none" /\ Still /\ CallFits(call[s]) /\ call[s].pc = "count"
  BY InFlight DEF CountBundles, Still
<1>2. PICK c : c = [pc |-> "decide", key |-> call[s].key, binding |-> call[s].binding,
                    allow |-> call[s].allow, count |-> Cardinality(bundles)]
  OBVIOUS
<1>3. CallFits(c)
  BY <1>1, <1>2 DEF CallFits
<1> QED BY <1>1, <1>2, <1>3, ReadInv DEF CountBundles

LEMMA BeginCompleteInv ==
    ASSUME IInv, NEW s \in Slot, NEW f \in Finish, BeginComplete(s, f) PROVE IInv'
<1>1. run.status # "none" /\ Still
  BY DEF BeginComplete, CanBegin, Still
<1>2. PICK c : c = [pc |-> "policy", key |-> f]
  OBVIOUS
<1>3. CallFits(c)
  BY <1>2 DEF CallFits
<1> QED BY <1>1, <1>2, <1>3, ReadInv DEF BeginComplete

LEMMA ReadPolicyInv == ASSUME IInv, NEW s \in Slot, ReadPolicy(s) PROVE IInv'
<1>1. run.status # "none" /\ Still /\ CallFits(call[s]) /\ call[s].pc = "policy"
  BY InFlight DEF ReadPolicy, Still
<1>2. CASE Proceed(s, Idle)
  <2>1. PICK c : c = Idle /\ CallFits(c)
    BY IdleFits
  <2> QED BY <1>1, <1>2, <2>1, ReadInv
<1>3. CASE /\ IF binding.id = 0 THEN ~run.solo ELSE SoloAllowed /\ Decided
           /\ Proceed(s, [pc |-> "complete", key |-> call[s].key,
                           binding |-> binding.id, count |-> Cardinality(bundles)])
  <2>1. PICK c : c = [pc |-> "complete", key |-> call[s].key,
                      binding |-> binding.id, count |-> Cardinality(bundles)]
    OBVIOUS
  <2>2. binding.id \in Nat /\ call[s].key \in Finish
    BY <1>1, Parts, RunAssumption DEF TypeOK, CallFits, RunAssumption
  <2>3. run.solo => /\ binding.id > 0 /\ binding.solo
                    /\ \E d \in decisions : d.allow /\ d.binding = binding.id
                                             /\ d.count = Cardinality(bundles)
    BY <1>3, <2>2 DEF SoloAllowed, Decided
  <2>4. CallFits(c)
    BY <2>1, <2>2, <2>3 DEF CallFits
  <2> QED BY <1>1, <1>3, <2>1, <2>4, ReadInv
<1> QED BY <1>2, <1>3 DEF ReadPolicy

-----------------------------------------------------------------------------
(* Batches *)

\* Bundles do not have the keys of other requests.
LEMMA KeysApart ==
    ASSUME NEW b \in Bundle
    PROVE  b \notin Entry /\ b \notin Eval /\ b \notin Finish /\ b \in Key
  BY RunAssumption DEF RunAssumption, Key

LEMMA CountFinite ==
    ASSUME IInv
    PROVE  /\ IsFiniteSet(bundles) /\ Cardinality(bundles) \in Nat
           /\ IsFiniteSet(entries) /\ Cardinality(entries) \in Nat
  BY Parts, FS_CardinalityType DEF Rows

\* Bundles only add to what a review rests on.
LEMMA StillReviewed ==
    ASSUME ReviewsIndependent, NEW b, Event[b].kind = "review" => Routed(b),
           bundles' = bundles \cup {b}
    PROVE  ReviewsIndependent'
<1>1. \A c \in bundles' : Event[c].kind = "review" =>
         /\ Event[c].target \in bundles /\ Author[Event[c].target] # Author[c]
         /\ \E q \in bundles : Event[q].kind = "request" /\ Event[q].target = Event[c].target
                             /\ Event[q].reviewer = Author[c]
  <2> SUFFICES ASSUME NEW c \in bundles', Event[c].kind = "review"
               PROVE  /\ Event[c].target \in bundles /\ Author[Event[c].target] # Author[c]
                      /\ \E q \in bundles : /\ Event[q].kind = "request"
                                          /\ Event[q].target = Event[c].target
                                          /\ Event[q].reviewer = Author[c]
    OBVIOUS
  <2>1. CASE c \in bundles
    BY <2>1 DEF ReviewsIndependent
  <2>2. CASE c = b
    BY <2>2 DEF Routed, Results
  <2> QED BY <2>1, <2>2
<1> QED BY <1>1 DEF ReviewsIndependent

\* The exceptions that come with a bundle.
LEMMA RaisedIs ==
    ASSUME NEW s \in Slot, call[s].key \in Key
    PROVE  /\ Raised(s) \subseteq Exceptions
           /\ \A x \in Raised(s) : x.kind \in {"conflict", "action"}
           /\ call[s].conflict => \E x \in Raised(s) : x.kind = "conflict"
<1>1. ASSUME NEW kind \in {"conflict", "action"}, NEW k \in Key
      PROVE  Exception(kind, k) \in Exceptions /\ Exception(kind, k).kind = kind
  BY DEF Exception, Exceptions
<1>2. \A x \in Raised(s) : x \in {Exception("conflict", call[s].key), Exception("action", call[s].key)}
  BY DEF Raised
<1>3. call[s].conflict => Exception("conflict", call[s].key) \in Raised(s)
  BY DEF Raised
<1> QED BY <1>1, <1>2, <1>3

LEMMA CommitBundleInv == ASSUME IInv, NEW s \in Slot, CommitBundle(s) PROVE IInv'
<1> DEFINE b == call[s].key
           fits == /\ FreshReceipt(s)
                   /\ run.elastic => VersionHolds(s) /\ Affordable
                   /\ run.status = "active" => ~Full
<1>0. /\ run.status # "none" /\ CallFits(call[s]) /\ call[s].pc = "bundle"
      /\ Proceed(s, Idle) /\ UNCHANGED <<entries, policy>>
  BY InFlight DEF CommitBundle
<1>1. CASE ~fits
  <2>1. Still
    BY <1>0, <1>1 DEF CommitBundle, Still, evidence, policy
  <2>2. PICK c : c = Idle /\ CallFits(c)
    BY IdleFits
  <2> QED BY <1>0, <2>1, <2>2, ReadInv
<1>2. CASE fits
  <2>1. /\ bundles' = bundles \cup {b}
        /\ run' = [run EXCEPT !.count = IF run.status = "active" THEN @ + 1 ELSE @]
        /\ run.elastic => budget' = [used |-> budget.used + 1, version |-> budget.version + 1]
        /\ ~run.elastic => budget' = budget
        /\ exceptions' = exceptions \cup Raised(s)
        /\ receipt' = [receipt EXCEPT ![b] = "ok"]
        /\ UNCHANGED <<entries, point, binding, decisions>>
    BY <1>0, <1>2 DEF CommitBundle, Charge, Receive, policy
  <2>2. b \in Bundle /\ Routed(b) /\ b \in Key /\ receipt[b] = "none"
    BY <1>0, <1>2, KeysApart DEF CallFits, FreshReceipt
  <2>3. b \notin bundles
    BY <2>2, Parts DEF OneOutcome
  <2>4. /\ IsFiniteSet(bundles') /\ Cardinality(bundles') = Cardinality(bundles) + 1
        /\ Cardinality(bundles) \in Nat /\ Cardinality(entries) \in Nat
    BY <2>1, <2>3, CountFinite, FS_AddElement
  <2>5. /\ run'.status = run.status /\ run'.elastic = run.elastic /\ run'.solo = run.solo
        /\ run'.count = IF run.status = "active" THEN run.count + 1 ELSE run.count
        /\ run' \in [status : {"none", "active", "completed"}, elastic : BOOLEAN, solo : BOOLEAN,
                     count : 0..MaxBundles]
    <3>1. run.status = "active" => run.count + 1 \in 0..MaxBundles
      BY <1>2, Parts, RunAssumption DEF TypeOK, Full, RunAssumption
    <3> QED BY <2>1, <3>1, Parts DEF TypeOK
  <2>6. /\ budget' \in [used : Nat, version : Nat]
        /\ run.elastic => budget'.used = budget.used + 1 /\ budget.version < budget'.version
        /\ budget'.used <= Limit /\ budget.version <= budget'.version
    BY <1>2, <2>1, Parts, RunAssumption DEF TypeOK, AccountsExact, Affordable, RunAssumption
  <2>7. TypeOK'
    <3>1. \A x \in exceptions' :
             x.kind \in {"conflict", "action", "independence", "exhausted", "policy"}
             /\ x.cause \in Key /\ x.open \in BOOLEAN
      BY <2>1, <2>2, RaisedIs, Parts DEF TypeOK, Exceptions
    <3>2. receipt' \in [Key -> {"none", "ok", "denied"}]
      BY <2>1, <2>2, Parts DEF TypeOK
    <3>3. \A d \in decisions' : d.binding \in 1..MaxBinding /\ d.count \in 0..Cardinality(bundles')
      BY <2>1, <2>4, Parts DEF TypeOK
    <3>4. bundles' \subseteq Bundle
      BY <2>1, <2>2, Parts DEF TypeOK
    <3> QED BY <2>1, <2>5, <2>6, <3>1, <3>2, <3>3, <3>4, Parts DEF TypeOK
  <2>8. OneOutcome'
    <3> SUFFICES ASSUME NEW c \in Bundle
                 PROVE  /\ receipt'[c] = "ok" <=> c \in bundles'
                        /\ receipt'[c] = "denied" <=>
                              \E x \in exceptions' : x.cause = c /\ x.kind \in {"independence", "exhausted"}
      BY DEF OneOutcome
    <3>1. c \in Key
      BY KeysApart
    <3>2. receipt'[c] = IF c = b THEN "ok" ELSE receipt[c]
      BY <2>1, <2>2, <3>1, Parts DEF TypeOK
    <3>3. (\E x \in exceptions' : x.cause = c /\ x.kind \in {"independence", "exhausted"})
            <=> (\E x \in exceptions : x.cause = c /\ x.kind \in {"independence", "exhausted"})
      BY <2>1, <2>2, RaisedIs
    <3> QED BY <2>1, <2>2, <3>2, <3>3, Parts DEF OneOutcome
  <2>9. ReviewsIndependent'
    BY <2>1, <2>2, Parts, StillReviewed
  <2>10. ConflictsRecorded'
    <3> SUFFICES ASSUME run.elastic, Conflicting' PROVE \E x \in exceptions' : x.kind = "conflict"
      BY <2>5 DEF ConflictsRecorded
    <3>1. Cardinality(Values(bundles \cup {b})) > 1
      BY <2>1 DEF Conflicting, Values
    <3>2. CASE Event[b].kind = "result"
      <4>1. call[s].conflict <=> Disagrees(b)
        BY <1>0, <1>2 DEF CallFits, VersionHolds
      <4>2. call[s].conflict
        BY <3>1, <3>2, <4>1 DEF Disagrees
      <4> QED BY <2>1, <2>2, <4>2, RaisedIs
    <3>3. CASE Event[b].kind # "result"
      <4>1. Values(bundles \cup {b}) = Values(bundles)
        BY <3>3 DEF Values
      <4>2. Conflicting
        BY <3>1, <4>1 DEF Conflicting
      <4> QED BY <2>1, <4>2, Parts DEF ConflictsRecorded
    <3> QED BY <3>2, <3>3
  <2>11. AccountsExact'
    <3>1. run'.elastic => budget'.used = Cardinality(bundles') + Cardinality(entries')
      BY <2>1, <2>4, <2>5, <2>6, Parts DEF AccountsExact, TypeOK
    <3>2. run'.status = "active" => run'.count = Cardinality(bundles')
      BY <2>4, <2>5, Parts DEF AccountsExact
    <3> QED BY <2>6, <3>1, <3>2 DEF AccountsExact
  <2>12. Rows'
    <3>1. exceptions' \subseteq Exceptions
      BY <2>1, <2>2, RaisedIs, Parts DEF Rows
    <3>2. \A e \in entries' : receipt'[e] # "none"
      BY <2>1, <2>2, Parts DEF Rows, TypeOK
    <3> QED BY <2>1, <2>4, <3>1, <3>2, Parts DEF Rows
  <2>13. NothingYet'
    BY <1>0, <2>5 DEF NothingYet
  <2>14. Forward
    <3>1. binding.id \in Nat /\ budget.version \in Nat
      BY Parts, RunAssumption DEF TypeOK, RunAssumption
    <3> QED BY <2>1, <2>5, <2>6, <3>1 DEF Forward
  <2>15. CallsFit'
    BY <1>0, <2>14, Parts, CallsEnd
  <2> QED BY <2>7, <2>8, <2>9, <2>10, <2>11, <2>12, <2>13, <2>15 DEF IInv, RunInv
<1> QED BY <1>1, <1>2

\* A step that touches neither bundles nor entries keeps what is about them.
LEMMA EvidenceKept ==
    ASSUME IInv, UNCHANGED <<bundles, entries, budget>>,
           run'.elastic = run.elastic, run'.count = run.count,
           run'.status = "active" => run.status = "active",
           \A x \in exceptions : \E y \in exceptions' : y.kind = x.kind
    PROVE  ReviewsIndependent' /\ ConflictsRecorded' /\ AccountsExact'
<1>1. ReviewsIndependent'
  BY Parts DEF ReviewsIndependent
<1>2. Conflicting' <=> Conflicting
  BY DEF Conflicting, Values
<1>3. ConflictsRecorded'
  BY <1>2, Parts DEF ConflictsRecorded
<1>4. AccountsExact'
  BY Parts DEF AccountsExact
<1> QED BY <1>1, <1>3, <1>4

LEMMA CommitDenialInv == ASSUME IInv, NEW s \in Slot, CommitDenial(s) PROVE IInv'
<1> DEFINE k == call[s].key
           x == Exception(call[s].kind, k)
<1>0. /\ run.status # "none" /\ CallFits(call[s]) /\ call[s].pc = "deny"
      /\ Proceed(s, Idle) /\ UNCHANGED <<run, evidence, policy>>
  BY InFlight DEF CommitDenial
<1>1. CASE ~FreshReceipt(s)
  <2>1. Still
    BY <1>0, <1>1 DEF CommitDenial, Still
  <2>2. PICK c : c = Idle /\ CallFits(c)
    BY IdleFits
  <2> QED BY <1>0, <2>1, <2>2, ReadInv
<1>2. CASE FreshReceipt(s)
  <2>1. /\ exceptions' = exceptions \cup {x} /\ receipt' = [receipt EXCEPT ![k] = "denied"]
        /\ UNCHANGED <<run, bundles, entries, budget, point, binding, decisions>>
    BY <1>0, <1>2 DEF CommitDenial, Receive, evidence, policy
  <2>2. /\ k \in Key /\ call[s].kind \in {"independence", "exhausted"} /\ receipt[k] = "none"
        /\ x \in Exceptions /\ x.kind \in {"independence", "exhausted"} /\ x.cause = k
    BY <1>0, <1>2 DEF CallFits, FreshReceipt, Exception, Exceptions
  <2> HIDE DEF x
  <2>3. TypeOK'
    <3>1. \A y \in exceptions' :
             y.kind \in {"conflict", "action", "independence", "exhausted", "policy"}
             /\ y.cause \in Key /\ y.open \in BOOLEAN
      BY <2>1, <2>2, Parts DEF TypeOK, Exceptions
    <3>2. receipt' \in [Key -> {"none", "ok", "denied"}]
      BY <2>1, <2>2, Parts DEF TypeOK
    <3> QED BY <2>1, <3>1, <3>2, Parts DEF TypeOK
  <2>4. OneOutcome'
    <3> SUFFICES ASSUME NEW c \in Bundle
                 PROVE  /\ receipt'[c] = "ok" <=> c \in bundles'
                        /\ receipt'[c] = "denied" <=>
                              \E y \in exceptions' : y.cause = c /\ y.kind \in {"independence", "exhausted"}
      BY DEF OneOutcome
    <3>1. receipt'[c] = IF c = k THEN "denied" ELSE receipt[c]
      BY <2>1, <2>2, KeysApart, Parts DEF TypeOK
    <3>2. (\E y \in exceptions' : y.cause = c /\ y.kind \in {"independence", "exhausted"})
            <=> \/ c = k
                \/ \E y \in exceptions : y.cause = c /\ y.kind \in {"independence", "exhausted"}
      BY <2>1, <2>2
    <3> QED BY <2>1, <2>2, <3>1, <3>2, Parts DEF OneOutcome
  <2>5. ReviewsIndependent' /\ ConflictsRecorded' /\ AccountsExact'
    BY <2>1, EvidenceKept
  <2>6. Rows' /\ NothingYet'
    BY <1>0, <2>1, <2>2, Parts DEF Rows, NothingYet, TypeOK
  <2>7. Forward
    BY <2>1, Parts, RunAssumption DEF TypeOK, Forward, RunAssumption
  <2>8. CallsFit'
    BY <1>0, <2>7, Parts, CallsEnd
  <2> QED BY <2>3, <2>4, <2>5, <2>6, <2>8 DEF IInv, RunInv
<1> QED BY <1>1, <1>2

LEMMA CommitEntryInv == ASSUME IInv, NEW s \in Slot, CommitEntry(s) PROVE IInv'
<1> DEFINE e == call[s].key
<1>0. /\ run.status # "none" /\ CallFits(call[s]) /\ call[s].pc = "entry"
      /\ Proceed(s, Idle) /\ UNCHANGED <<run, bundles, exceptions, policy>>
  BY InFlight DEF CommitEntry
<1>1. CASE ~(FreshReceipt(s) /\ VersionHolds(s) /\ Affordable)
  <2>1. Still
    BY <1>0, <1>1 DEF CommitEntry, Still, evidence
  <2>2. PICK c : c = Idle /\ CallFits(c)
    BY IdleFits
  <2> QED BY <1>0, <2>1, <2>2, ReadInv
<1>2. CASE FreshReceipt(s) /\ VersionHolds(s) /\ Affordable
  <2>1. /\ entries' = entries \cup {e} /\ receipt' = [receipt EXCEPT ![e] = "ok"]
        /\ budget' = [used |-> budget.used + 1, version |-> budget.version + 1]
        /\ UNCHANGED <<run, bundles, exceptions, point, binding, decisions>>
    BY <1>0, <1>2 DEF CommitEntry, Charge, Receive, policy
  <2>2. e \in Entry /\ e \in Key /\ receipt[e] = "none" /\ e \notin entries
    BY <1>0, <1>2, Parts DEF CallFits, FreshReceipt, Rows, Key
  <2>3. /\ IsFiniteSet(entries') /\ Cardinality(entries') = Cardinality(entries) + 1
        /\ Cardinality(bundles) \in Nat /\ Cardinality(entries) \in Nat
    BY <2>1, <2>2, CountFinite, FS_AddElement
  <2>4. /\ budget' \in [used : Nat, version : Nat] /\ budget'.used = budget.used + 1
        /\ budget'.used <= Limit
        /\ budget.version \in Nat /\ budget.version < budget'.version
    BY <1>2, <2>1, Parts DEF TypeOK, Affordable
  <2>5. TypeOK'
    <3>1. receipt' \in [Key -> {"none", "ok", "denied"}] /\ entries' \subseteq Entry
      BY <2>1, <2>2, Parts DEF TypeOK
    <3> QED BY <2>1, <2>4, <3>1, Parts DEF TypeOK
  <2>6. OneOutcome'
    <3>1. \A c \in Bundle : receipt'[c] = receipt[c]
      BY <2>1, <2>2, KeysApart, Parts DEF TypeOK
    <3> QED BY <2>1, <3>1, Parts DEF OneOutcome
  <2>7. ReviewsIndependent' /\ ConflictsRecorded'
    BY <2>1, Parts DEF ReviewsIndependent, ConflictsRecorded, Conflicting, Values
  <2>8. AccountsExact'
    BY <2>1, <2>3, <2>4, Parts DEF AccountsExact, TypeOK
  <2>9. Rows'
    <3>1. \A k \in entries' : receipt'[k] # "none"
      BY <2>1, <2>2, Parts DEF Rows, TypeOK
    <3> QED BY <2>1, <2>3, <3>1, Parts DEF Rows
  <2>10. NothingYet'
    BY <1>0, <2>1 DEF NothingYet
  <2>11. Forward
    BY <2>1, <2>4, Parts, RunAssumption DEF TypeOK, Forward, RunAssumption
  <2>12. CallsFit'
    BY <1>0, <2>11, Parts, CallsEnd
  <2> QED BY <2>5, <2>6, <2>7, <2>8, <2>9, <2>10, <2>12 DEF IInv, RunInv
<1> QED BY <1>1, <1>2

LEMMA CommitDecisionInv == ASSUME IInv, NEW s \in Slot, CommitDecision(s) PROVE IInv'
<1> DEFINE k == call[s].key
           d == [binding |-> call[s].binding, allow |-> call[s].allow, count |-> call[s].count]
           more == {Exception("policy", m) : m \in {j \in {k} : ~call[s].allow}}
<1>0. /\ run.status # "none" /\ CallFits(call[s]) /\ call[s].pc = "decide"
      /\ Proceed(s, Idle) /\ UNCHANGED <<run, evidence, point, binding>>
  BY InFlight DEF CommitDecision
<1>1. CASE ~(FreshReceipt(s) /\ call[s].count = Cardinality(bundles))
  <2>1. Still
    BY <1>0, <1>1 DEF CommitDecision, Still, policy
  <2>2. PICK c : c = Idle /\ CallFits(c)
    BY IdleFits
  <2> QED BY <1>0, <2>1, <2>2, ReadInv
<1>2. CASE FreshReceipt(s) /\ call[s].count = Cardinality(bundles)
  <2>1. /\ decisions' = decisions \cup {d} /\ exceptions' = exceptions \cup more
        /\ receipt' = [receipt EXCEPT ![k] = "ok"]
        /\ UNCHANGED <<run, bundles, entries, budget, point, binding>>
    BY <1>0, <1>2 DEF CommitDecision, Receive, evidence
  <2>2. k \in Eval /\ k \in Key /\ receipt[k] = "none"
    BY <1>0, <1>2 DEF CallFits, FreshReceipt, Key
  <2>3. d.binding \in 1..MaxBinding /\ d.count \in 0..Cardinality(bundles)
    BY <1>0, <1>2, CountFinite DEF CallFits
  <2>4. \A x \in more : x \in Exceptions /\ x.kind = "policy"
    <3>1. Exception("policy", k) \in Exceptions /\ Exception("policy", k).kind = "policy"
      BY <2>2 DEF Exception, Exceptions
    <3>2. \A x \in more : x = Exception("policy", k)
      OBVIOUS
    <3> HIDE DEF more
    <3> QED BY <3>1, <3>2
  <2> HIDE DEF d, more
  <2>5. TypeOK'
    <3>1. \A x \in exceptions' :
             x.kind \in {"conflict", "action", "independence", "exhausted", "policy"}
             /\ x.cause \in Key /\ x.open \in BOOLEAN
      BY <2>1, <2>4, Parts DEF TypeOK, Exceptions
    <3>2. receipt' \in [Key -> {"none", "ok", "denied"}]
      BY <2>1, <2>2, Parts DEF TypeOK
    <3>3. \A y \in decisions' : y.binding \in 1..MaxBinding /\ y.count \in 0..Cardinality(bundles')
      BY <2>1, <2>3, Parts DEF TypeOK
    <3> QED BY <2>1, <3>1, <3>2, <3>3, Parts DEF TypeOK
  <2>6. OneOutcome'
    <3>1. \A c \in Bundle : receipt'[c] = receipt[c]
      BY <2>1, <2>2, KeysApart, Parts DEF TypeOK
    <3> QED BY <2>1, <2>4, <3>1, Parts DEF OneOutcome
  <2>7. ReviewsIndependent' /\ ConflictsRecorded' /\ AccountsExact'
    BY <2>1, EvidenceKept
  <2>8. Rows' /\ NothingYet'
    BY <1>0, <2>1, <2>2, <2>4, Parts DEF Rows, NothingYet, TypeOK
  <2>9. Forward
    BY <2>1, Parts, RunAssumption DEF TypeOK, Forward, RunAssumption
  <2>10. CallsFit'
    BY <1>0, <2>9, Parts, CallsEnd
  <2> QED BY <2>5, <2>6, <2>7, <2>8, <2>10 DEF IInv, RunInv
<1> QED BY <1>1, <1>2

LEMMA CommitCompleteInv == ASSUME IInv, NEW s \in Slot, CommitComplete(s) PROVE IInv'
<1> DEFINE k == call[s].key
<1>0. /\ run.status # "none" /\ CallFits(call[s]) /\ call[s].pc = "complete"
      /\ Proceed(s, Idle) /\ UNCHANGED <<evidence, exceptions, policy>>
  BY InFlight DEF CommitComplete
<1>1. CASE UNCHANGED <<run, receipt>>
  <2>1. Still
    BY <1>0, <1>1 DEF Still
  <2>2. PICK c : c = Idle /\ CallFits(c)
    BY IdleFits
  <2> QED BY <1>0, <2>1, <2>2, ReadInv
<1>2. CASE /\ FreshReceipt(s) /\ run' = [run EXCEPT !.status = "completed"]
           /\ Receive(s, "ok")
  <2>1. /\ receipt' = [receipt EXCEPT ![k] = "ok"]
        /\ UNCHANGED <<bundles, entries, budget, exceptions, point, binding, decisions>>
    BY <1>0, <1>2 DEF Receive, evidence, policy
  <2>2. k \in Finish /\ k \in Key /\ receipt[k] = "none"
    BY <1>0, <1>2 DEF CallFits, FreshReceipt, Key
  <2>3. /\ run'.status = "completed" /\ run'.elastic = run.elastic /\ run'.solo = run.solo
        /\ run'.count = run.count
        /\ run' \in [status : {"none", "active", "completed"}, elastic : BOOLEAN, solo : BOOLEAN,
                     count : 0..MaxBundles]
    BY <1>2, Parts DEF TypeOK
  <2>4. TypeOK'
    <3>1. receipt' \in [Key -> {"none", "ok", "denied"}]
      BY <2>1, <2>2, Parts DEF TypeOK
    <3> QED BY <2>1, <2>3, <3>1, Parts DEF TypeOK
  <2>5. OneOutcome'
    <3>1. \A c \in Bundle : receipt'[c] = receipt[c]
      BY <2>1, <2>2, KeysApart, Parts DEF TypeOK
    <3> QED BY <2>1, <3>1, Parts DEF OneOutcome
  <2>6. ReviewsIndependent' /\ ConflictsRecorded' /\ AccountsExact'
    BY <2>1, <2>3, EvidenceKept
  <2>7. Rows' /\ NothingYet'
    BY <2>1, <2>2, <2>3, Parts DEF Rows, NothingYet, TypeOK
  <2>8. Forward
    BY <2>1, <2>3, Parts, RunAssumption DEF TypeOK, Forward, RunAssumption
  <2>9. CallsFit'
    BY <1>0, <2>8, Parts, CallsEnd
  <2> QED BY <2>4, <2>5, <2>6, <2>7, <2>9 DEF IInv, RunInv
<1> QED BY <1>1, <1>2 DEF CommitComplete

-----------------------------------------------------------------------------
(* The lead, the owner and the run *)

LEMMA StartRunInv ==
    ASSUME IInv, NEW elastic \in BOOLEAN, NEW solo \in BOOLEAN, StartRun(elastic, solo)
    PROVE  IInv'
<1>1. /\ run.status = "none"
      /\ run' = [status |-> "active", elastic |-> elastic, solo |-> solo, count |-> 0]
      /\ UNCHANGED <<bundles, budget, entries, exceptions, receipt, point, binding, decisions, call>>
  BY DEF StartRun, evidence, policy
<1>2. /\ bundles = {} /\ entries = {} /\ budget.used = 0 /\ \A s \in Slot : call[s] = Idle
  BY <1>1, Parts DEF NothingYet
<1>3. run' \in [status : {"none", "active", "completed"}, elastic : BOOLEAN, solo : BOOLEAN,
               count : 0..MaxBundles]
  <2>1. 0 \in 0..MaxBundles
    BY RunAssumption DEF RunAssumption
  <2> QED BY <1>1, <2>1
<1>4. TypeOK' /\ OneOutcome' /\ ReviewsIndependent'
  BY <1>1, <1>3, Parts DEF TypeOK, OneOutcome, ReviewsIndependent
<1>5. ConflictsRecorded'
  <2>1. Values(bundles)' = {}
    BY <1>1, <1>2 DEF Values
  <2>2. ~(Cardinality({}) > 1)
    BY FS_EmptySet
  <2>3. ~Conflicting'
    BY <2>1, <2>2 DEF Conflicting
  <2> QED BY <2>3 DEF ConflictsRecorded
<1>6. AccountsExact'
  <2>1. Cardinality({}) = 0
    BY FS_EmptySet
  <2> QED BY <1>1, <1>2, <2>1, RunAssumption DEF AccountsExact, RunAssumption
<1>7. Rows' /\ NothingYet'
  BY <1>1, Parts DEF Rows, NothingYet
<1>8. CallsFit'
  <2>1. \A s \in Slot : call'[s].pc = "idle"
    BY <1>1, <1>2 DEF Idle
  <2>2. call' = [s \in Slot |-> call'[s]]
    BY <1>1, Parts DEF CallsFit
  <2> QED BY <2>1, <2>2 DEF CallsFit, CallFits
<1> QED BY <1>4, <1>5, <1>6, <1>7, <1>8 DEF IInv, RunInv

LEMMA CheckpointInv == IInv /\ Checkpoint => IInv'
<1> SUFFICES ASSUME IInv, Checkpoint PROVE IInv'
  OBVIOUS
<1>1. /\ UNCHANGED <<run, bundles, budget, entries, exceptions, receipt, binding, decisions, call>>
      /\ point' = TRUE
  BY DEF Checkpoint, evidence
<1>2. TypeOK' /\ OneOutcome' /\ ReviewsIndependent' /\ ConflictsRecorded' /\ AccountsExact'
  BY <1>1, Parts DEF TypeOK, OneOutcome, ReviewsIndependent, ConflictsRecorded, Conflicting,
                     Values, AccountsExact
<1>3. Forward
  BY <1>1, Parts, RunAssumption DEF TypeOK, Forward, RunAssumption
<1>4. Rows' /\ NothingYet' /\ CallsFit'
  BY <1>1, <1>3, Parts, CallsStay DEF Rows, NothingYet
<1> QED BY <1>2, <1>4 DEF IInv, RunInv

LEMMA ActivateInv == ASSUME IInv, NEW solo \in BOOLEAN, Activate(solo) PROVE IInv'
<1>1. /\ UNCHANGED <<run, bundles, budget, entries, exceptions, receipt, point, decisions, call>>
      /\ binding' = [id |-> binding.id + 1, solo |-> solo] /\ binding.id < MaxBinding
  BY DEF Activate, evidence
<1>2. /\ binding' \in [id : 0..MaxBinding, solo : BOOLEAN] /\ binding'.id = binding.id + 1
      /\ binding.id \in Nat
  BY <1>1, Parts, RunAssumption DEF TypeOK, RunAssumption
<1>3. TypeOK' /\ OneOutcome' /\ ReviewsIndependent' /\ ConflictsRecorded' /\ AccountsExact'
  BY <1>1, <1>2, Parts DEF TypeOK, OneOutcome, ReviewsIndependent, ConflictsRecorded, Conflicting,
                     Values, AccountsExact
<1>4. Forward
  BY <1>1, <1>2, Parts DEF TypeOK, Forward
<1>5. Rows' /\ NothingYet' /\ CallsFit'
  BY <1>1, <1>4, Parts, CallsStay DEF Rows, NothingYet
<1> QED BY <1>3, <1>5 DEF IInv, RunInv

LEMMA ResolveInv == ASSUME IInv, NEW x \in exceptions, Resolve(x) PROVE IInv'
<1>1. /\ exceptions' = (exceptions \ {x}) \cup {Close(x)}
      /\ UNCHANGED <<run, bundles, budget, entries, receipt, point, binding, decisions, call>>
  BY DEF Resolve, evidence, policy
<1>2. Close(x) \in Exceptions /\ Close(x).kind = x.kind /\ Close(x).cause = x.cause
  BY Parts DEF Rows, Close, Exceptions
<1>3. /\ \A y \in exceptions : \E z \in exceptions' : z.kind = y.kind /\ z.cause = y.cause
      /\ \A z \in exceptions' : \E y \in exceptions : z.kind = y.kind /\ z.cause = y.cause
  BY <1>1, <1>2
<1>4. TypeOK'
  <2>1. \A y \in exceptions' :
           y.kind \in {"conflict", "action", "independence", "exhausted", "policy"}
           /\ y.cause \in Key /\ y.open \in BOOLEAN
    BY <1>1, <1>2, Parts DEF TypeOK, Exceptions
  <2> QED BY <1>1, <2>1, Parts DEF TypeOK
<1>5. OneOutcome'
  <2> SUFFICES ASSUME NEW c \in Bundle
               PROVE  (\E y \in exceptions' : y.cause = c /\ y.kind \in {"independence", "exhausted"})
                        <=> (\E y \in exceptions : y.cause = c /\ y.kind \in {"independence", "exhausted"})
    BY <1>1, Parts DEF OneOutcome
  <2> QED BY <1>3
<1>6. ReviewsIndependent' /\ ConflictsRecorded' /\ AccountsExact'
  BY <1>1, <1>3, EvidenceKept
<1>7. Forward
  BY <1>1, Parts, RunAssumption DEF TypeOK, Forward, RunAssumption
<1>8. Rows' /\ NothingYet' /\ CallsFit'
  BY <1>1, <1>2, <1>7, Parts, CallsStay DEF Rows, NothingYet
<1> QED BY <1>4, <1>5, <1>6, <1>8 DEF IInv, RunInv

-----------------------------------------------------------------------------
(* The theorems *)

LEMMA NextInv == IInv /\ [Next]_vars => IInv'
<1> SUFFICES ASSUME IInv, [Next]_vars PROVE IInv'
  OBVIOUS
<1>1. CASE UNCHANGED vars
  <2>1. Still /\ UNCHANGED call
    BY <1>1 DEF vars, Still, evidence, policy
  <2>2. CallsFit'
    BY <2>1, Parts, StillForward, CallsStay
  <2> QED BY <2>1, <2>2, StillInv
<1>2. ASSUME NEW s \in Slot, Submit(s) PROVE IInv'
  BY <1>2, BeginBundleInv, ReadClaimsInv, CommitBundleInv, CommitDenialInv,
     BeginEntryInv, CommitEntryInv DEF Submit
<1>3. ASSUME NEW s \in Slot, Conclude(s) PROVE IInv'
  BY <1>3, BeginEvaluateInv, CountBundlesInv, CommitDecisionInv, BeginCompleteInv,
     ReadPolicyInv, CommitCompleteInv DEF Conclude
<1> QED BY <1>1, <1>2, <1>3, FailInv, StartRunInv, CheckpointInv, ActivateInv, ResolveInv DEF Next

\* The inductive invariant holds in every reachable state.
THEOREM Invariance == Spec => []IInv
  BY InitInv, NextInv, PTL DEF Spec

(***************************************************************************)
(* LeadRun.RunInv, for every instance: a request has one outcome, and a    *)
(* review counts only if it was asked of its author, about another's work. *)
(***************************************************************************)
THEOREM RunStands == Spec => []RunInv
<1>1. IInv => RunInv
  BY DEF IInv
<1> QED BY Invariance, <1>1, PTL

(***************************************************************************)
(* LeadRun.ConflictsRecorded, for every instance: of two batches with      *)
(* claims that differ, the later one compared them.                        *)
(***************************************************************************)
THEOREM ConflictsAreRecorded == Spec => []ConflictsRecorded
<1>1. IInv => ConflictsRecorded
  BY DEF IInv
<1> QED BY Invariance, <1>1, PTL

\* LeadRun.AccountsExact, for every instance.
THEOREM AccountsAreExact == Spec => []AccountsExact
<1>1. IInv => AccountsExact
  BY DEF IInv
<1> QED BY Invariance, <1>1, PTL

(***************************************************************************)
(* LeadRun.SoloConsentStands, for every instance: what the batch compares  *)
(* with the active binding is the binding that consented.                  *)
(***************************************************************************)
THEOREM SoloConsent == Spec => SoloConsentStands
<1>1. ASSUME IInv, Next, Completes, run.solo
      PROVE  /\ binding.solo
             /\ \E d \in decisions : /\ d.allow /\ d.binding = binding.id
                                     /\ d.count = Cardinality(bundles)
  <2>1. run' # run /\ run.status = "active" /\ run'.status = "completed"
    BY <1>1 DEF Completes
  <2>2. \A elastic, solo \in BOOLEAN : ~StartRun(elastic, solo)
    BY <2>1 DEF StartRun
  <2>3. PICK s \in Slot : CommitBundle(s) \/ CommitComplete(s)
    BY <1>1, <2>1, <2>2
       DEF Next, Submit, Conclude, BeginBundle, ReadClaims, CommitDenial, BeginEntry, CommitEntry,
           BeginEvaluate, CountBundles, CommitDecision, BeginComplete, ReadPolicy, Fail,
           Checkpoint, Activate, Resolve
  <2>4. ~CommitBundle(s)
    <3>1. [run EXCEPT !.count = IF run.status = "active" THEN @ + 1 ELSE @].status = run.status
      BY <1>1, Parts DEF TypeOK
    <3> QED BY <2>1, <3>1 DEF CommitBundle
  <2>5. call[s].pc = "complete" /\ DecisionStands(s)
    BY <2>1, <2>3, <2>4 DEF CommitComplete
  <2>6. CallFits(call[s])
    BY <1>1, Parts DEF CallsFit
  <2>7. /\ call[s].binding > 0 /\ (call[s].binding = binding.id => binding.solo)
        /\ \E d \in decisions : d.allow /\ d.binding = call[s].binding /\ d.count = call[s].count
    BY <1>1, <2>5, <2>6 DEF CallFits
  <2> QED BY <2>5, <2>7 DEF DecisionStands
<1>2. IInv /\ [Next]_vars =>
        [(Completes /\ run.solo) =>
            /\ binding.solo
            /\ \E d \in decisions : /\ d.allow /\ d.binding = binding.id
                                    /\ d.count = Cardinality(bundles)]_vars
  BY <1>1
<1> QED BY Invariance, <1>2, PTL DEF Spec, SoloConsentStands

=============================================================================
