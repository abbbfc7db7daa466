----------------------------- MODULE MCServices -----------------------------
(* Small instances of the parts beside the customer turn: the document      *)
(* registry and its index, the application's startup, the way from a        *)
(* session to a run, the admission of evidence, the semantic selector, the  *)
(* caches of access tokens, the evaluation gates, the runtime proof and the *)
(* acceptance harness.  They share no state, so a behaviour picks one of    *)
(* them and leaves the others where they start: TLC explores the sum of     *)
(* their state spaces.                                                      *)
EXTENDS Services, TLC

CONSTANTS a1, a2,  \* whoever comes in twos: processes, gate runs, requests, searches, calls
          b1, b2,  \* clients of the application; customers
          d1, d2, v1, v2, x1, x2, t1, t2, t3, w1, w2, s1,  \* RagRegistry
          alice, ava, north, south,                        \* EnterpriseStartup, EnterpriseAccess
          c1, c2,                                          \* EvaluationGate, AcceptanceHarness
          k1, k2, f1,                                      \* EnterpriseAccess, AcceptanceHarness
          acme, zen, allergy, device                       \* EvidenceAdmission, SemanticSelector

VARIABLE which

-----------------------------------------------------------------------------
(* Two documents of two versions each, one text in one chunk and one in two; *)
(* overlapping batches in opposite orders, one that goes back to a retired   *)
(* version, and two that are refused.                                        *)

Entry(d, v, x) == [doc |-> d, version |-> v, content |-> x]

DocumentRanks == (d1 :> 1) @@ (d2 :> 2) @@ (t1 :> 1) @@ (t2 :> 2) @@ (t3 :> 3)
Texts == (x1 :> <<t1>>) @@ (x2 :> <<t2, t3>>)
Updates ==
  {<<Entry(d1, v1, x1), Entry(d2, v1, x2)>>, <<Entry(d2, v2, x1), Entry(d1, v2, x2)>>,
   <<Entry(d1, v1, x2)>>, <<>>, <<Entry(d1, v1, x1), Entry(d1, v1, x2)>>}
Similarities == 0..2

-----------------------------------------------------------------------------
(* Two processes on one database, and an environment for every rule of the  *)
(* configuration: two that may start and five that must not.                 *)

Approved(scope) == [status |-> "approved", scope |-> scope]
Env(runtime, knowledge, retrieval, classification, endpoint, corpus) ==
  [runtime |-> runtime, knowledge |-> knowledge, retrieval |-> retrieval,
   classification |-> classification, endpoint |-> endpoint, corpus |-> corpus]
Private(runtime, retrieval, corpus) == Env(runtime, "private", retrieval, "public-synthetic", "private", corpus)

DemoSetup == << <<"tenant", "a">> >>
DemoPeople == <<alice, ava>>
DemoEnvironments ==
  {Env("deterministic", "portfolio", "lexical", "public-synthetic", "public", {}),
   Private("pi-real", "lexical", {Approved(north)}),
   Private("deterministic", "lexical", {Approved(north)}),
   Private("pi-real", "vector", {Approved(north)}),
   Private("pi-real", "lexical", {Approved(north), Approved(south)}),
   Private("pi-real", "lexical", {Approved(north), [status |-> "draft", scope |-> north]}),
   Env("pi-real", "portfolio", "vector", "internal", "private", {})}

-----------------------------------------------------------------------------
(* The four kinds of gate over one answerable case and one to abstain from;  *)
(* with 48 single-candidate cases the benchmark may just miss one in fifty.  *)

Holdout  == [resumes |-> TRUE,  stops |-> TRUE,  partial |-> TRUE,  judges |-> "exact"]
Boundary == [resumes |-> FALSE, stops |-> TRUE,  partial |-> TRUE,  judges |-> "exact"]
Recovery == [resumes |-> FALSE, stops |-> FALSE, partial |-> FALSE, judges |-> "rates"]
Latency  == [resumes |-> TRUE,  stops |-> FALSE, partial |-> FALSE, judges |-> "none"]

Policies == {Holdout, Boundary, Recovery, Latency}
TwoCases == <<[id |-> 1, expects |-> "answer"], [id |-> 2, expects |-> "ABSTAIN"]>>

\* One case to answer from f1 and two without or with too much evidence.
Case(type, evidence) == [type |-> type, evidence |-> evidence, tools |-> {"search_knowledge"}]
Result(type, evidence, done) == Case(type, evidence) @@ [done |-> done]

ThreeCases == <<Case("answer", {f1}), Case("fallback", {}), Case("fallback", {})>>
Turned ==
  {Result("answer", {f1}, {}), Result("fallback", {}, {}),
   Result("fallback", {}, {"handoff_to_human"}), Result("handoff", {}, {"handoff_to_human"})}

-----------------------------------------------------------------------------
(* Two users of two stores, one of whom becomes an admin, loses the store or *)
(* gets another; two requests about one conversation and two customers.      *)

Row(scope, role) == [scope |-> scope, role |-> role]

Homes == (alice :> north) @@ (ava :> south)
Changed == {{}, {Row(north, "admin")}, {Row(north, "agent"), Row(south, "agent")}}

-----------------------------------------------------------------------------
(* One turn of a store with entries of every scope and status, and any of    *)
(* four safety entries; two searches.                                        *)

Entry0 == [domain |-> "knowledge", status |-> "approved", tenant |-> None, store |-> None,
           risk |-> None, pause |-> FALSE, requiresEscalation |-> FALSE, options |-> {}]
Safe(status, risk, human, options) ==
  [Entry0 EXCEPT !.domain = "safety", !.status = status, !.risk = risk, !.pause = TRUE,
                 !.requiresEscalation = human, !.options = options]
Knowledge ==
  {Entry0, [Entry0 EXCEPT !.tenant = acme], [Entry0 EXCEPT !.tenant = acme, !.store = north],
   [Entry0 EXCEPT !.tenant = acme, !.store = north, !.status = "synthetic_test_only"],
   [Entry0 EXCEPT !.tenant = acme, !.store = south], [Entry0 EXCEPT !.tenant = zen, !.store = south],
   [Entry0 EXCEPT !.status = "unapproved"]}
SafetyEntries ==
  {Safe("approved", allergy, FALSE, {1, 2, 3, 4}), Safe("approved", allergy, TRUE, {5}),
   Safe("synthetic_test_only", allergy, FALSE, {6}), Safe("approved", device, FALSE, {7})}

Turns == {[tenant |-> acme, store |-> north, risk |-> r] : r \in {None, allergy}}
Bases == {k \cup entries : k \in {{}, Knowledge, {[Entry0 EXCEPT !.store = south]}}, entries \in SUBSET SafetyEntries}
Risks == {{}, {allergy}, {allergy, device}}

-----------------------------------------------------------------------------
(* Two calls of the customer-service client, or of the staff client.  A tick  *)
(* is the timeout of a request; the windows of the caches are far more.       *)

BothClients == {[window |-> 2, retries |-> TRUE], [window |-> 2, retries |-> FALSE]}

\* A case of one candidate, of three, and of one too many.
CandidateLists == {<<acme>>, <<acme, zen, north>>, <<acme, zen, north, south>>}

-----------------------------------------------------------------------------
(* Suites of two cases and of one, two that are refused and one that cannot  *)
(* be declared; expectations that a run may meet and one list that repeats.  *)

Suite(cases, supported) == [cases |-> cases, supported |-> supported]
Talk(case, conversation) == [case |-> case, conversation |-> conversation]
Made(result, evidence, kinds) ==
  [result |-> result, evidence |-> evidence, writes |-> {[kind |-> k, key |-> k1] : k \in kinds}]
Expect(case, outcome, evidence, durable, conversation) ==
  [case |-> case, outcome |-> outcome, evidence |-> evidence, durable |-> durable,
   conversation |-> conversation, key |-> k1]

Suites ==
  {Suite(<<Talk(c1, v1), Talk(c2, v2)>>, TRUE), Suite(<<Talk(c2, v2)>>, TRUE), Suite(<<>>, TRUE),
   Suite(<<Talk(c1, v1), Talk(c1, v2)>>, TRUE), Suite(<<Talk(c1, v1)>>, FALSE)}
Replies ==
  {Made("answer", {}, {}), Made("answer", {f1}, {}), Made("answer", {}, {"ticket"}),
   Made("fallback", {}, {}), Made("escalation", {}, {"handoff"}), Made("invalid", {}, {"ticket"})}
Acceptances ==
  {<<Expect(c1, "answer", {f1}, "no_write", v1), Expect(c2, "escalation", None, "handoff", v2)>>,
   <<Expect(c2, "answer", None, "ticket", v2)>>,
   <<Expect(c1, "answer", None, "not_required", v1), Expect(c1, "fallback", None, "not_required", v1)>>}

-----------------------------------------------------------------------------
Init ==
  /\ which \in {"registry", "startup", "gate", "proof", "access", "evidence", "tokens", "selector", "harness"}
  /\ Rag!Init /\ Startup!Init /\ Gate!Init /\ Proof!Init /\ Access!Init /\ Evidence!Init /\ Tokens!Init
  /\ Selector!Init /\ Harness!Init
  /\ which # "startup" => ledger = {}
  /\ which # "gate" => gate = Holdout
  /\ head = c1
  /\ which # "evidence" => asking.risk = None /\ library = {} /\ lenient = {}
  /\ which # "tokens" => client.retries
  /\ which # "selector" => Len(offered) = 1
  /\ which # "harness" => inputs.cases = <<>> /\ Len(expected) = 1

Next ==
  /\ UNCHANGED which
  /\ \/ /\ which = "registry" /\ Rag!Next
        /\ UNCHANGED <<startupVars, gateVars, proofVars, accessVars, evidenceVars, tokenVars, selectorVars, harnessVars>>
     \/ /\ which = "startup" /\ Startup!Next
        /\ UNCHANGED <<ragVars, gateVars, proofVars, accessVars, evidenceVars, tokenVars, selectorVars, harnessVars>>
     \/ /\ which = "gate" /\ Gate!Next
        /\ UNCHANGED <<ragVars, startupVars, proofVars, accessVars, evidenceVars, tokenVars, selectorVars, harnessVars>>
     \/ /\ which = "proof" /\ Proof!Next
        /\ UNCHANGED <<ragVars, startupVars, gateVars, accessVars, evidenceVars, tokenVars, selectorVars, harnessVars>>
     \/ /\ which = "access" /\ Access!Next
        /\ UNCHANGED <<ragVars, startupVars, gateVars, proofVars, evidenceVars, tokenVars, selectorVars, harnessVars>>
     \/ /\ which = "evidence" /\ Evidence!Next
        /\ UNCHANGED <<ragVars, startupVars, gateVars, proofVars, accessVars, tokenVars, selectorVars, harnessVars>>
     \/ /\ which = "tokens" /\ Tokens!Next
        /\ UNCHANGED <<ragVars, startupVars, gateVars, proofVars, accessVars, evidenceVars, selectorVars, harnessVars>>
     \/ /\ which = "selector" /\ Selector!Next
        /\ UNCHANGED <<ragVars, startupVars, gateVars, proofVars, accessVars, evidenceVars, tokenVars, harnessVars>>
     \/ /\ which = "harness" /\ Harness!Next
        /\ UNCHANGED <<ragVars, startupVars, gateVars, proofVars, accessVars, evidenceVars, tokenVars, selectorVars>>

vars ==
  <<which, ragVars, startupVars, gateVars, proofVars, accessVars, evidenceVars, tokenVars, selectorVars,
    harnessVars>>

Spec == Init /\ [][Next]_vars

Symmetric == Permutations({a1, a2}) \cup Permutations({b1, b2})

=============================================================================
