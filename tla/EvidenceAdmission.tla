-------------------------- MODULE EvidenceAdmission --------------------------
(***************************************************************************)
(* What evidence a turn may answer from: the searches of one turn over a   *)
(* knowledge base, GovernedKnowledgeRetrievalService (src/knowledge.ts) or *)
(* ApprovedSafetyRetrievalService (src/safety.ts), their admission by the  *)
(* runtime (the callbacks of createTools in src/index.ts) and decideSafety.*)
(* Searches may end after their tool has timed out, beside the next one.   *)
(* SupportTurn has the rest of the turn, and of what is decided here only  *)
(* how many candidates were admitted and whether the risk is covered.      *)
(***************************************************************************)
EXTENDS Naturals, FiniteSets

CONSTANTS
  Search,      \* tool calls of the turn
  Request,     \* [tenant, store, risk]; risk is None when detectSafetyRisk finds none
  Libraries,   \* the knowledge bases: sets of entries
  Query,       \* for each query, the risks it is about
  None

VARIABLES
  request, library,
  lenient,      \* what is configured to count synthetic fixtures: "retrieval", "runtime"
  search,       \* the tool calls: where they are, and their query
  grounding, routing,  \* groundingEvidence and knowledgeRouting
  safety,       \* safetyEvidence
  decision      \* None until the turn is decided, then what decideSafety says

vars == <<request, library, lenient, search, grounding, routing, safety, decision>>
inputs == <<request, library, lenient>>

-----------------------------------------------------------------------------
(* Knowledge entries.                                                      *)

WellFormed(entry) == entry.store # None => entry.tenant # None

KnowledgeScopeAllows(entry) ==
  entry.tenant \in {None, request.tenant} /\ entry.store \in {None, request.store}

Counts(entry, who) ==
  entry.status = "approved" \/ (who \in lenient /\ entry.status = "synthetic_test_only")

Admissible(entry, who) ==
  entry.domain = "knowledge" /\ KnowledgeScopeAllows(entry) /\ Counts(entry, who)

\* What GovernedKnowledgeRetrievalService finds for a query: any of the entries it
\* admits, as their texts may score 20 or not, and be among the best three or not.
Scored == SUBSET {e \in library : Admissible(e, "retrieval")}

\* What ApprovedSafetyRetrievalService finds: every entry of the risks named.
QueryMatches(entry, risks) == entry.domain = "safety" /\ entry.risk \in risks /\ Counts(entry, "retrieval")
SafetyMatches(risks) == {e \in library : QueryMatches(e, risks)}

Init ==
  /\ request \in Request
  /\ library \in Libraries /\ \A e \in library : e.domain = "knowledge" => WellFormed(e)
  /\ lenient \in SUBSET {"retrieval", "runtime"}
  /\ search = [s \in Search |-> [phase |-> "idle", risks |-> {}]]
  /\ grounding = {} /\ routing = "none" /\ safety = {}
  /\ decision = None

-----------------------------------------------------------------------------
(* The tool calls, one after another.                                      *)

Undecided == decision = None
Enter(s, phase, risks) == search' = [search EXCEPT ![s] = [phase |-> phase, risks |-> risks]]

Begin(s) ==
  /\ Undecided /\ search[s].phase = "idle"
  /\ \A o \in Search : search[o].phase # "running"
  /\ \E risks \in Query : Enter(s, "running", risks)
  /\ UNCHANGED <<inputs, grounding, routing, safety, decision>>

\* withToolTimeout, or the turn's deadline: the search goes on, for nobody.
TimesOut(s) ==
  /\ search[s].phase = "running"
  /\ Enter(s, "aborted", search[s].risks)
  /\ UNCHANGED <<inputs, grounding, routing, safety, decision>>

Decision(n) ==
  CASE n = 0 -> "NO_CANDIDATE" [] n = 1 -> "SINGLE_CANDIDATE" [] OTHER -> "AMBIGUOUS_MULTIPLE_CANDIDATES"

\* An answer that comes after the timeout does not count.
Heard(s) == search[s].phase = "running"

\* search_knowledge: the evidence of the last search replaces that of the earlier.
SearchEnds(s) ==
  /\ search[s].phase \in {"running", "aborted"}
  /\ \E found \in Scored \cup {SafetyMatches(search[s].risks)} :
       LET admitted == {e \in found : Admissible(e, "runtime")} IN
       IF Heard(s)
         THEN /\ safety' = {e \in found : e.domain = "safety"}
              /\ grounding' = IF Cardinality(admitted) = 1 THEN admitted ELSE {}
              /\ routing' = Decision(Cardinality(admitted))
         ELSE UNCHANGED <<safety, grounding, routing>>
  /\ Enter(s, "done", search[s].risks)
  /\ UNCHANGED <<inputs, decision>>

\* search_faq: the first entry that matches and is admissible.
FaqMatches(s) ==
  /\ Undecided /\ search[s].phase = "idle"
  /\ \A o \in Search : search[o].phase # "running"
  /\ \E e \in library : Admissible(e, "runtime") /\ grounding' = {e} /\ routing' = "none"
  /\ Enter(s, "done", {})
  /\ UNCHANGED <<inputs, safety, decision>>

-----------------------------------------------------------------------------
(* decideSafety(risk, safetyEvidence, false, "pause"), when the agent ends. *)

Scoped == {e \in safety : e.risk = request.risk /\ e.status = "approved" /\ e.pause}

\* Mutant: it takes every entry to demand a qualified human.
ObjectsTogether(entries) == \A e \in entries : e.requiresEscalation
Objects(entries) == \E e \in entries : e.requiresEscalation

Options(entries) == UNION {e.options : e \in entries}

DecideSafety ==
  IF Scoped = {} \/ Objects(Scoped) \/ Options(Scoped) = {}
    THEN [disposition |-> "escalate", options |-> {}]
    ELSE [disposition |-> "supported", options |-> Options(Scoped)]

\* Of the options the customer hears of at most three.
Decide ==
  /\ Undecided /\ \A s \in Search : search[s].phase # "running"
  /\ \/ request.risk = None /\ decision' = [disposition |-> "none", options |-> {}]
     \/ /\ request.risk # None
        /\ \E heard \in SUBSET DecideSafety.options :
             /\ Cardinality(heard) = IF Cardinality(DecideSafety.options) < 3 THEN Cardinality(DecideSafety.options) ELSE 3
             /\ decision' = [DecideSafety EXCEPT !.options = heard]
  /\ UNCHANGED <<inputs, search, grounding, routing, safety>>

Next ==
  \/ \E s \in Search : Begin(s) \/ TimesOut(s) \/ SearchEnds(s) \/ FaqMatches(s)
  \/ Decide

Spec == Init /\ [][Next]_vars

-----------------------------------------------------------------------------
(* Properties.                                                             *)

\* "Missing, partial, unapproved, or synthetic production evidence produces
\* pause-and-escalate behavior" (v1-safety/PRODUCT_CONTRACT.md:3): a risk is answered
\* from options only when the knowledge base has approved entries for it, none of
\* which demands a qualified human, whatever was searched for, came too late or was
\* found in between; and the options are theirs.
ObjectionsStand ==
  decision # None /\ decision.disposition = "supported" =>
    LET covering == {e \in library : e.domain = "safety" /\ e.risk = request.risk
                                       /\ e.status = "approved" /\ e.pause}
    IN /\ \A e \in covering : ~e.requiresEscalation
       /\ decision.options # {} /\ decision.options \subseteq UNION {e.options : e \in covering}

\* A turn answers from one entry or none, of its own store or shared with it, which
\* the runtime may count; and a search that found several authorizes none of them.
OneEntryAuthorizes ==
  /\ \A e \in grounding :
       /\ e.store # None => <<e.tenant, e.store>> = <<request.tenant, request.store>>
       /\ e.tenant # None => e.tenant = request.tenant
       /\ e.status = "approved" \/ (e.status = "synthetic_test_only" /\ "runtime" \in lenient)
  /\ Cardinality(grounding) <= 1
  /\ routing # "none" => (routing = "SINGLE_CANDIDATE" <=> grounding # {})
=============================================================================
