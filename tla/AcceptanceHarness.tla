------------------------- MODULE AcceptanceHarness -------------------------
(***************************************************************************)
(* The offline harness (harness/runner.ts, suites.ts, evaluate.ts): a suite *)
(* is declared, its cases are put to the support service one after the     *)
(* other, and the report is judged against the declaration and the receipt *)
(* that were kept apart from it, and against what was read from the         *)
(* database afterwards.  The caller may change the inputs or abort while    *)
(* the run is under way, and anyone may edit the report once it is out.     *)
(* A hash stands for what is hashed.                                       *)
(***************************************************************************)
EXTENDS Naturals, SequencesExt, FiniteSets

CONSTANTS
  Inputs,          \* what callers pass: [cases, supported], cases of [case, conversation]
  Results,         \* what the service may do: [result, evidence, writes]
  Expectations,    \* the sequences of acceptance expectations
  MaxObservations, \* bound: reads of the database after a run
  None

VARIABLES
  stage,        \* "new", "declared", "running", "finished", "evaluated", "refused"
  inputs,       \* the caller's objects, which the caller may still change
  declaration,  \* what declareRun froze; kept by the caller
  snapshot,     \* the runner's own copy of the inputs
  aborted,      \* the caller's AbortSignal
  run, receipt, \* the report, and its hash as the runner returned it
  served,       \* history: what the service made of each case
  store,        \* the tickets and handoffs in the database
  expected, observations, \* what acceptance is judged by
  evaluation,   \* what evaluateRun and evaluateAcceptance return
  edited        \* bound: somebody has changed the inputs or the report

vars == <<stage, inputs, declaration, snapshot, aborted, run, receipt, served, store,
          expected, observations, evaluation, edited>>

Ids(items) == [i \in DOMAIN items |-> items[i].case]
Distinct(items) == IsInjective(Ids(items))

Init ==
  /\ stage = "new" /\ inputs \in Inputs /\ declaration = None /\ snapshot = None /\ aborted = FALSE
  /\ run = None /\ receipt = None /\ served = <<>> /\ store = {}
  /\ expected \in Expectations /\ observations = <<>> /\ evaluation = None /\ edited = FALSE

-----------------------------------------------------------------------------
(* Declaring and running a suite.                                          *)

\* declareRun: neither empty nor ambiguous, and of the one configuration there is.
Declarable(input) == input.cases # <<>> /\ Distinct(input.cases) /\ input.supported

DeclareRun ==
  /\ stage = "new"
  /\ IF Declarable(inputs) THEN stage' = "declared" /\ declaration' = inputs
     ELSE stage' = "refused" /\ UNCHANGED declaration
  /\ UNCHANGED <<inputs, snapshot, aborted, run, receipt, served, store, expected, observations, evaluation, edited>>

Erred(r) == \E m \in ToSet(r.measurements) : m.result = "execution_error"

\* Mutant: the signal is not looked at again after the last case.
CompletedAnyway(r, input) == Len(r.measurements) = Len(input.cases) /\ ~Erred(r)
Completed(r, input) == ~aborted /\ Len(r.measurements) = Len(input.cases) /\ ~Erred(r)

\* The head of the loop: another case, or the end and the receipt.
Continue(r, input) ==
  IF ~aborted /\ Len(r.measurements) < Len(input.cases) /\ ~Erred(r)
    THEN stage' = "running" /\ run' = r /\ UNCHANGED receipt
    ELSE /\ stage' = "finished"
         /\ run' = IF Completed(r, input) THEN [r EXCEPT !.state = "complete", !.marker = r.measurements] ELSE r
         /\ receipt' = run'

\* runSuite works on a copy, which must still be what was declared.
RunSuite ==
  /\ stage = "declared"
  /\ IF Declarable(inputs) /\ inputs = declaration
       THEN /\ snapshot' = inputs
            /\ Continue([declaration |-> inputs, measurements |-> <<>>, state |-> "incomplete", marker |-> None], inputs)
       ELSE stage' = "refused" /\ UNCHANGED <<snapshot, run, receipt>>
  /\ UNCHANGED <<inputs, declaration, aborted, served, store, expected, observations, evaluation, edited>>

\* A call that throws, or returns what assertReturnedResult refuses, ends the run;
\* either way it may have written to the database.
Measurement(case, r) ==
  IF r.result = "invalid" THEN [case |-> case, result |-> "execution_error", evidence |-> None]
  ELSE [case |-> case, result |-> r.result, evidence |-> r.evidence]

Respond(r) ==
  LET case == snapshot.cases[Len(run.measurements) + 1]
      m == Measurement(case.case, r)
  IN  /\ stage = "running"
      /\ served' = Append(served, m)
      /\ store' = store \cup {[kind |-> w.kind, key |-> w.key, conversation |-> case.conversation] : w \in r.writes}
      /\ Continue([run EXCEPT !.measurements = Append(@, m)], snapshot)
      /\ UNCHANGED <<inputs, declaration, snapshot, aborted, expected, observations, evaluation, edited>>

-----------------------------------------------------------------------------
(* The caller, and whoever holds the report.                               *)

Abort ==
  /\ stage \in {"declared", "running"} /\ ~aborted /\ aborted' = TRUE
  /\ UNCHANGED <<stage, inputs, declaration, snapshot, run, receipt, served, store,
                 expected, observations, evaluation, edited>>

ChangeInputs(input) ==
  /\ stage \in {"declared", "running"} /\ ~edited /\ edited' = TRUE /\ inputs' = input
  /\ UNCHANGED <<stage, declaration, snapshot, aborted, run, receipt, served, store, expected, observations, evaluation>>

\* A measurement taken out, repeated or improved, or another suite declared; with or
\* without a completion marker that fits.
Resealed(r) == [r EXCEPT !.state = "complete", !.marker = r.measurements]
Altered(r) ==
  {[r EXCEPT !.measurements = SubSeq(@, 1, n)] : n \in 0..Len(r.measurements)}
    \cup {[r EXCEPT !.measurements = Append(@, m)] : m \in ToSet(r.measurements)}
    \cup {[r EXCEPT !.measurements[i].result = "answer"] : i \in DOMAIN r.measurements}
    \cup {[r EXCEPT !.declaration = input] : input \in Inputs}
EditReport ==
  /\ stage = "finished" /\ ~edited /\ edited' = TRUE
  /\ \E r \in Altered(run) : run' \in {r, Resealed(r)}
  /\ UNCHANGED <<stage, inputs, declaration, snapshot, aborted, receipt, served, store,
                 expected, observations, evaluation>>

Observe(case) ==
  /\ stage = "finished" /\ Len(observations) < MaxObservations
  /\ observations' = Append(observations, [case |-> case, writes |-> store])
  /\ UNCHANGED <<stage, inputs, declaration, snapshot, aborted, run, receipt, served, store,
                 expected, evaluation, edited>>

-----------------------------------------------------------------------------
(* The two evaluations.                                                    *)

\* Mutant: the report's own word is taken for the receipt.
ReceiptUnchecked == TRUE
ReceiptFits == run = receipt

\* evaluateRun
Verified ==
  /\ ReceiptFits
  /\ run.declaration = declaration
  /\ Distinct(run.measurements) /\ Distinct(declaration.cases)
  /\ declaration.cases # <<>> /\ Ids(run.measurements) = Ids(declaration.cases)
  /\ ~Erred(run)
  /\ run.state = "complete" /\ run.marker = run.measurements

\* indexByCase: where the items of a case are.
Of(case, items) == {i \in DOMAIN items : items[i].case = case}

OutcomeMet(m, e) == e.outcome \in {"not_required", m.result}

EvidenceMet(m, e) == e.evidence # None => m.evidence # None /\ e.evidence \subseteq m.evidence

\* The rows an expectation counts: of its conversation, and of its kind and key.
Matching(e, writes) ==
  {w \in writes :
     /\ w.conversation = e.conversation
     /\ e.durable \in {"no_write", w.kind}
     /\ e.durable = "ticket" => w.key = e.key}

DurableMet(e, writes) == Cardinality(Matching(e, writes)) = (IF e.durable = "no_write" THEN 0 ELSE 1)

\* Mutant: a case that nobody looked up in the database counts as met.
ObservedPerhaps(e) ==
  e.durable = "not_required" \/ \A i \in Of(e.case, observations) : DurableMet(e, observations[i].writes)
ObservedOnce(e) ==
  \/ e.durable = "not_required"
  \/ \E i \in DOMAIN observations : Of(e.case, observations) = {i} /\ DurableMet(e, observations[i].writes)

\* evaluateAcceptance
Accepted ==
  /\ \A m \in ToSet(run.measurements) : m.case \in ToSet(Ids(expected))
  /\ \A j \in DOMAIN expected :
       LET e == expected[j] IN
       /\ Of(e.case, expected) = {j}
       /\ \E i \in DOMAIN run.measurements :
            /\ Of(e.case, run.measurements) = {i}
            /\ OutcomeMet(run.measurements[i], e) /\ EvidenceMet(run.measurements[i], e)
       /\ ObservedOnce(e)

Evaluate ==
  /\ stage = "finished" /\ stage' = "evaluated"
  /\ evaluation' = [verified |-> Verified, accepted |-> Accepted]
  /\ UNCHANGED <<inputs, declaration, snapshot, aborted, run, receipt, served, store, expected, observations, edited>>

Next ==
  \/ DeclareRun \/ RunSuite \/ Abort \/ EditReport \/ Evaluate
  \/ \E r \in Results : Respond(r)
  \/ \E input \in Inputs : ChangeInputs(input)
  \/ \E e \in ToSet(expected) : Observe(e.case)

Spec == Init /\ [][Next]_vars

-----------------------------------------------------------------------------
(* Properties.                                                             *)

\* A verified report is what the service did, for every declared case in its order,
\* and no abort came before its end; if it is accepted as well, each expectation is
\* about a case that was served as it asks, and the database holds the row it asks
\* for, or none where it asks for none ("Durable state is never inferred",
\* evaluate.ts:52).
AcceptanceIsEarned ==
  evaluation # None /\ evaluation.verified =>
    /\ run.measurements = served /\ Ids(served) = Ids(declaration.cases)
    /\ snapshot = declaration /\ ~aborted /\ ~Erred(run)
    /\ evaluation.accepted =>
         \A e \in ToSet(expected) :
           LET rows == {w \in store : w.conversation = e.conversation} IN
           /\ e.outcome # "not_required" =>
                \E m \in ToSet(served) : m.case = e.case /\ m.result = e.outcome
           /\ e.durable = "no_write" => rows = {}
           /\ e.durable = "ticket" => \E w \in rows : w.kind = "ticket" /\ w.key = e.key
           /\ e.durable = "handoff" => \E w \in rows : w.kind = "handoff"
=============================================================================
