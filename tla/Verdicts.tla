------------------------------ MODULE Verdicts ------------------------------
(***************************************************************************)
(* Three parts that judge the system, with the constants of all: the       *)
(* evaluation gates, the runtime proof over the private corpus, and the    *)
(* acceptance harness.  They share no state.                               *)
(***************************************************************************)
EXTENDS Naturals, Sequences, FiniteSets

CONSTANTS
  None,
  Processes,                                         \* EvaluationGate
  Gates, Cases, Singles, Outcomes, Commits,
  MaxGateStarts, MaxCrashes, MaxMoves, MaxCalls,
  ProofCases, CaseResults, Launches,                 \* RuntimeProof
  Inputs, Responses, Expectations, MaxObservations   \* AcceptanceHarness

VARIABLES
  gate, head, manifest, journal, report, proc, asked, lost, overlapped, starts, crashes, moves,
  file, step, attempts, passes, verdict, dispatched, launched,
  stage, inputs, declaration, snapshot, aborted, run, receipt, served, store,
  expected, observations, evaluation, edited

gateVars ==
  <<gate, head, manifest, journal, report, proc, asked, lost, overlapped, starts, crashes, moves>>
proofVars == <<file, step, attempts, passes, verdict, dispatched, launched>>
harnessVars ==
  <<stage, inputs, declaration, snapshot, aborted, run, receipt, served, store,
    expected, observations, evaluation, edited>>

Gate == INSTANCE EvaluationGate WITH MaxStarts <- MaxGateStarts
Proof == INSTANCE RuntimeProof WITH Results <- CaseResults
Harness == INSTANCE AcceptanceHarness WITH Results <- Responses

-----------------------------------------------------------------------------
(* What the proofs assume.                                                 *)

\* A gate that stops at an infrastructure outcome judges what it completed.  A
\* journal is a file, which None is not.
Lines ==
  [kind : {"whole", "torn", "garbled"}, key : Gate!Keys, sequence : Nat, outcome : Outcomes \cup {None},
   commit : Commits \cup {None}]
ASSUME GateAssumption ==
  /\ Gates \subseteq [resumes : BOOLEAN, stops : BOOLEAN, partial : BOOLEAN, judges : {"exact", "rates", "none"}]
  /\ \A g \in Gates : g.stops => g.judges # "none"
  /\ Cases \in Seq({Cases[i] : i \in DOMAIN Cases})
  /\ None \notin Commits \cup Seq(Lines)

\* So is the journal of the runtime proof.
Events ==
  [type : {"run_started", "case_attempt_started", "case_completed", "run_completed", "run_blocked"},
   ordinal : 0..Len(ProofCases), passed : BOOLEAN, torn : BOOLEAN]
ASSUME ProofAssumption ==
  /\ Len(ProofCases) \in Nat
  /\ None \notin Seq(Events) \cup {"passed"}

\* A call of the service writes finitely many rows.
ASSUME HarnessAssumption == \A r \in Responses : IsFiniteSet(r.writes)

-----------------------------------------------------------------------------
\* A gate's verdict is earned: what it passed was answered rightly in a complete
\* journal of one source commit, and nothing was asked twice to get there.  It is
\* final, too: an infrastructure outcome ends an attempt of a gate that stops, and
\* a report that is out is never replaced, whichever processes resume and race.
\* And the journal of the runtime proof never understates what was dispatched, and
\* a PASS in it or on the screen stands for every case run once and passed.  What
\* the harness verifies is what the service did, and what it accepts is what the
\* database holds.
VerdictIsEarned ==
  /\ [](Gate!PassedIsEarned /\ Gate!AskedOnce /\ Gate!OneSource)
  /\ Gate!InfrastructureIsFinal /\ Gate!ReportIsFinal
  /\ [](Proof!AttemptsAreReserved /\ Proof!PassIsComplete /\ Harness!AcceptanceIsEarned)
=============================================================================
