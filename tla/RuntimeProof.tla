---------------------------- MODULE RuntimeProof ----------------------------
(***************************************************************************)
(* The runtime proof over the private corpus, scripts/real-source-runtime-  *)
(* smoke.ts: three fixed cases are put to the real runtime, one after the   *)
(* other, and every attempt is reserved in a journal file before it is      *)
(* dispatched.  The file is created exclusively and never reopened, so an   *)
(* identity is used once.  Writes may fail, the runtime and its close may   *)
(* throw, and the process may die at any step and be launched again.        *)
(***************************************************************************)
EXTENDS SequencesExt

CONSTANTS ProofCases,  \* the cases, in order: [type, tools, evidence] expected of the runtime
          Results,     \* what the runtime may return: [type, tools, evidence, done]
          Launches,    \* bound: how often the script is started
          None

VARIABLES file,        \* None, or the events of the journal, the last one perhaps torn
          step,        \* what the process does next
          attempts,    \* partial.runtimeCaseAttempts
          passes,      \* the results of partial.cases, in order
          verdict,     \* what the last run printed: None, "passed", "failed" or "blocked"
          dispatched,  \* history: runs of the runtime, over all launches
          launched

vars == <<file, step, attempts, passes, verdict, dispatched, launched>>

Event(type) == [type |-> type, ordinal |-> attempts, passed |-> FALSE, torn |-> FALSE]

\* The complete newline-terminated events: what a reader of the file may use.
Recoverable == IF file = None THEN {} ELSE {e \in ToSet(file) : ~e.torn}
OfType(type) == {e \in Recoverable : e.type = type}

Init ==
  /\ file = None /\ step = "idle" /\ attempts = 0 /\ passes = <<>> /\ verdict = None
  /\ dispatched = 0 /\ launched = 0

\* A write or a sync that fails leaves all of the line, a part of it or nothing,
\* and the journal refuses every later append of this process.
Torn(event)   == Append(file, [event EXCEPT !.torn = TRUE])
Broken(event) == file' \in {file, Torn(event), Append(file, event)} /\ step' = "unjournaled"

\* journal.append: either the event is durable and the run goes on, or it fails.
Journaled(event, next) ==
  \/ file' = Append(file, event) /\ step' = next
  \/ Broken(event)

\* openSync(path, "wx"): an existing file is refused.
NewFile == file = None

\* main: what is printed, and the process is gone.
Exit(printed) == step' = "exited" /\ verdict' \in printed

Started ==
  /\ step \in {"idle", "exited"} /\ launched < Launches
  /\ launched' = launched + 1
  /\ attempts' = 0 /\ passes' = <<>>
  /\ UNCHANGED dispatched

\* No pi-real mode, no source commit: blocked before there is a file.
LaunchRefused ==
  /\ Started
  /\ Exit({"blocked"})
  /\ UNCHANGED file

Launch ==
  /\ Started
  /\ IF NewFile THEN file' = (IF file = None THEN <<>> ELSE file) /\ step' = "opened" /\ verdict' = None
                ELSE UNCHANGED file /\ Exit({"blocked"})

RunStarted ==
  /\ step = "opened"
  /\ Journaled(Event("run_started"), "composing")
  /\ UNCHANGED <<attempts, passes, verdict, dispatched, launched>>

\* The private composition, the provider bootstrap and the runtime factory may
\* each refuse; nothing has been dispatched then.
Compose ==
  /\ step = "composing"
  /\ step' \in {"case", "blocked"}
  /\ UNCHANGED <<file, attempts, passes, verdict, dispatched, launched>>

\* case_attempt_started is durable before the count and the dispatch.
Reserve ==
  /\ step = "case" /\ attempts < Len(ProofCases)
  /\ \/ /\ file' = Append(file, [Event("case_attempt_started") EXCEPT !.ordinal = attempts + 1])
        /\ attempts' = attempts + 1
        /\ step' = "dispatch"
     \/ Broken([Event("case_attempt_started") EXCEPT !.ordinal = attempts + 1]) /\ UNCHANGED attempts
  /\ UNCHANGED <<passes, verdict, dispatched, launched>>

\* resource.runtime.run: one governed turn, which may throw.
Dispatch ==
  /\ step = "dispatch"
  /\ dispatched' = dispatched + 1
  /\ step' \in {"running", "failing"}
  /\ UNCHANGED <<file, attempts, passes, verdict, launched>>

\* The expected answer from the expected evidence by the tools it takes, and no
\* ticket and no handoff that succeeded.
ExpectedVsActual(expected, result) ==
  /\ result.type = expected.type
  /\ expected.tools \subseteq result.tools
  /\ result.evidence = expected.evidence
  /\ result.done \cap {"create_ticket", "handoff_to_human"} = {}

\* projectSafeCaseEvidence, then case_completed.
CaseCompleted ==
  /\ step = "running"
  /\ \E result \in Results :
       LET pass == ExpectedVsActual(ProofCases[attempts], result)
           event == [Event("case_completed") EXCEPT !.passed = pass]
       IN \/ /\ file' = Append(file, event)
             /\ passes' = Append(passes, pass)
             /\ step' = "case"
          \/ Broken(event) /\ UNCHANGED passes
  /\ UNCHANGED <<attempts, verdict, dispatched, launched>>

\* resource.close: its own failure is an error only when nothing failed before.
CloseRuntime ==
  /\ \/ step = "case" /\ attempts = Len(ProofCases) /\ step' \in {"summary", "blocked"}
     \/ step = "failing" /\ step' = "blocked"
  /\ UNCHANGED <<file, attempts, passes, verdict, dispatched, launched>>

\* allThreeCasesPassed.
AllPassed ==
  /\ attempts = Len(ProofCases) /\ Len(passes) = Len(ProofCases)
  /\ \A i \in DOMAIN passes : passes[i]

\* run_completed, then the file is closed; a failed close blocks the run although
\* the event is durable.
RunCompleted ==
  /\ step = "summary"
  /\ \/ /\ file' = Append(file, [Event("run_completed") EXCEPT !.passed = AllPassed])
        /\ Exit({IF AllPassed THEN "passed" ELSE "failed", "blocked"})
     \/ Broken([Event("run_completed") EXCEPT !.passed = AllPassed]) /\ UNCHANGED verdict
  /\ UNCHANGED <<attempts, passes, dispatched, launched>>

\* run_blocked is appended when the journal can still be written.
RunBlocked ==
  /\ \/ step = "unjournaled" /\ UNCHANGED file
     \/ step = "blocked" /\ file' \in {Append(file, Event("run_blocked")), Torn(Event("run_blocked")), file}
  /\ Exit({"blocked"})
  /\ UNCHANGED <<attempts, passes, dispatched, launched>>

\* The process dies; synced events stay.
Die ==
  /\ step \notin {"idle", "exited"}
  /\ step' = "exited" /\ verdict' = None
  /\ UNCHANGED <<file, attempts, passes, dispatched, launched>>

Next ==
  \/ LaunchRefused \/ Launch \/ RunStarted \/ Compose \/ Reserve \/ Dispatch \/ CaseCompleted
  \/ CloseRuntime \/ RunCompleted \/ RunBlocked \/ Die

Spec == Init /\ [][Next]_vars

-----------------------------------------------------------------------------
\* The journal never understates what was put to the runtime: the largest
\* ordinal among its complete events bounds the runs of all launches that used
\* the file, through failed writes, crashes and relaunches.
AttemptsAreReserved ==
  \E n \in 0..Len(ProofCases) :
    /\ dispatched <= n
    /\ n > 0 => \E e \in OfType("case_attempt_started") : e.ordinal = n

\* PASS, printed or read from the file, stands for every case reserved, run once
\* and completed with a pass, in a journal without a partial line before it.
PassIsComplete ==
  verdict = "passed" \/ (\E e \in OfType("run_completed") : e.passed) =>
    /\ dispatched = Len(ProofCases)
    /\ \A i \in 1..Len(ProofCases) :
         /\ \E e \in OfType("case_attempt_started") : e.ordinal = i
         /\ \E e \in OfType("case_completed") : e.ordinal = i /\ e.passed
    /\ \A i \in 1..Len(file) - 1 : ~file[i].torn

=============================================================================
