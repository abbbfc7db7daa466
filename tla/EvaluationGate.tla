--------------------------- MODULE EvaluationGate ---------------------------
(***************************************************************************)
(* The real-model evaluation gates of evals/selection/semantic.  A gate    *)
(* asks a provider each of its invocations once, appends every answer to a  *)
(* durable journal, rebuilds its verdict from the journal alone and         *)
(* publishes one report that nothing may replace.  What the five gate       *)
(* scripts do differently is a policy record:                               *)
(*   resumes    an interrupted attempt may be reopened                      *)
(*   stops      an infrastructure outcome ends the attempt                  *)
(*   partial    a report is published for an incomplete journal as well     *)
(*   judges     "exact" for the holdouts, "rates" for the benchmark, "none" *)
(*              for the latency characterization                            *)
(*                                                                         *)
(* The files of one attempt identity are shared by every process that runs  *)
(* the script; nothing locks them but exclusive creation.                   *)
(***************************************************************************)
EXTENDS SequencesExt

CONSTANTS Processes,   \* runs of the gate script, possibly at the same time
          Gates,       \* the policies of the gates in use
          Cases,       \* a sequence of [id, expects]; expects is "answer" or "ABSTAIN"
          Singles,     \* cases of the benchmark with one candidate: no model call
          Outcomes,    \* what the selector may return
          Commits,     \* the source commits of the checkout
          MaxStarts,   \* bound: launches of the script
          MaxCrashes,  \* bound: processes lost, and writes that fail
          MaxMoves,    \* bound: moves of the checkout
          MaxCalls,    \* bound: calls to the provider
          None

VARIABLES gate,        \* the policy of the gate that is run
          head,        \* the commit the checkout is at
          manifest,    \* None, or the commit the attempt's manifest names
          journal,     \* None, or the lines of the journal
          report,      \* None, or the published report
          proc,        \* per process: where it is and what it holds in memory
          asked,       \* history: how often the provider was asked an invocation
          lost,        \* history: answers that no complete line records
          overlapped,  \* history: two processes worked on the attempt at once
          starts, crashes, moves

vars == <<gate, head, manifest, journal, report, proc, asked, lost, overlapped, starts, crashes, moves>>

Infrastructure == {"provider_error", "timeout", "invalid"}
Blocking       == {"provider_error", "timeout"}

\* runHoldoutV21Evaluation and runSemanticSelectionEvaluation go through the
\* cases in order and ask each in both orders of its candidates.
Invocations == [i \in 1..2 * Len(Cases) |->
                  [case  |-> Cases[(i + 1) \div 2].id,
                   order |-> IF i % 2 = 1 THEN "primary" ELSE "reversed"]]
Keys        == ToSet(Invocations)

\* The benchmark keeps its answerable cases only.
Expects(k)  == IF gate.judges = "rates" THEN "answer"
               ELSE (CHOOSE c \in ToSet(Cases) : c.id = k.case).expects

\* createTrace and asTrace: how an answer is scored.  "selected" is a selection
\* of the expected evidence, "wrong" of any other.
Score(k, outcome) ==
  LET abstains == Expects(k) = "ABSTAIN" IN
  IF outcome = "wrong" \/ (outcome = "selected" /\ abstains)          THEN "wrong"
  ELSE IF outcome = "selected" \/ (outcome = "abstained" /\ abstains) THEN "correct"
  ELSE                                                                   "non_selection"

-----------------------------------------------------------------------------
(* The journal.  A line is whole, or torn (the tail a crash left), or      *)
(* garbled: a torn tail with a later line glued to it.                     *)

Line(k, n, outcome, commit) ==
  [kind |-> "whole", key |-> k, sequence |-> n, outcome |-> outcome, commit |-> commit]

Appended(line) ==
  IF journal # <<>> /\ Last(journal).kind = "torn"
  THEN Append(Front(journal), [Last(journal) EXCEPT !.kind = IF line.kind = "torn" THEN "torn" ELSE "garbled"])
  ELSE Append(journal, line)

TornTail   == journal # <<>> /\ Last(journal).kind = "torn"
Recovered  == IF TornTail THEN Front(journal) ELSE journal

\* readDurableSemanticGateTraces throws on a record that is not JSON and on a
\* repeated invocation or sequence number.
Readable ==
  /\ \A line \in ToSet(Recovered) : line.kind = "whole"
  /\ \A i, j \in DOMAIN Recovered : i # j =>
       /\ Recovered[i].key # Recovered[j].key
       /\ Recovered[i].sequence # Recovered[j].sequence

Contiguous == {line.sequence : line \in ToSet(Recovered)} = 1..Len(Recovered)
Persisted  == {line.key : line \in ToSet(Recovered)}

\* Mutant: what the journal already holds is asked again.
Forgotten == {}

\* existingTraces: what a resumed process does not ask again.
Existing == Persisted

HasInfrastructure == \E line \in ToSet(Recovered) : line.outcome \in Infrastructure

\* resumeDurableSemanticGateAttempt, and the check of the gates that stop.
Resumable == Readable /\ ~TornTail /\ Contiguous /\ (gate.stops => ~HasInfrastructure)

-----------------------------------------------------------------------------
(* The verdict, rebuilt from the recovered lines.                          *)

OutcomeOf(k) == (CHOOSE line \in ToSet(Recovered) : line.key = k).outcome
ScoreOf(k)   == Score(k, OutcomeOf(k))
InOrder(o)   == {k \in Keys : k.order = o}
Mate(k)      == [k EXCEPT !.order = "reversed"]
Scoring(s, ks) == Cardinality({k \in ks : ScoreOf(k) = s})

\* reconstruct...Evaluation: every invocation once, numbered without a gap.
Complete == Persisted = Keys /\ Len(Recovered) = Cardinality(Keys) /\ Contiguous

\* exactGatePassed: every invocation scored correct.
ExactlyPassed == \A k \in Keys : ScoreOf(k) = "correct" /\ OutcomeOf(k) \notin Infrastructure

\* gatePassed: rates over the benchmark, in which a case with one candidate
\* counts as answered correctly; the reversed order may only abstain.
RatesPassed ==
  LET total    == Singles + Len(Cases)
      correct  == Singles + Scoring("correct", InOrder("primary"))
      wrong    == Scoring("wrong", InOrder("primary"))
      selected == correct + wrong
  IN /\ 100 * correct >= 98 * total /\ 100 * selected >= 95 * total /\ 100 * correct >= 98 * selected
     /\ wrong = 0
     /\ \A k \in Keys : OutcomeOf(k) # "invalid"
     /\ \A k \in InOrder("primary") : ScoreOf(Mate(k)) = "wrong" => ScoreOf(k) = "wrong"

Blocked(stopped) ==
  stopped \/ ~Complete \/ (gate.judges = "rates" /\ \E k \in Keys : OutcomeOf(k) \in Blocking)
Passed == (gate.judges = "exact" /\ ExactlyPassed) \/ (gate.judges = "rates" /\ RatesPassed)

Status(stopped) ==
  IF gate.judges = "none"   THEN "measured"
  ELSE IF Blocked(stopped)  THEN "infrastructure_blocked"
  ELSE IF Passed            THEN "passed"
  ELSE                           "failed"

-----------------------------------------------------------------------------
Idle == [at |-> "idle", commit |-> None, known |-> {}, sequence |-> 0, key |-> None,
         outcome |-> None, stopped |-> FALSE, draft |-> None]

Init ==
  /\ gate \in Gates
  /\ head \in Commits
  /\ manifest = None /\ journal = None /\ report = None
  /\ proc = [p \in Processes |-> Idle]
  /\ asked = [k \in Keys |-> 0]
  /\ lost = [k \in Keys |-> 0]
  /\ overlapped = FALSE
  /\ starts = 0 /\ crashes = 0 /\ moves = 0

Unused  == manifest = None /\ journal = None /\ report = None
Started == manifest # None /\ journal # None /\ report = None

Set(p, r) == proc' = [proc EXCEPT ![p] = r]
Quit(p)   == Set(p, Idle)
Files     == <<manifest, journal, report>>

\* assertExistingAttempt: the manifest names the running configuration.
SameIdentity == manifest = head

\* main up to openAttempt.  A start that is refused changes nothing.
Start(p) ==
  /\ proc[p].at = "idle" /\ starts < MaxStarts
  /\ starts' = starts + 1
  /\ overlapped' = (overlapped \/ \E q \in Processes : proc[q].at # "idle")
  /\ \/ Unused /\ Set(p, [Idle EXCEPT !.at = "create", !.commit = head])
     \/ /\ gate.resumes /\ Started /\ SameIdentity /\ Resumable
        /\ Set(p, [Idle EXCEPT !.at = "ask", !.commit = head,
                               !.known = Existing, !.sequence = Len(Recovered)])
  /\ UNCHANGED <<gate, head, Files, asked, lost, crashes, moves>>

\* createDurableSemanticGateAttempt: assertUnused, the manifest created "wx" ...
CreateManifest(p) ==
  /\ proc[p].at = "create"
  /\ IF Unused THEN manifest' = proc[p].commit /\ Set(p, [proc[p] EXCEPT !.at = "open"])
               ELSE UNCHANGED manifest /\ Quit(p)
  /\ UNCHANGED <<gate, head, journal, report, asked, lost, overlapped, starts, crashes, moves>>

\* ... and then the journal "ax".
CreateJournal(p) ==
  /\ proc[p].at = "open"
  /\ journal' = <<>>
  /\ Set(p, [proc[p] EXCEPT !.at = "ask"])
  /\ UNCHANGED <<gate, head, manifest, report, asked, lost, overlapped, starts, crashes, moves>>

\* Invocations the evaluation still has to make; existing ones are skipped.
Open(p) == {i \in DOMAIN Invocations : Invocations[i] \notin proc[p].known}

Calls == FoldSet(LAMBDA k, n : asked[k] + n, 0, Keys)

\* selector.select: one call to the provider.
Ask(p) ==
  /\ proc[p].at = "ask" /\ Calls < MaxCalls
  /\ \E i \in Open(p), outcome \in Outcomes :
       LET k == Invocations[i] IN
       /\ \A j \in Open(p) : i <= j
       /\ Expects(k) = "ABSTAIN" => outcome # "selected"
       /\ asked' = [asked EXCEPT ![k] = @ + 1]
       /\ Set(p, [proc[p] EXCEPT !.at = "append", !.key = k, !.outcome = outcome])
  /\ UNCHANGED <<gate, head, Files, lost, overlapped, starts, crashes, moves>>

\* onInvocationComplete: the line is written and synced, then an infrastructure
\* outcome ends the evaluation of a gate that stops.
Persist(p) ==
  /\ proc[p].at = "append"
  /\ journal' = Appended(Line(proc[p].key, proc[p].sequence + 1, proc[p].outcome, proc[p].commit))
  /\ LET stop == gate.stops /\ proc[p].outcome \in Infrastructure
     IN Set(p, [proc[p] EXCEPT !.at = IF stop THEN "rebuild" ELSE "ask", !.stopped = stop,
                               !.known = @ \union {proc[p].key}, !.sequence = @ + 1])
  /\ UNCHANGED <<gate, head, manifest, report, asked, lost, overlapped, starts, crashes, moves>>

\* The journal is read back and the verdict rebuilt from it; a gate without
\* partial reports throws unless the journal is complete.
Rebuild(p) ==
  /\ proc[p].at = "rebuild" \/ (proc[p].at = "ask" /\ Open(p) = {})
  /\ IF Readable /\ (gate.partial \/ (Complete /\ ~TornTail))
     THEN Set(p, [proc[p] EXCEPT !.at = "publish",
                    !.draft = [by |-> p, status |-> Status(proc[p].stopped),
                               commit |-> proc[p].commit, traces |-> ToSet(Recovered)]])
     ELSE Quit(p)
  /\ UNCHANGED <<gate, head, Files, asked, lost, overlapped, starts, crashes, moves>>

\* The hard link fails when the destination exists.
Linkable(p) == proc[p].at = "publish" /\ report = None

\* writeFinalSemanticGateReportOnce: a complete temporary file, then the link.
Publish(p) ==
  /\ proc[p].at = "publish"
  /\ report' = IF Linkable(p) THEN proc[p].draft ELSE report
  /\ Quit(p)
  /\ UNCHANGED <<gate, head, manifest, journal, asked, lost, overlapped, starts, crashes, moves>>

\* The process dies, or a write fails and the script throws: what it held in
\* memory is gone, and an append may have left part of its line behind.
Crash(p) ==
  /\ proc[p].at # "idle" /\ crashes < MaxCrashes
  /\ crashes' = crashes + 1
  /\ Quit(p)
  /\ IF proc[p].at = "append"
     THEN /\ lost' = [lost EXCEPT ![proc[p].key] = @ + 1]
          /\ \/ UNCHANGED journal
             \/ journal' = Appended([Line(proc[p].key, 0, None, None) EXCEPT !.kind = "torn"])
     ELSE UNCHANGED <<lost, journal>>
  /\ UNCHANGED <<gate, head, manifest, report, asked, overlapped, starts, moves>>

\* The checkout moves to another commit.
Checkout ==
  /\ moves < MaxMoves /\ moves' = moves + 1
  /\ \E c \in Commits \ {head} : head' = c
  /\ UNCHANGED <<gate, Files, proc, asked, lost, overlapped, starts, crashes>>

Step(p) ==
  \/ Start(p) \/ CreateManifest(p) \/ CreateJournal(p) \/ Ask(p) \/ Persist(p)
  \/ Rebuild(p) \/ Publish(p) \/ Crash(p)

Next == Checkout \/ \E p \in Processes : Step(p)

Spec == Init /\ [][Next]_vars

-----------------------------------------------------------------------------
(* Properties.                                                             *)

\* A gate that reports "passed" never saw the selector take wrong evidence, in
\* either order, and no invocation of it timed out or failed: the journal it
\* rebuilt the verdict from answers every invocation, whatever crashes and
\* resumptions it took to fill it.
PassedIsEarned ==
  report # None /\ report.status = "passed" =>
    /\ {line.key : line \in report.traces} = Keys
    /\ \A line \in report.traces :
         Score(line.key, line.outcome) # "wrong" /\ line.outcome \notin Infrastructure
    /\ \A line \in report.traces : Expects(line.key) = "ABSTAIN" => line.outcome = "abstained"

\* First exposure: as long as one process at a time works on an attempt, an
\* invocation is put to the provider again only when its answer was lost before
\* a complete line recorded it.
AskedOnce == ~overlapped => \A k \in Keys : asked[k] <= 1 + lost[k]

\* One attempt is evidence about one source commit: every line and the report
\* were produced by the commit that the manifest names, however often the
\* attempt was resumed and the checkout moved.
OneSource ==
  /\ journal # None => \A line \in ToSet(Recovered) : line.kind = "whole" => line.commit = manifest
  /\ report # None => report.commit = manifest

\* An infrastructure outcome is final for a gate that stops: no later process
\* asks that attempt's provider anything or reports it as judged.
InfrastructureIsFinal ==
  [][journal # None /\ gate.stops /\ ~overlapped' /\ HasInfrastructure
       => /\ asked' = asked
          /\ report' # report => report'.status = "infrastructure_blocked"]_vars

\* A published report is never replaced, whichever processes race to publish.
ReportIsFinal == [][report # None => report' = report]_vars

=============================================================================
