--------------------------- MODULE SemanticSelector ---------------------------
(***************************************************************************)
(* The semantic selector (src/semantic-selector.ts): one question to a     *)
(* provider about two or three candidates, against a deadline and a caller *)
(* who may give up; and its two questions about one case, in the order of  *)
(* the candidates and in the reverse (classify, runSemanticSelectionEval-  *)
(* uation).  What the answers come to is EvaluationGate's.                 *)
(***************************************************************************)
EXTENDS Naturals, SequencesExt

CONSTANTS
  Offers,    \* the sequences of candidates of a case
  None

VARIABLES
  offered,     \* the candidates of the case, in its own order
  invocation   \* the two calls of the selector

vars == <<offered, invocation>>

Order == {"primary", "reversed"}
Label == <<"A", "B", "C">>
Shapes == {"exact_json", "surrounding_whitespace_json", "fenced_json", "json_plus_prose",
           "plain_label", "empty", "malformed_json", "other_invalid"}

\* A text as classifyRawOutputShape tells them apart, with the value of the field
\* "selection"; None when there is no such field, or another beside it.
Text == [kind : {"text"}, shape : Shapes, selection : ToSet(Label) \cup {"ABSTAIN", None}]

\* What completeSimple comes to: a message whose stop reason is "error" or
\* "aborted", or whose text counts; or an exception.
Completion ==
  Text \cup [kind : {"failure"}, outcome : {"provider_error", "timeout"}] \cup [kind : {"rejection"}]

Unasked == [phase |-> "unasked", completion |-> None, timedOut |-> FALSE, aborted |-> FALSE,
            outcome |-> None, evidence |-> None]

Init ==
  /\ offered \in Offers
  /\ invocation = [o \in Order |-> Unasked]

\* The candidates in the order they are labelled in.
Ordered(o) == IF o = "primary" THEN offered ELSE Reverse(offered)

\* labels(): a candidate past the third has none, and the input is refused.
ValidInput(o) == Len(Ordered(o)) \in 2..3
Allowed(o) == {Label[i] : i \in DOMAIN Ordered(o)}

Ended(o, outcome, evidence) ==
  invocation' = [invocation EXCEPT ![o].phase = "ended", ![o].outcome = outcome, ![o].evidence = evidence]

Turn(o) ==
  /\ invocation[o].phase = "unasked"
  /\ o = "reversed" => invocation["primary"].phase = "ended" /\ Len(offered) >= 2

\* One candidate is taken without a question.
TakeOnly(o) ==
  /\ Turn(o) /\ Len(offered) = 1
  /\ Ended(o, "selected", Head(offered))
  /\ UNCHANGED offered

Ask(o) ==
  /\ Turn(o) /\ Len(offered) # 1
  /\ IF ~ValidInput(o) THEN Ended(o, "invalid", None)
     ELSE IF invocation[o].aborted THEN Ended(o, "timeout", None)
     ELSE invocation' = [invocation EXCEPT ![o].phase = "waiting"]
  /\ UNCHANGED offered

\* The provider answers when it likes, also in reaction to the abort of the timer
\* and after the selection has ended.
Complete(o) ==
  /\ invocation[o].phase \in {"waiting", "ended"} /\ invocation[o].completion = None
  /\ Len(offered) # 1 /\ ValidInput(o)
  /\ \E c \in Completion : invocation' = [invocation EXCEPT ![o].completion = c]
  /\ UNCHANGED offered

\* No timer fires between the answer and the continuation that takes it.
TimerFires(o) ==
  /\ invocation[o].phase = "waiting" /\ ~invocation[o].timedOut /\ invocation[o].completion = None
  /\ invocation' = [invocation EXCEPT ![o].timedOut = TRUE]
  /\ UNCHANGED offered

\* The caller's own signal, at any time.
CallerAborts(o) ==
  /\ invocation[o].phase # "ended" /\ ~invocation[o].aborted
  /\ invocation' = [invocation EXCEPT ![o].aborted = TRUE]
  /\ UNCHANGED offered

\* parseOutput: the text is the JSON object and nothing but it, and names one of
\* the labels that were given out.
Parsed(o, text) ==
  IF text.shape \notin {"exact_json", "surrounding_whitespace_json"} \/ text.selection = None THEN "invalid"
  ELSE IF text.selection = "ABSTAIN" THEN "abstained"
  ELSE IF text.selection \in Allowed(o) THEN "selected" ELSE "invalid"

Labelled(o, label) == Ordered(o)[CHOOSE i \in 1..3 : Label[i] = label]

\* result.kind === "timeout" || timedOut || signal.aborted; the catch says the same.
TooLate(o) == invocation[o].timedOut \/ invocation[o].aborted

\* The end of the race between the task and the deadline, whoever came first.
Settle(o) ==
  LET c == invocation[o].completion IN
  /\ invocation[o].phase = "waiting" /\ (c # None \/ invocation[o].timedOut)
  /\ IF TooLate(o) THEN Ended(o, "timeout", None)
     ELSE CASE c.kind = "rejection" -> Ended(o, "provider_error", None)
            [] c.kind = "failure" -> Ended(o, c.outcome, None)
            [] OTHER -> Ended(o, Parsed(o, c),
                              IF Parsed(o, c) = "selected" THEN Labelled(o, c.selection) ELSE None)
  /\ UNCHANGED offered

Next ==
  \E o \in Order :
    TakeOnly(o) \/ Ask(o) \/ Complete(o) \/ TimerFires(o) \/ CallerAborts(o) \/ Settle(o)

Spec == Init /\ [][Next]_vars

-----------------------------------------------------------------------------
(* Properties.                                                             *)

\* A selection stands only if it came before the deadline and before the caller gave
\* up, in nothing but the JSON that was asked for; and it is the candidate that bore
\* the label in the order the provider saw.  Everything else abstains.
SelectionStands ==
  \A o \in Order :
    LET i == invocation[o] IN
    /\ i.evidence # None <=> i.outcome = "selected"
    /\ i.outcome = "selected" /\ Len(offered) > 1 =>
         LET seen == IF o = "primary" THEN offered ELSE Reverse(offered) IN
         /\ i.completion.kind = "text" /\ ~i.timedOut /\ ~i.aborted
         /\ i.completion.shape \in {"exact_json", "surrounding_whitespace_json"}
         /\ \E n \in DOMAIN seen : seen[n] = i.evidence /\ Label[n] = i.completion.selection
    /\ i.outcome = "timeout" => i.timedOut \/ i.aborted \/ i.completion.kind = "failure"
=============================================================================
