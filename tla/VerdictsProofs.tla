--------------------------- MODULE VerdictsProofs ---------------------------
(* Proofs about the parts of Verdicts, each for every behaviour of its own *)
(* and every value of its constants.                                       *)
EXTENDS Verdicts, TLAPS, FiniteSetTheorems

-----------------------------------------------------------------------------
(* EvaluationGate: what is asked, and what the journal holds.              *)

LEMMA GateCardinality ==
  ASSUME NEW S
  PROVE  Gate!Cardinality(S) = Cardinality(S)
BY DEF Gate!Cardinality, Cardinality

LEMMA KeyFacts ==
  /\ IsFiniteSet(Gate!Keys)
  /\ \A k \in Gate!Keys : k.order \in {"primary", "reversed"}
  /\ \A k \in Gate!Keys : k.order = "reversed" =>
       \E h \in Gate!Keys : h.order = "primary" /\ Gate!Mate(h) = k
<1> DEFINE n == 2 * Len(Cases)
           at(i) == [case |-> Cases[(i + 1) \div 2].id, order |-> IF i % 2 = 1 THEN "primary" ELSE "reversed"]
           f == [i \in 1..n |-> at(i)]
<1>1. Len(Cases) \in Nat /\ n \in Nat
  BY GateAssumption
<1>2. Gate!Keys = {f[i] : i \in 1..n}
  BY DEF Gate!Keys, Gate!ToSet, Gate!Invocations
<1>3. IsFiniteSet(Gate!Keys)
  <2>1. IsFiniteSet(1..n)
    <3> HIDE DEF n
    <3> QED  BY <1>1, FS_Interval
  <2>2. f \in Surjection(1..n, Gate!Keys)
    <3> HIDE DEF n
    <3> QED  BY <1>2 DEF Surjection
  <2> HIDE DEF n, f
  <2> QED  BY <2>1, <2>2, FS_Surjection
<1>4. \A k \in Gate!Keys : \E i \in 1..n : k = at(i)
  BY <1>2
<1>5. ASSUME NEW k \in Gate!Keys
      PROVE  k.order \in {"primary", "reversed"}
  BY <1>4
<1>6. ASSUME NEW k \in Gate!Keys, k.order = "reversed"
      PROVE  \E h \in Gate!Keys : h.order = "primary" /\ Gate!Mate(h) = k
  <2>1. PICK i \in 1..n : k = at(i)
    BY <1>4
  <2>2. i % 2 # 1 /\ i \in Nat /\ i >= 1 /\ i <= n
    BY <1>1, <1>6, <2>1
  <2>3. i - 1 \in 1..n /\ (i - 1) % 2 = 1 /\ (i - 1 + 1) \div 2 = (i + 1) \div 2
    <3> HIDE DEF n
    <3>1. i % 2 = 0 /\ i >= 2
      BY <2>2
    <3> QED  BY <1>1, <2>2, <3>1
  <2>4. at(i - 1) \in Gate!Keys
    BY <1>2, <2>3
  <2>5. at(i - 1) = [case |-> k.case, order |-> "primary"] /\ k = [case |-> k.case, order |-> "reversed"]
    BY <1>6, <2>1, <2>3
  <2>6. at(i - 1).order = "primary" /\ Gate!Mate(at(i - 1)) = k
    BY <2>5 DEF Gate!Mate
  <2> QED  BY <2>4, <2>6
<1> QED  BY <1>3, <1>5, <1>6

\* What the code expects of an invocation, and what is wrong.
Due(g, k) == IF g.judges = "rates" THEN "answer" ELSE (CHOOSE c \in Gate!ToSet(Cases) : c.id = k.case).expects
IsWrong(g, k, outcome) == outcome = "wrong" \/ (outcome = "selected" /\ Due(g, k) = "ABSTAIN")

\* What "passed" stands for.
Earned(g, lines) ==
  /\ {line.key : line \in lines} = Gate!Keys
  /\ \A line \in lines :
       /\ ~IsWrong(g, line.key, line.outcome) /\ line.outcome \notin Gate!Infrastructure
       /\ Due(g, line.key) = "ABSTAIN" => line.outcome = "abstained"

LEMMA ScoreFacts ==
  ASSUME NEW k, NEW outcome
  PROVE  /\ Gate!Expects(k) = Due(gate, k)
         /\ Gate!Score(k, outcome) = "wrong" <=> IsWrong(gate, k, outcome)
         /\ Gate!Score(k, outcome) = "correct" /\ Due(gate, k) = "ABSTAIN" => outcome = "abstained"
BY DEF Gate!Expects, Gate!Score, Due, IsWrong

\* A status "passed" over a readable journal is earned by the lines of that journal
\* (exactGatePassed, gatePassed).
LEMMA VerdictEarned ==
  ASSUME Gate!Readable, NEW stopped \in BOOLEAN, Gate!Status(stopped) = "passed"
  PROVE  Earned(gate, Gate!ToSet(Gate!Recovered))
<1> DEFINE lines == Gate!ToSet(Gate!Recovered)
<1>1. \A a, b \in lines : a.key = b.key => a = b
  BY DEF Gate!Readable, Gate!ToSet
<1>2. Gate!Complete /\ ~stopped
      /\ \/ gate.judges = "exact" /\ Gate!ExactlyPassed
         \/ gate.judges = "rates" /\ Gate!RatesPassed /\ \A k \in Gate!Keys : Gate!OutcomeOf(k) \notin Gate!Blocking
  BY DEF Gate!Status, Gate!Blocked, Gate!Passed
<1>3. {line.key : line \in lines} = Gate!Keys
  BY <1>2 DEF Gate!Complete, Gate!Persisted
<1>4. ASSUME NEW line \in lines
      PROVE  line.key \in Gate!Keys /\ Gate!OutcomeOf(line.key) = line.outcome
  <2>1. (CHOOSE l \in lines : l.key = line.key) = line
    BY <1>1
  <2> QED  BY <1>3, <2>1 DEF Gate!OutcomeOf
<1> HIDE DEF lines
<1>5. CASE gate.judges = "exact" /\ Gate!ExactlyPassed
  <2>1. ASSUME NEW line \in lines
        PROVE  /\ ~IsWrong(gate, line.key, line.outcome) /\ line.outcome \notin Gate!Infrastructure
               /\ Due(gate, line.key) = "ABSTAIN" => line.outcome = "abstained"
    <3>1. Gate!Score(line.key, line.outcome) = "correct" /\ line.outcome \notin Gate!Infrastructure
      BY <1>4, <1>5 DEF Gate!ExactlyPassed, Gate!ScoreOf
    <3> QED  BY <3>1, ScoreFacts
  <2> QED  BY <1>3, <2>1 DEF Earned, lines
<1>6. CASE /\ gate.judges = "rates" /\ Gate!RatesPassed
           /\ \A k \in Gate!Keys : Gate!OutcomeOf(k) \notin Gate!Blocking
  <2> DEFINE W == {k \in Gate!InOrder("primary") : Gate!ScoreOf(k) = "wrong"}
  <2>1. W = {}
    <3>1. Cardinality(W) = 0
      BY <1>6, GateCardinality DEF Gate!RatesPassed, Gate!Scoring
    <3>2. IsFiniteSet(W)
      BY KeyFacts, FS_Subset DEF Gate!InOrder
    <3> HIDE DEF W
    <3> QED  BY <3>1, <3>2, FS_EmptySet
  <2>2. ASSUME NEW k \in Gate!Keys
        PROVE  Gate!ScoreOf(k) # "wrong"
    <3>1. CASE k.order = "primary"
      BY <2>1, <3>1 DEF Gate!InOrder
    <3>2. CASE k.order = "reversed"
      <4>1. PICK h \in Gate!Keys : h.order = "primary" /\ Gate!Mate(h) = k
        BY <3>2, KeyFacts
      <4>2. h \in Gate!InOrder("primary") /\ Gate!ScoreOf(h) # "wrong"
        BY <2>1, <4>1 DEF Gate!InOrder
      <4>3. Gate!ScoreOf(Gate!Mate(h)) = "wrong" => Gate!ScoreOf(h) = "wrong"
        BY <1>6, <4>2 DEF Gate!RatesPassed
      <4> QED  BY <4>1, <4>2, <4>3
    <3> QED  BY <3>1, <3>2, KeyFacts
  <2>3. \A k \in Gate!Keys : Gate!OutcomeOf(k) # "invalid" /\ Gate!OutcomeOf(k) \notin Gate!Blocking
    BY <1>6 DEF Gate!RatesPassed
  <2>4. ASSUME NEW line \in lines
        PROVE  /\ ~IsWrong(gate, line.key, line.outcome) /\ line.outcome \notin Gate!Infrastructure
               /\ Due(gate, line.key) # "ABSTAIN"
    <3>1. Gate!Score(line.key, line.outcome) # "wrong" /\ line.outcome # "invalid" /\ line.outcome \notin Gate!Blocking
      BY <1>4, <2>2, <2>3 DEF Gate!ScoreOf
    <3>2. line.outcome \notin Gate!Infrastructure
      BY <3>1 DEF Gate!Infrastructure, Gate!Blocking
    <3> QED  BY <1>6, <3>1, <3>2, ScoreFacts DEF Due
  <2> QED  BY <1>3, <2>4 DEF Earned, lines
<1> QED  BY <1>2, <1>5, <1>6 DEF lines

\* A gate that stops reports nothing but that, once it has stopped.
LEMMA StoppedStatus ==
  ASSUME gate \in Gates, gate.stops
  PROVE  Gate!Status(TRUE) = "infrastructure_blocked"
BY GateAssumption DEF Gate!Status, Gate!Blocked

-----------------------------------------------------------------------------
\* The lines of a journal j but for a torn tail.
TornAt(j) == j # <<>> /\ Gate!Last(j).kind = "torn"
Kept(j) == Gate!ToSet(IF TornAt(j) THEN Gate!Front(j) ELSE j)
Answered(j, k) == \E line \in Kept(j) : line.key = k
Failed(j) == \E line \in Kept(j) : line.outcome \in Gate!Infrastructure
OfSource(j, m) == \A line \in Kept(j) : line.kind = "whole" => line.commit = m

LEMMA JournalFacts ==
  /\ Gate!TornTail <=> TornAt(journal)
  /\ Gate!ToSet(Gate!Recovered) = Kept(journal)
  /\ Gate!Persisted = {line.key : line \in Kept(journal)}
  /\ Gate!HasInfrastructure <=> Failed(journal)
BY DEF Gate!TornTail, TornAt, Gate!Recovered, Kept, Gate!Persisted, Gate!HasInfrastructure, Failed

\* One more line after a tail that is not torn.
LEMMA PlainAppend ==
  ASSUME NEW j \in Seq(Lines), ~TornAt(j), NEW line \in Lines
  PROVE  /\ Append(j, line) \in Seq(Lines)
         /\ line.kind # "torn" => ~TornAt(Append(j, line)) /\ Kept(Append(j, line)) = Kept(j) \cup {line}
         /\ line.kind = "torn" => Kept(Append(j, line)) = Kept(j)
<1> DEFINE g == Append(j, line)
<1>1. /\ g \in Seq(Lines) /\ Len(g) = Len(j) + 1 /\ g[Len(j) + 1] = line /\ g # <<>>
      /\ \A i \in 1..Len(j) : g[i] = j[i]
  OBVIOUS
<1>2. DOMAIN j = 1..Len(j) /\ DOMAIN g = 1..Len(j) + 1 /\ Len(j) \in Nat
  BY <1>1
<1>3. Kept(j) = {j[i] : i \in 1..Len(j)}
  BY <1>2 DEF Kept, Gate!ToSet
<1>4. Gate!Last(g) = line
  BY <1>1 DEF Gate!Last
<1> HIDE DEF g
<1>5. CASE line.kind # "torn"
  <2>1. ~TornAt(g)
    BY <1>4, <1>5 DEF TornAt
  <2>2. Kept(g) = {g[i] : i \in 1..Len(j) + 1}
    BY <1>2, <2>1 DEF Kept, Gate!ToSet
  <2>3. Kept(g) \subseteq Kept(j) \cup {line}
    <3> SUFFICES ASSUME NEW i \in 1..Len(j) + 1 PROVE g[i] \in Kept(j) \cup {line}
      BY <2>2
    <3>1. i = Len(j) + 1 \/ i \in 1..Len(j)
      BY <1>2
    <3> QED  BY <1>1, <1>3, <3>1
  <2>4. Kept(j) \cup {line} \subseteq Kept(g)
    <3>1. \A i \in 1..Len(j) : i \in 1..Len(j) + 1 /\ j[i] = g[i]
      BY <1>1, <1>2
    <3>2. Len(j) + 1 \in 1..Len(j) + 1
      BY <1>2
    <3> QED  BY <1>1, <1>3, <2>2, <3>1, <3>2
  <2> QED  BY <1>1, <1>5, <2>1, <2>3, <2>4 DEF g
<1>6. CASE line.kind = "torn"
  <2>1. TornAt(g)
    BY <1>1, <1>4, <1>6 DEF TornAt
  <2>2. Gate!Front(g) = SubSeq(g, 1, Len(j))
    BY <1>1, <1>2 DEF Gate!Front
  <2>3. DOMAIN Gate!Front(g) = 1..Len(j) /\ \A i \in 1..Len(j) : Gate!Front(g)[i] = j[i]
    BY <1>1, <1>2, <2>2
  <2>4. Kept(g) = {Gate!Front(g)[i] : i \in 1..Len(j)}
    BY <2>1, <2>3 DEF Kept, Gate!ToSet
  <2> QED  BY <1>1, <1>3, <1>6, <2>3, <2>4 DEF g
<1> QED  BY <1>5, <1>6

\* A line glued to a torn tail, which no reader takes for a whole one.
LEMMA GluedAppend ==
  ASSUME NEW j \in Seq(Lines), TornAt(j), NEW line \in Lines, line.kind # "whole"
  PROVE  /\ Append(Gate!Front(j), line) \in Seq(Lines)
         /\ Kept(Append(Gate!Front(j), line)) \subseteq Kept(j) \cup {line}
<1> DEFINE f == Gate!Front(j)
<1>1. Len(j) \in Nat \ {0}
  BY DEF TornAt
<1>2. f \in Seq(Lines) /\ Kept(j) = Gate!ToSet(f)
  BY <1>1 DEF Gate!Front, Kept
<1> HIDE DEF f
<1>3. CASE TornAt(f)
  <2> DEFINE g == Append(f, line)
  <2>1. /\ g \in Seq(Lines) /\ Len(g) = Len(f) + 1 /\ g[Len(f) + 1] = line
        /\ \A i \in 1..Len(f) : g[i] = f[i]
    BY <1>2
  <2>2. DOMAIN f = 1..Len(f) /\ DOMAIN g = 1..Len(f) + 1 /\ Len(f) \in Nat
    BY <1>2, <2>1
  <2> HIDE DEF g
  <2>3. Gate!ToSet(g) \subseteq Gate!ToSet(f) \cup {line}
    BY <2>1, <2>2 DEF Gate!ToSet
  <2>4. Kept(g) \subseteq Gate!ToSet(g)
    <3>1. Gate!ToSet(Gate!Front(g)) \subseteq Gate!ToSet(g)
      BY <2>1, <2>2 DEF Gate!Front, Gate!ToSet
    <3> QED  BY <3>1 DEF Kept
  <2> QED  BY <1>2, <2>1, <2>3, <2>4 DEF g, f
<1>4. CASE ~TornAt(f)
  <2>1. Kept(f) = Gate!ToSet(f)
    BY <1>4 DEF Kept
  <2> QED  BY <1>2, <1>4, <2>1, PlainAppend DEF f
<1> QED  BY <1>3, <1>4

-----------------------------------------------------------------------------
Verdicts ==
  [by : Processes, status : {"measured", "infrastructure_blocked", "passed", "failed"},
   commit : Commits, traces : SUBSET Lines]
Places == {"idle", "create", "open", "ask", "append", "rebuild", "publish"}
GateStates ==
  [at : Places, commit : Commits \cup {None}, known : SUBSET Gate!Keys, sequence : Nat,
   key : Gate!Keys \cup {None}, outcome : Outcomes \cup {None}, stopped : BOOLEAN, draft : Verdicts \cup {None}]
Tallies == [Gate!Keys -> Nat]

GateTypeOK ==
  /\ gate \in Gates /\ head \in Commits /\ manifest \in Commits \cup {None}
  /\ journal \in Seq(Lines) \cup {None} /\ report \in Verdicts \cup {None}
  /\ proc \in [Processes -> GateStates]
  /\ asked \in Tallies /\ lost \in Tallies /\ overlapped \in BOOLEAN

\* What a process (q) holds, of the files of the attempt: the journal (j) and the
\* manifest (m).
GateProcOK(q, g, j, m) ==
  /\ q.at # "idle" => q.commit \in Commits
  /\ q.at \in {"open", "ask", "append", "rebuild", "publish"} => m # None /\ q.commit = m
  /\ q.at \in {"ask", "append", "rebuild"} => j # None
  /\ q.at = "append" => q.key \in Gate!Keys /\ q.outcome \in Outcomes
  /\ q.at = "rebuild" => q.stopped
  /\ q.at \in {"create", "open"} => q.known = {}
  /\ q.at = "publish" =>
       /\ q.draft \in Verdicts /\ q.draft.commit = m
       /\ q.draft.status = "passed" => Earned(g, q.draft.traces)

FilesOK(g, m, j, r) ==
  /\ j # None => m # None /\ OfSource(j, m)
  /\ r # None => r.commit = m /\ (r.status = "passed" => Earned(g, r.traces))

\* As long as one process at a time works on the attempt, it knows what the journal
\* answers, the journal answers what was asked but for what was lost, and nothing is
\* asked or judged once a gate that stops has failed.
AloneOK(q, g, j) ==
  /\ q.at \in {"create", "open"} => j = None
  /\ q.at \in {"ask", "append"} => ~TornAt(j) /\ \A k \in Gate!Keys : k \in q.known <=> Answered(j, k)
  /\ g.stops /\ j # None /\ Failed(j) =>
       \/ q.at \in {"idle", "rebuild"}
       \/ q.at = "publish" /\ q.draft.status = "infrastructure_blocked"
CountsOK(a, l, j, ps) ==
  \A k \in Gate!Keys :
    /\ a[k] <= 1 + l[k]
    /\ \/ a[k] <= l[k]
       \/ j # None /\ Answered(j, k)
       \/ \E p \in Processes : ps[p].at = "append" /\ ps[p].key = k

GateInv ==
  /\ GateTypeOK
  /\ \A p \in Processes : GateProcOK(proc[p], gate, journal, manifest)
  /\ FilesOK(gate, manifest, journal, report)
  /\ ~overlapped =>
       /\ \A p, q \in Processes : proc[p].at # "idle" /\ proc[q].at # "idle" => p = q
       /\ \A p \in Processes : AloneOK(proc[p], gate, journal)
       /\ CountsOK(asked, lost, journal, proc)

LEMMA GateFacts ==
  ASSUME GateInv, NEW p \in Processes
  PROVE  /\ proc[p] \in GateStates /\ proc[p].at \in Places
         /\ GateProcOK(proc[p], gate, journal, manifest) /\ FilesOK(gate, manifest, journal, report)
         /\ ~overlapped => AloneOK(proc[p], gate, journal) /\ CountsOK(asked, lost, journal, proc)
         /\ ~overlapped /\ proc[p].at # "idle" => \A q \in Processes \ {p} : proc[q].at = "idle"
BY DEF GateInv, GateTypeOK, GateStates

\* A step of one process.
LEMMA GateMoved ==
  ASSUME GateInv, NEW p \in Processes, NEW new \in GateStates, proc' = [proc EXCEPT ![p] = new],
         gate' = gate, head' = head, overlapped' \in BOOLEAN,
         manifest' \in Commits \cup {None}, manifest' = manifest \/ manifest = None,
         journal' \in Seq(Lines) \cup {None}, journal # None => journal' # None,
         report' \in Verdicts \cup {None}, asked' \in Tallies, lost' \in Tallies,
         GateProcOK(new, gate, journal', manifest'), FilesOK(gate, manifest', journal', report'),
         ~overlapped' =>
           /\ \A q \in Processes \ {p} : proc[q].at = "idle"
           /\ AloneOK(new, gate, journal')
           /\ CountsOK(asked', lost', journal', proc')
  PROVE  GateInv'
<1>1. proc' \in [Processes -> GateStates]
  BY DEF GateInv, GateTypeOK
<1>2. GateTypeOK'
  BY <1>1 DEF GateInv, GateTypeOK
<1>3. proc'[p] = new /\ \A q \in Processes \ {p} : proc'[q] = proc[q]
  BY DEF GateInv, GateTypeOK
<1>4. ASSUME NEW q \in Processes
      PROVE  GateProcOK(proc'[q], gate', journal', manifest')
  <2>1. CASE q = p
    BY <1>3, <2>1
  <2>2. CASE q # p
    <3>1. GateProcOK(proc[q], gate, journal, manifest)
      BY DEF GateInv
    <3> QED  BY <1>3, <2>2, <3>1 DEF GateProcOK
  <2> QED  BY <2>1, <2>2
<1>5. ASSUME ~overlapped'
      PROVE  /\ \A r, q \in Processes : proc'[r].at # "idle" /\ proc'[q].at # "idle" => r = q
             /\ \A q \in Processes : AloneOK(proc'[q], gate', journal')
             /\ CountsOK(asked', lost', journal', proc')
  <2>1. \A q \in Processes \ {p} : proc'[q].at = "idle"
    BY <1>3, <1>5
  <2>2. \A r, q \in Processes : proc'[r].at # "idle" /\ proc'[q].at # "idle" => r = q
    BY <2>1
  <2>3. ASSUME NEW q \in Processes PROVE AloneOK(proc'[q], gate', journal')
    BY <1>3, <1>5, <2>1 DEF AloneOK
  <2> QED  BY <1>5, <2>2, <2>3
<1> QED  BY <1>2, <1>4, <1>5 DEF GateInv

\* A step of one process that leaves the files and the tallies alone.
LEMMA GateMovedOnly ==
  ASSUME GateInv, NEW p \in Processes, NEW new \in GateStates, proc' = [proc EXCEPT ![p] = new],
         UNCHANGED <<gate, head, manifest, journal, report, asked, lost, overlapped>>,
         proc[p].at \notin {"idle", "append"},
         GateProcOK(new, gate, journal, manifest), ~overlapped => AloneOK(new, gate, journal)
  PROVE  GateInv'
<1>1. GateTypeOK
  BY DEF GateInv
<1>2. FilesOK(gate, manifest', journal', report')
  BY GateFacts
<1>3. ASSUME ~overlapped'
      PROVE  CountsOK(asked', lost', journal', proc')
  <2>1. CountsOK(asked, lost, journal, proc)
    BY <1>3, GateFacts
  <2>2. \A q \in Processes : proc[q].at = "append" => proc'[q] = proc[q]
    BY <1>1 DEF GateTypeOK
  <2> QED  BY <2>1, <2>2 DEF CountsOK
<1>4. ~overlapped' => \A q \in Processes \ {p} : proc[q].at = "idle"
  BY GateFacts
<1> QED  BY <1>1, <1>2, <1>3, <1>4, GateMoved DEF GateTypeOK

LEMMA IdleFacts ==
  /\ Gate!Idle \in GateStates
  /\ Gate!Idle.at = "idle" /\ Gate!Idle.known = {}
BY DEF Gate!Idle, GateStates, Places

LEMMA CommitShape ==
  ASSUME NEW q \in GateStates, NEW a \in Places, NEW c \in Commits
  PROVE  LET new == [q EXCEPT !.at = a, !.commit = c] IN
         new \in GateStates /\ new.at = a /\ new.commit = c /\ new.known = q.known
BY DEF GateStates

LEMMA ResumedShape ==
  ASSUME NEW q \in GateStates, NEW a \in Places, NEW c \in Commits, NEW ks \in SUBSET Gate!Keys, NEW n \in Nat
  PROVE  LET new == [q EXCEPT !.at = a, !.commit = c, !.known = ks, !.sequence = n] IN
         new \in GateStates /\ new.at = a /\ new.commit = c /\ new.known = ks
BY DEF GateStates

LEMMA AtShape ==
  ASSUME NEW q \in GateStates, NEW a \in Places
  PROVE  LET new == [q EXCEPT !.at = a] IN
         new \in GateStates /\ new.at = a /\ new.commit = q.commit /\ new.known = q.known
BY DEF GateStates

LEMMA AskedShape ==
  ASSUME NEW q \in GateStates, NEW a \in Places, NEW k \in Gate!Keys, NEW o \in Outcomes
  PROVE  LET new == [q EXCEPT !.at = a, !.key = k, !.outcome = o] IN
         new \in GateStates /\ new.at = a /\ new.commit = q.commit /\ new.known = q.known
         /\ new.key = k /\ new.outcome = o
BY DEF GateStates

LEMMA PersistedShape ==
  ASSUME NEW q \in GateStates, NEW a \in Places, NEW s \in BOOLEAN, NEW ks \in SUBSET Gate!Keys, NEW n \in Nat
  PROVE  LET new == [q EXCEPT !.at = a, !.stopped = s, !.known = ks, !.sequence = n] IN
         new \in GateStates /\ new.at = a /\ new.commit = q.commit /\ new.known = ks /\ (new.stopped <=> s)
BY DEF GateStates

LEMMA DraftShape ==
  ASSUME NEW q \in GateStates, NEW a \in Places, NEW d \in Verdicts
  PROVE  LET new == [q EXCEPT !.at = a, !.draft = d] IN
         new \in GateStates /\ new.at = a /\ new.commit = q.commit /\ new.draft = d
BY DEF GateStates

\* The lines kept are lines.
LEMMA KeptLines ==
  ASSUME NEW j \in Seq(Lines)
  PROVE  Kept(j) \subseteq Lines
<1>1. CASE TornAt(j)
  <2>1. Len(j) \in Nat \ {0}
    BY <1>1 DEF TornAt
  <2>2. Gate!Front(j) \in Seq(Lines)
    BY <2>1 DEF Gate!Front
  <2> DEFINE f == Gate!Front(j)
  <2> HIDE DEF f
  <2>3. Gate!ToSet(f) \subseteq Lines
    BY <2>2 DEF Gate!ToSet, f
  <2> QED  BY <1>1, <2>3 DEF Kept, f
<1>2. CASE ~TornAt(j)
  BY <1>2 DEF Kept, Gate!ToSet
<1> QED  BY <1>1, <1>2

LEMMA EmptyJournal ==
  <<>> \in Seq(Lines) /\ ~TornAt(<<>>) /\ Kept(<<>>) = {}
BY DEF TornAt, Kept, Gate!ToSet

LEMMA GateStart ==
  ASSUME GateInv, NEW p \in Processes, Gate!Start(p)
  PROVE  GateInv'
<1>1. /\ proc[p].at = "idle" /\ overlapped' = (overlapped \/ \E q \in Processes : proc[q].at # "idle")
      /\ UNCHANGED <<gate, head, manifest, journal, report, asked, lost>>
      /\ \/ /\ Gate!Unused
            /\ proc' = [proc EXCEPT ![p] = [Gate!Idle EXCEPT !.at = "create", !.commit = head]]
         \/ /\ gate.resumes /\ Gate!Started /\ Gate!SameIdentity /\ Gate!Resumable
            /\ proc' = [proc EXCEPT ![p] = [Gate!Idle EXCEPT !.at = "ask", !.commit = head,
                                             !.known = Gate!Existing, !.sequence = Len(Gate!Recovered)]]
  BY DEF Gate!Start, Gate!Set, Gate!Files
<1>2. GateTypeOK /\ overlapped' \in BOOLEAN /\ FilesOK(gate, manifest, journal, report)
      /\ (~overlapped => CountsOK(asked, lost, journal, proc))
  BY <1>1 DEF GateInv, GateTypeOK
<1>3. ~overlapped' => ~overlapped /\ \A q \in Processes : proc[q].at = "idle"
  BY <1>1
<1>4. ~overlapped' => CountsOK(asked', lost', journal', proc')
  <2>1. ~overlapped' => \A q \in Processes : ~(proc[q].at = "append")
    BY <1>3
  <2> QED  BY <1>1, <1>2, <1>3, <2>1 DEF CountsOK
<1>5. CASE /\ Gate!Unused
           /\ proc' = [proc EXCEPT ![p] = [Gate!Idle EXCEPT !.at = "create", !.commit = head]]
  <2> DEFINE new == [Gate!Idle EXCEPT !.at = "create", !.commit = head]
  <2>1. new \in GateStates /\ new.at = "create" /\ new.commit = head /\ new.known = {}
    <3>1. "create" \in Places /\ head \in Commits
      BY <1>2 DEF Places, GateTypeOK
    <3> QED  BY <3>1, IdleFacts, CommitShape DEF GateStates
  <2> HIDE DEF new
  <2>2. GateProcOK(new, gate, journal', manifest')
    BY <1>2, <2>1 DEF GateProcOK, GateTypeOK
  <2>3. journal = None
    BY <1>5 DEF Gate!Unused
  <2>4. AloneOK(new, gate, journal')
    BY <1>1, <2>1, <2>3 DEF AloneOK
  <2> QED  BY <1>1, <1>2, <1>3, <1>4, <1>5, <2>1, <2>2, <2>4, GateMoved DEF GateTypeOK, new
<1>6. CASE /\ gate.resumes /\ Gate!Started /\ Gate!SameIdentity /\ Gate!Resumable
           /\ proc' = [proc EXCEPT ![p] = [Gate!Idle EXCEPT !.at = "ask", !.commit = head,
                                            !.known = Gate!Existing, !.sequence = Len(Gate!Recovered)]]
  <2> DEFINE new == [Gate!Idle EXCEPT !.at = "ask", !.commit = head,
                      !.known = Gate!Existing, !.sequence = Len(Gate!Recovered)]
  <2>1. manifest # None /\ journal # None /\ manifest = head /\ ~TornAt(journal) /\ (gate.stops => ~Failed(journal))
    BY <1>6, JournalFacts DEF Gate!Started, Gate!SameIdentity, Gate!Resumable
  <2>2. journal \in Seq(Lines) /\ Gate!Recovered = journal
    BY <1>2, <2>1, JournalFacts DEF GateTypeOK, Gate!Recovered
  <2>3. Len(Gate!Recovered) \in Nat
    BY <2>2
  <2>4. Gate!Existing = {line.key : line \in Kept(journal)} /\ Gate!Existing \in SUBSET Gate!Keys
    <3>1. \A line \in Kept(journal) : line.key \in Gate!Keys
      BY <2>2, KeptLines DEF Lines
    <3> QED  BY <3>1, JournalFacts DEF Gate!Existing
  <2>5. new \in GateStates /\ new.at = "ask" /\ new.commit = head /\ new.known = Gate!Existing
    <3>1. "ask" \in Places /\ head \in Commits
      BY <1>2 DEF Places, GateTypeOK
    <3> QED  BY <2>3, <2>4, <3>1, IdleFacts, ResumedShape DEF GateStates
  <2> HIDE DEF new
  <2>6. GateProcOK(new, gate, journal', manifest')
    BY <1>1, <1>2, <2>1, <2>5 DEF GateProcOK, GateTypeOK
  <2>7. AloneOK(new, gate, journal')
    <3>1. \A k \in Gate!Keys : k \in new.known <=> Answered(journal, k)
      BY <2>4, <2>5 DEF Answered
    <3> QED  BY <1>1, <2>1, <2>5, <3>1 DEF AloneOK
  <2> QED  BY <1>1, <1>2, <1>3, <1>4, <1>6, <2>5, <2>6, <2>7, GateMoved DEF GateTypeOK, new
<1> QED  BY <1>1, <1>5, <1>6

LEMMA AppendedLine ==
  ASSUME journal \in Seq(Lines), NEW line \in Lines
  PROVE  LET new == Gate!Appended(line) IN
         /\ new \in Seq(Lines)
         /\ \A m : OfSource(journal, m) /\ (line.kind = "whole" => line.commit = m) => OfSource(new, m)
         /\ ~TornAt(journal) =>
              /\ line.kind # "torn" => ~TornAt(new) /\ Kept(new) = Kept(journal) \cup {line}
              /\ line.kind = "torn" => Kept(new) = Kept(journal)
<1> DEFINE new == Gate!Appended(line)
<1>1. CASE ~TornAt(journal)
  <2>1. new = Append(journal, line)
    BY <1>1 DEF Gate!Appended, TornAt
  <2> HIDE DEF new
  <2>2. /\ new \in Seq(Lines)
        /\ line.kind # "torn" => ~TornAt(new) /\ Kept(new) = Kept(journal) \cup {line}
        /\ line.kind = "torn" => Kept(new) = Kept(journal)
    BY <1>1, <2>1, PlainAppend
  <2>3. \A m : OfSource(journal, m) /\ (line.kind = "whole" => line.commit = m) => OfSource(new, m)
    BY <2>2 DEF OfSource
  <2> QED  BY <2>2, <2>3 DEF new
<1>2. CASE TornAt(journal)
  <2> DEFINE tail == Gate!Last(journal)
             kind == IF line.kind = "torn" THEN "torn" ELSE "garbled"
             glued == [tail EXCEPT !.kind = kind]
  <2>1. new = Append(Gate!Front(journal), glued)
    BY <1>2 DEF Gate!Appended, TornAt
  <2>2. tail \in Lines
    BY <1>2 DEF Gate!Last, TornAt
  <2> HIDE DEF new, tail
  <2>3. glued \in Lines /\ glued.kind # "whole"
    BY <2>2 DEF Lines
  <2> HIDE DEF glued
  <2>4. new \in Seq(Lines) /\ Kept(new) \subseteq Kept(journal) \cup {glued}
    BY <1>2, <2>1, <2>3, GluedAppend
  <2>5. \A m : OfSource(journal, m) => OfSource(new, m)
    BY <2>3, <2>4 DEF OfSource
  <2> QED  BY <1>2, <2>4, <2>5 DEF new
<1> QED  BY <1>1, <1>2

LEMMA GateCreates ==
  ASSUME GateInv, NEW p \in Processes, Gate!CreateManifest(p) \/ Gate!CreateJournal(p)
  PROVE  GateInv'
<1>1. GateTypeOK /\ proc[p] \in GateStates /\ GateProcOK(proc[p], gate, journal, manifest)
      /\ FilesOK(gate, manifest, journal, report)
      /\ (~overlapped => AloneOK(proc[p], gate, journal) /\ CountsOK(asked, lost, journal, proc))
      /\ (~overlapped /\ proc[p].at # "idle" => \A q \in Processes \ {p} : proc[q].at = "idle")
  BY GateFacts DEF GateInv
<1>2. CASE Gate!CreateManifest(p) /\ Gate!Unused
  <2> DEFINE new == [proc[p] EXCEPT !.at = "open"]
  <2>1. /\ proc[p].at = "create" /\ manifest' = proc[p].commit /\ proc' = [proc EXCEPT ![p] = new]
        /\ UNCHANGED <<gate, head, journal, report, asked, lost, overlapped>>
        /\ manifest = None /\ journal = None /\ report = None
    BY <1>2 DEF Gate!CreateManifest, Gate!Set, Gate!Unused
  <2>2. new \in GateStates /\ new.at = "open" /\ new.commit = proc[p].commit /\ new.known = proc[p].known
    BY <1>1, AtShape DEF Places
  <2> HIDE DEF new
  <2>3. manifest' \in Commits /\ manifest' # None
    BY <1>1, <2>1, GateAssumption DEF GateProcOK
  <2>4. GateProcOK(new, gate, journal', manifest')
    BY <1>1, <2>1, <2>2, <2>3 DEF GateProcOK
  <2>5. FilesOK(gate, manifest', journal', report')
    BY <2>1 DEF FilesOK
  <2>6. ~overlapped' => AloneOK(new, gate, journal') /\ CountsOK(asked', lost', journal', proc')
    <3> SUFFICES ASSUME ~overlapped
                 PROVE  AloneOK(new, gate, journal') /\ CountsOK(asked', lost', journal', proc')
      BY <2>1
    <3>1. AloneOK(new, gate, journal')
      BY <2>1, <2>2 DEF AloneOK
    <3>2. \A q \in Processes : proc[q].at # "append"
      BY <1>1, <2>1
    <3> QED  BY <1>1, <2>1, <3>1, <3>2 DEF CountsOK
  <2> QED  BY <1>1, <2>1, <2>2, <2>3, <2>4, <2>5, <2>6, GateMoved DEF GateTypeOK
<1>3. CASE Gate!CreateManifest(p) /\ ~Gate!Unused
  <2>1. /\ proc[p].at = "create" /\ proc' = [proc EXCEPT ![p] = Gate!Idle]
        /\ UNCHANGED <<gate, head, manifest, journal, report, asked, lost, overlapped>>
    BY <1>3 DEF Gate!CreateManifest, Gate!Quit, Gate!Set
  <2>2. GateProcOK(Gate!Idle, gate, journal, manifest) /\ AloneOK(Gate!Idle, gate, journal)
    BY IdleFacts DEF GateProcOK, AloneOK
  <2> QED  BY <2>1, <2>2, IdleFacts, GateMovedOnly
<1>4. CASE Gate!CreateJournal(p)
  <2> DEFINE new == [proc[p] EXCEPT !.at = "ask"]
  <2>1. /\ proc[p].at = "open" /\ journal' = <<>> /\ proc' = [proc EXCEPT ![p] = new]
        /\ UNCHANGED <<gate, head, manifest, report, asked, lost, overlapped>>
    BY <1>4 DEF Gate!CreateJournal, Gate!Set
  <2>2. new \in GateStates /\ new.at = "ask" /\ new.commit = proc[p].commit /\ new.known = proc[p].known
    BY <1>1, AtShape DEF Places
  <2> HIDE DEF new
  <2>3. journal' \in Seq(Lines) /\ journal' # None
    BY <2>1, EmptyJournal, GateAssumption
  <2>4. GateProcOK(new, gate, journal', manifest')
    BY <1>1, <2>1, <2>2, <2>3 DEF GateProcOK
  <2>5. FilesOK(gate, manifest', journal', report')
    BY <1>1, <2>1, EmptyJournal DEF FilesOK, OfSource, GateProcOK
  <2>6. ~overlapped' => AloneOK(new, gate, journal') /\ CountsOK(asked', lost', journal', proc')
    <3> SUFFICES ASSUME ~overlapped
                 PROVE  AloneOK(new, gate, journal') /\ CountsOK(asked', lost', journal', proc')
      BY <2>1
    <3>1. journal = None /\ new.known = {}
      BY <1>1, <2>1, <2>2 DEF AloneOK, GateProcOK
    <3>2. AloneOK(new, gate, journal')
      BY <2>1, <2>2, <3>1, EmptyJournal DEF AloneOK, Answered, Failed
    <3>3. \A q \in Processes : proc[q].at # "append"
      BY <1>1, <2>1
    <3>4. CountsOK(asked', lost', journal', proc')
      BY <1>1, <2>1, <3>1, <3>3 DEF CountsOK
    <3> QED  BY <3>2, <3>4
  <2> QED  BY <1>1, <2>1, <2>2, <2>3, <2>4, <2>5, <2>6, GateMoved DEF GateTypeOK
<1> QED  BY <1>2, <1>3, <1>4

LEMMA GateAsk ==
  ASSUME GateInv, NEW p \in Processes, Gate!Ask(p)
  PROVE  GateInv'
<1>1. GateTypeOK /\ proc[p] \in GateStates /\ GateProcOK(proc[p], gate, journal, manifest)
      /\ FilesOK(gate, manifest, journal, report)
      /\ (~overlapped => AloneOK(proc[p], gate, journal) /\ CountsOK(asked, lost, journal, proc))
      /\ (~overlapped /\ proc[p].at # "idle" => \A q \in Processes \ {p} : proc[q].at = "idle")
  BY GateFacts DEF GateInv
<1>2. PICK i \in Gate!Open(p), outcome \in Outcomes :
        /\ asked' = [asked EXCEPT ![Gate!Invocations[i]] = @ + 1]
        /\ proc' = [proc EXCEPT ![p] =
                      [proc[p] EXCEPT !.at = "append", !.key = Gate!Invocations[i], !.outcome = outcome]]
  BY DEF Gate!Ask, Gate!Set
<1> DEFINE k == Gate!Invocations[i]
           new == [proc[p] EXCEPT !.at = "append", !.key = k, !.outcome = outcome]
<1>3. /\ proc[p].at = "ask" /\ proc' = [proc EXCEPT ![p] = new]
      /\ asked' = [asked EXCEPT ![k] = asked[k] + 1]
      /\ UNCHANGED <<gate, head, manifest, journal, report, lost, overlapped>>
  BY <1>2 DEF Gate!Ask, Gate!Files
<1>4. k \in Gate!Keys /\ k \notin proc[p].known
  BY <1>2 DEF Gate!Open, Gate!Keys, Gate!ToSet
<1> HIDE DEF k
<1>5. new \in GateStates /\ new.at = "append" /\ new.commit = proc[p].commit /\ new.known = proc[p].known
      /\ new.key = k /\ new.outcome = outcome
  <2>1. "append" \in Places
    BY DEF Places
  <2> QED  BY <1>1, <1>4, <2>1, AskedShape DEF GateStates
<1> HIDE DEF new
<1>6. GateProcOK(new, gate, journal', manifest')
  BY <1>1, <1>3, <1>4, <1>5 DEF GateProcOK
<1>7. asked' \in Tallies
  BY <1>1, <1>3, <1>4 DEF GateTypeOK, Tallies
<1>8. ~overlapped' => AloneOK(new, gate, journal') /\ CountsOK(asked', lost', journal', proc')
  <2> SUFFICES ASSUME ~overlapped
               PROVE  AloneOK(new, gate, journal) /\ CountsOK(asked', lost, journal, proc')
    BY <1>3
  <2>1. AloneOK(new, gate, journal)
    BY <1>1, <1>3, <1>5 DEF AloneOK
  <2>2. proc'[p] = new
    BY <1>1, <1>3 DEF GateTypeOK
  <2>3. asked \in Tallies /\ lost \in Tallies
    BY <1>1 DEF GateTypeOK
  <2>4. ASSUME NEW x \in Gate!Keys
        PROVE  /\ asked'[x] <= 1 + lost[x]
               /\ \/ asked'[x] <= lost[x]
                  \/ journal # None /\ Answered(journal, x)
                  \/ \E q \in Processes : proc'[q].at = "append" /\ proc'[q].key = x
    <3>1. CASE x = k
      <4>1. ~Answered(journal, x)
        BY <1>1, <1>3, <1>4, <3>1 DEF AloneOK
      <4>2. \A q \in Processes : proc[q].at # "append"
        BY <1>1, <1>3
      <4>3. asked[x] <= lost[x]
        BY <1>1, <1>3, <4>1, <4>2 DEF CountsOK
      <4>4. asked'[x] = asked[x] + 1
        BY <1>3, <2>3, <3>1 DEF Tallies
      <4>5. asked'[x] <= 1 + lost[x]
        BY <2>3, <4>3, <4>4 DEF Tallies
      <4> QED  BY <1>5, <2>2, <3>1, <4>5
    <3>2. CASE x # k
      <4>1. asked'[x] = asked[x]
        BY <1>3, <2>3, <3>2 DEF Tallies
      <4>2. \A q \in Processes : proc[q].at # "append"
        BY <1>1, <1>3
      <4> QED  BY <1>1, <4>1, <4>2 DEF CountsOK
    <3> QED  BY <3>1, <3>2
  <2> QED  BY <2>1, <2>4 DEF CountsOK
<1> QED  BY <1>1, <1>3, <1>5, <1>6, <1>7, <1>8, GateMoved DEF GateTypeOK

LEMMA LineFacts ==
  ASSUME NEW k \in Gate!Keys, NEW n \in Nat, NEW o \in Outcomes \cup {None}, NEW c \in Commits \cup {None}
  PROVE  /\ Gate!Line(k, n, o, c) \in Lines
         /\ Gate!Line(k, n, o, c).kind = "whole" /\ Gate!Line(k, n, o, c).key = k
         /\ Gate!Line(k, n, o, c).outcome = o /\ Gate!Line(k, n, o, c).commit = c
         /\ [Gate!Line(k, n, o, c) EXCEPT !.kind = "torn"] \in Lines
         /\ [Gate!Line(k, n, o, c) EXCEPT !.kind = "torn"].kind = "torn"
BY DEF Gate!Line, Lines

\* An answer goes to the end of the journal, which may end in a torn line
\* (DurableSemanticGateAttempt.append).
LEMMA GatePersist ==
  ASSUME GateInv, NEW p \in Processes, Gate!Persist(p)
  PROVE  GateInv'
<1>1. GateTypeOK /\ proc[p] \in GateStates /\ GateProcOK(proc[p], gate, journal, manifest)
      /\ FilesOK(gate, manifest, journal, report)
      /\ (~overlapped => AloneOK(proc[p], gate, journal) /\ CountsOK(asked, lost, journal, proc))
      /\ (~overlapped /\ proc[p].at # "idle" => \A q \in Processes \ {p} : proc[q].at = "idle")
  BY GateFacts DEF GateInv
<1> DEFINE q == proc[p]
           k == q.key
           n == q.sequence + 1
           line == Gate!Line(k, n, q.outcome, q.commit)
           stop == gate.stops /\ q.outcome \in Gate!Infrastructure
           a == IF stop THEN "rebuild" ELSE "ask"
           ks == q.known \union {k}
           new == [q EXCEPT !.at = a, !.stopped = stop, !.known = ks, !.sequence = n]
<1>2. /\ q.at = "append" /\ journal' = Gate!Appended(line) /\ proc' = [proc EXCEPT ![p] = new]
      /\ UNCHANGED <<gate, head, manifest, report, asked, lost, overlapped>>
  BY DEF Gate!Persist, Gate!Set
<1>3. /\ q \in GateStates /\ k \in Gate!Keys /\ n \in Nat /\ q.outcome \in Outcomes /\ q.commit \in Commits
      /\ q.commit = manifest /\ manifest # None /\ a \in Places /\ stop \in BOOLEAN
      /\ ks \in SUBSET Gate!Keys /\ journal \in Seq(Lines) /\ journal # None
  <2>1. q.at = "append" /\ GateProcOK(q, gate, journal, manifest) /\ q \in GateStates
    BY <1>1, <1>2
  <2>2. stop \in BOOLEAN
    <3>1. gate.stops \in BOOLEAN
      BY <1>1, GateAssumption DEF GateTypeOK
    <3> QED  BY <3>1
  <2> HIDE DEF q
  <2>3. q.sequence \in Nat /\ q.known \in SUBSET Gate!Keys
    BY <2>1 DEF GateStates
  <2>4. k \in Gate!Keys /\ q.outcome \in Outcomes /\ q.commit \in Commits /\ q.commit = manifest /\ manifest # None
        /\ journal # None
    BY <2>1 DEF GateProcOK
  <2>5. journal \in Seq(Lines)
    BY <1>1, <2>4 DEF GateTypeOK
  <2> QED  BY <2>1, <2>2, <2>3, <2>4, <2>5 DEF Places
<1> HIDE DEF q, k, n, stop, ks
<1>4. new \in GateStates /\ new.at = a /\ new.commit = q.commit /\ new.known = ks /\ (new.stopped <=> stop)
  BY <1>3, PersistedShape DEF GateStates
<1>5. line \in Lines /\ line.kind = "whole" /\ line.key = k /\ line.outcome = q.outcome /\ line.commit = q.commit
  BY <1>3 DEF Gate!Line, Lines
<1> HIDE DEF line, new
<1>6. /\ journal' \in Seq(Lines) /\ journal' # None /\ OfSource(journal', manifest)
      /\ ~TornAt(journal) => ~TornAt(journal') /\ Kept(journal') = Kept(journal) \cup {line}
  <2>1. OfSource(journal, manifest)
    BY <1>1, <1>3 DEF FilesOK
  <2>2. /\ journal' \in Seq(Lines) /\ OfSource(journal', manifest)
        /\ ~TornAt(journal) => ~TornAt(journal') /\ Kept(journal') = Kept(journal) \cup {line}
    BY <1>2, <1>3, <1>5, <2>1, AppendedLine
  <2> QED  BY <2>2, GateAssumption
<1>7. GateProcOK(new, gate, journal', manifest')
  <2>1. new.at \in {"ask", "rebuild"} /\ (new.at = "rebuild" => new.stopped)
    BY <1>4
  <2> QED  BY <1>2, <1>3, <1>4, <1>6, <2>1 DEF GateProcOK
<1>8. FilesOK(gate, manifest', journal', report')
  BY <1>1, <1>2, <1>3, <1>6 DEF FilesOK
<1>9. ~overlapped' => AloneOK(new, gate, journal') /\ CountsOK(asked', lost', journal', proc')
  <2> SUFFICES ASSUME ~overlapped
               PROVE  AloneOK(new, gate, journal') /\ CountsOK(asked', lost', journal', proc')
    BY <1>2
  <2>1. AloneOK(q, gate, journal) /\ CountsOK(asked, lost, journal, proc)
    BY <1>1 DEF q
  <2>2. ~TornAt(journal') /\ Kept(journal') = Kept(journal) \cup {line}
    BY <1>2, <1>6, <2>1 DEF AloneOK
  <2>3. \A x \in Gate!Keys : x \in new.known <=> Answered(journal', x)
    <3>1. \A x \in Gate!Keys : x \in q.known <=> Answered(journal, x)
      BY <1>2, <2>1 DEF AloneOK
    <3> QED  BY <1>4, <1>5, <2>2, <3>1 DEF Answered, ks
  <2>4. gate.stops /\ Failed(journal') => new.at = "rebuild"
    <3> SUFFICES ASSUME gate.stops, Failed(journal') PROVE stop
      BY <1>4
    <3>1. ~Failed(journal)
      BY <1>2, <1>3, <2>1 DEF AloneOK
    <3>2. line.outcome \in Gate!Infrastructure
      BY <2>2, <3>1 DEF Failed
    <3> QED  BY <1>5, <3>2 DEF stop
  <2>5. AloneOK(new, gate, journal')
    <3>1. new.at \in {"ask", "rebuild"}
      BY <1>4
    <3> QED  BY <2>2, <2>3, <2>4, <3>1 DEF AloneOK
  <2>6. CountsOK(asked, lost, journal', proc')
    <3> SUFFICES ASSUME NEW x \in Gate!Keys
                 PROVE  /\ asked[x] <= 1 + lost[x]
                        /\ asked[x] <= lost[x] \/ Answered(journal', x)
      BY <1>6 DEF CountsOK
    <3>1. CASE x = k
      BY <1>5, <2>1, <2>2, <3>1 DEF CountsOK, Answered
    <3>2. CASE x # k
      <4>1. \A r \in Processes : proc[r].at = "append" => r = p
        BY <1>1, <1>2 DEF q
      <4>2. ~ \E r \in Processes : proc[r].at = "append" /\ proc[r].key = x
        BY <3>2, <4>1 DEF k, q
      <4> QED  BY <2>1, <2>2, <4>2 DEF CountsOK, Answered
    <3> QED  BY <3>1, <3>2
  <2> QED  BY <1>2, <2>5, <2>6
<1>10. ~overlapped' => \A r \in Processes \ {p} : proc[r].at = "idle"
  BY <1>1, <1>2 DEF q
<1> QED  BY <1>1, <1>2, <1>4, <1>6, <1>7, <1>8, <1>9, <1>10, GateMoved DEF GateTypeOK

LEMMA GateRebuild ==
  ASSUME GateInv, NEW p \in Processes, Gate!Rebuild(p)
  PROVE  GateInv'
<1>1. GateTypeOK /\ proc[p] \in GateStates /\ GateProcOK(proc[p], gate, journal, manifest)
      /\ (~overlapped => AloneOK(proc[p], gate, journal))
  BY GateFacts DEF GateInv
<1>2. /\ proc[p].at \in {"rebuild", "ask"} /\ UNCHANGED <<gate, head, manifest, journal, report, asked, lost, overlapped>>
  BY DEF Gate!Rebuild, Gate!Files
<1> DEFINE draft == [by |-> p, status |-> Gate!Status(proc[p].stopped),
                     commit |-> proc[p].commit, traces |-> Gate!ToSet(Gate!Recovered)]
           new == [proc[p] EXCEPT !.at = "publish", !.draft = draft]
<1>3. CASE Gate!Readable /\ proc' = [proc EXCEPT ![p] = new]
  <2>1. journal \in Seq(Lines) /\ proc[p].commit \in Commits /\ proc[p].commit = manifest /\ manifest # None
    BY <1>1, <1>2 DEF GateProcOK, GateTypeOK
  <2>2. Gate!Status(proc[p].stopped) \in {"measured", "infrastructure_blocked", "passed", "failed"}
    BY DEF Gate!Status
  <2>3. Gate!ToSet(Gate!Recovered) \in SUBSET Lines
    BY <2>1, JournalFacts, KeptLines
  <2>4. draft \in Verdicts /\ draft.commit = manifest /\ draft.status = Gate!Status(proc[p].stopped)
        /\ draft.traces = Gate!ToSet(Gate!Recovered)
    BY <2>1, <2>2, <2>3 DEF Verdicts
  <2>5. proc[p].stopped \in BOOLEAN
    BY <1>1 DEF GateStates
  <2> HIDE DEF draft
  <2>6. draft.status = "passed" => Earned(gate, draft.traces)
    BY <1>3, <2>4, <2>5, VerdictEarned
  <2>7. "publish" \in Places
    BY DEF Places
  <2>8. new \in GateStates /\ new.at = "publish" /\ new.commit = proc[p].commit /\ new.draft = draft
    BY <1>1, <2>4, <2>7, DraftShape DEF GateStates
  <2> HIDE DEF new
  <2>9. GateProcOK(new, gate, journal, manifest)
    BY <2>1, <2>4, <2>6, <2>8 DEF GateProcOK
  <2>10. ~overlapped => AloneOK(new, gate, journal)
    <3> SUFFICES ASSUME ~overlapped, gate.stops, journal # None, Failed(journal)
                 PROVE  new.draft.status = "infrastructure_blocked"
      BY <2>8 DEF AloneOK
    <3>1. proc[p].at = "rebuild"
      BY <1>1, <1>2 DEF AloneOK
    <3>2. proc[p].stopped = TRUE
      BY <1>1, <2>5, <3>1 DEF GateProcOK
    <3>3. gate \in Gates
      BY <1>1 DEF GateTypeOK
    <3> QED  BY <2>4, <2>8, <3>2, <3>3, StoppedStatus
  <2> QED  BY <1>2, <1>3, <2>8, <2>9, <2>10, GateMovedOnly
<1>4. CASE proc' = [proc EXCEPT ![p] = Gate!Idle]
  <2>1. GateProcOK(Gate!Idle, gate, journal, manifest) /\ AloneOK(Gate!Idle, gate, journal)
    BY IdleFacts DEF GateProcOK, AloneOK
  <2> QED  BY <1>2, <1>4, <2>1, IdleFacts, GateMovedOnly
<1> QED  BY <1>3, <1>4 DEF Gate!Rebuild, Gate!Set, Gate!Quit

LEMMA GatePublish ==
  ASSUME GateInv, NEW p \in Processes, Gate!Publish(p)
  PROVE  GateInv'
<1>1. GateTypeOK /\ proc[p] \in GateStates /\ GateProcOK(proc[p], gate, journal, manifest)
      /\ FilesOK(gate, manifest, journal, report)
      /\ (~overlapped => CountsOK(asked, lost, journal, proc))
      /\ (~overlapped /\ proc[p].at # "idle" => \A q \in Processes \ {p} : proc[q].at = "idle")
  BY GateFacts DEF GateInv
<1>2. /\ proc[p].at = "publish" /\ proc' = [proc EXCEPT ![p] = Gate!Idle]
      /\ report' \in {proc[p].draft, report}
      /\ UNCHANGED <<gate, head, manifest, journal, asked, lost, overlapped>>
  BY DEF Gate!Publish, Gate!Quit, Gate!Set
<1>3. report' \in Verdicts \cup {None} /\ FilesOK(gate, manifest', journal', report')
  BY <1>1, <1>2 DEF GateProcOK, FilesOK, GateTypeOK
<1>4. GateProcOK(Gate!Idle, gate, journal', manifest') /\ AloneOK(Gate!Idle, gate, journal')
  BY IdleFacts DEF GateProcOK, AloneOK
<1>5. ~overlapped' => CountsOK(asked', lost', journal', proc')
  <2> SUFFICES ASSUME ~overlapped PROVE CountsOK(asked, lost, journal, proc')
    BY <1>2
  <2>1. \A q \in Processes : proc[q].at # "append"
    BY <1>1, <1>2
  <2> QED  BY <1>1, <2>1 DEF CountsOK
<1> QED  BY <1>1, <1>2, <1>3, <1>4, <1>5, IdleFacts, GateMoved DEF GateTypeOK

LEMMA GateCrash ==
  ASSUME GateInv, NEW p \in Processes, Gate!Crash(p)
  PROVE  GateInv'
<1>1. GateTypeOK /\ proc[p] \in GateStates /\ GateProcOK(proc[p], gate, journal, manifest)
      /\ FilesOK(gate, manifest, journal, report)
      /\ (~overlapped => AloneOK(proc[p], gate, journal) /\ CountsOK(asked, lost, journal, proc))
      /\ (~overlapped /\ proc[p].at # "idle" => \A q \in Processes \ {p} : proc[q].at = "idle")
  BY GateFacts DEF GateInv
<1>2. /\ proc[p].at # "idle" /\ proc' = [proc EXCEPT ![p] = Gate!Idle]
      /\ UNCHANGED <<gate, head, manifest, report, asked, overlapped>>
  BY DEF Gate!Crash, Gate!Quit, Gate!Set
<1>3. GateProcOK(Gate!Idle, gate, journal', manifest') /\ AloneOK(Gate!Idle, gate, journal')
  BY IdleFacts DEF GateProcOK, AloneOK
<1>4. CASE proc[p].at # "append"
  <2>1. UNCHANGED <<lost, journal>>
    BY <1>4 DEF Gate!Crash
  <2>2. GateProcOK(Gate!Idle, gate, journal, manifest) /\ AloneOK(Gate!Idle, gate, journal)
    BY IdleFacts DEF GateProcOK, AloneOK
  <2> QED  BY <1>2, <1>4, <2>1, <2>2, IdleFacts, GateMovedOnly
<1>5. CASE proc[p].at = "append"
  <2> DEFINE k == proc[p].key
             torn == [Gate!Line(k, 0, None, None) EXCEPT !.kind = "torn"]
  <2>1. lost' = [lost EXCEPT ![k] = lost[k] + 1] /\ (journal' = journal \/ journal' = Gate!Appended(torn))
    BY <1>5 DEF Gate!Crash
  <2>2. k \in Gate!Keys /\ manifest # None /\ journal # None /\ journal \in Seq(Lines)
    BY <1>1, <1>5 DEF GateProcOK, GateTypeOK
  <2> HIDE DEF k
  <2>3. torn \in Lines /\ torn.kind = "torn"
    BY <2>2 DEF Gate!Line, Lines
  <2> HIDE DEF torn
  <2>4. /\ journal' \in Seq(Lines) /\ journal' # None /\ OfSource(journal', manifest)
        /\ ~TornAt(journal) => Kept(journal') = Kept(journal)
    <3>1. OfSource(journal, manifest)
      BY <1>1, <2>2 DEF FilesOK
    <3>2. /\ journal' \in Seq(Lines) /\ OfSource(journal', manifest)
          /\ ~TornAt(journal) => Kept(journal') = Kept(journal)
      BY <2>1, <2>2, <2>3, <3>1, AppendedLine
    <3> QED  BY <3>2, GateAssumption
  <2>5. FilesOK(gate, manifest', journal', report')
    BY <1>1, <1>2, <2>2, <2>4 DEF FilesOK
  <2>6. lost' \in Tallies
    BY <1>1, <2>1, <2>2 DEF GateTypeOK, Tallies
  <2>7. ~overlapped' => CountsOK(asked', lost', journal', proc')
    <3> SUFFICES ASSUME ~overlapped, NEW x \in Gate!Keys
                 PROVE  asked[x] <= 1 + lost'[x] /\ (asked[x] <= lost'[x] \/ Answered(journal', x))
      BY <1>2, <2>4 DEF CountsOK
    <3>1. asked \in Tallies /\ lost \in Tallies
      BY <1>1 DEF GateTypeOK
    <3>2. Kept(journal') = Kept(journal)
      BY <1>1, <1>5, <2>4 DEF AloneOK
    <3>3. asked[x] <= 1 + lost[x] /\ asked[x] \in Nat /\ lost[x] \in Nat
      BY <1>1, <3>1 DEF CountsOK, Tallies
    <3>4. CASE x = k
      <4>1. lost'[x] = lost[x] + 1
        BY <2>1, <3>1, <3>4 DEF Tallies
      <4> QED  BY <3>3, <4>1
    <3>5. CASE x # k
      <4>1. lost'[x] = lost[x]
        BY <2>1, <3>1, <3>5 DEF Tallies
      <4>2. ~ \E r \in Processes : proc[r].at = "append" /\ proc[r].key = x
        <5>1. \A r \in Processes : proc[r].at = "append" => r = p
          BY <1>1, <1>2
        <5> QED  BY <3>5, <5>1 DEF k
      <4>3. asked[x] <= lost[x] \/ Answered(journal, x)
        BY <1>1, <4>2 DEF CountsOK
      <4> QED  BY <3>2, <3>3, <4>1, <4>3 DEF Answered
    <3> QED  BY <3>4, <3>5
  <2> QED  BY <1>1, <1>2, <1>3, <2>4, <2>5, <2>6, <2>7, IdleFacts, GateMoved DEF GateTypeOK
<1> QED  BY <1>4, <1>5

LEMMA GateInit ==
  ASSUME Gate!Init
  PROVE  GateInv
<1>1. GateTypeOK
  BY IdleFacts DEF GateTypeOK, Gate!Init, Tallies
<1>2. \A p \in Processes : proc[p] = Gate!Idle
  BY DEF Gate!Init
<1>3. \A p \in Processes : GateProcOK(proc[p], gate, journal, manifest) /\ AloneOK(proc[p], gate, journal)
  BY <1>2, IdleFacts DEF GateProcOK, AloneOK
<1>4. FilesOK(gate, manifest, journal, report)
  BY DEF Gate!Init, FilesOK
<1>5. CountsOK(asked, lost, journal, proc)
  BY DEF Gate!Init, CountsOK
<1> QED  BY <1>1, <1>2, <1>3, <1>4, <1>5, IdleFacts DEF GateInv

LEMMA GateStep ==
  ASSUME GateInv, Gate!Next
  PROVE  GateInv'
<1>1. CASE Gate!Checkout
  <2>1. head' \in Commits /\ UNCHANGED <<gate, manifest, journal, report, proc, asked, lost, overlapped>>
    BY <1>1 DEF Gate!Checkout, Gate!Files
  <2> QED  BY <2>1 DEF GateInv, GateTypeOK
<1>2. ASSUME NEW p \in Processes, Gate!Step(p)
      PROVE  GateInv'
  BY <1>2, GateStart, GateCreates, GateAsk, GatePersist, GateRebuild, GatePublish, GateCrash DEF Gate!Step
<1> QED  BY <1>1, <1>2 DEF Gate!Next

\* What the invariant says of a state is what Verdicts promises of it.
LEMMA GateInvariants ==
  ASSUME GateInv
  PROVE  Gate!PassedIsEarned /\ Gate!AskedOnce /\ Gate!OneSource
<1>1. FilesOK(gate, manifest, journal, report) /\ GateTypeOK
  BY DEF GateInv
<1>2. Gate!PassedIsEarned
  <2> SUFFICES ASSUME report # None, report.status = "passed"
               PROVE  /\ {line.key : line \in report.traces} = Gate!Keys
                      /\ \A line \in report.traces :
                           /\ Gate!Score(line.key, line.outcome) # "wrong"
                           /\ line.outcome \notin Gate!Infrastructure
                           /\ Gate!Expects(line.key) = "ABSTAIN" => line.outcome = "abstained"
    BY DEF Gate!PassedIsEarned
  <2>1. Earned(gate, report.traces)
    BY <1>1 DEF FilesOK
  <2> QED  BY <2>1, ScoreFacts DEF Earned
<1>3. Gate!AskedOnce
  <2>1. ~overlapped => CountsOK(asked, lost, journal, proc)
    BY DEF GateInv
  <2> QED  BY <2>1 DEF CountsOK, Gate!AskedOnce
<1>4. Gate!OneSource
  <2>1. journal # None => OfSource(journal, manifest)
    BY <1>1 DEF FilesOK
  <2>2. report # None => report.commit = manifest
    BY <1>1 DEF FilesOK
  <2> QED  BY <2>1, <2>2, JournalFacts DEF OfSource, Gate!OneSource
<1> QED  BY <1>2, <1>3, <1>4

\* The steps that InfrastructureIsFinal and ReportIsFinal forbid.
Finishes ==
  journal # None /\ gate.stops /\ ~overlapped' /\ Gate!HasInfrastructure
    => /\ asked' = asked
       /\ report' # report => report'.status = "infrastructure_blocked"
KeepsReport == report # None => report' = report

\* No step asks in an attempt that has stopped, or replaces a report that is out.
LEMMA GateFinal ==
  ASSUME GateInv, Gate!Next
  PROVE  Finishes /\ KeepsReport
<1>1. CASE Gate!Checkout
  BY <1>1 DEF Gate!Checkout, Gate!Files, Finishes, KeepsReport
<1>2. ASSUME NEW p \in Processes, Gate!Step(p)
      PROVE  Finishes /\ KeepsReport
  <2>1. ~overlapped => AloneOK(proc[p], gate, journal)
    BY GateFacts
  <2>2. CASE \/ Gate!Start(p) \/ Gate!CreateManifest(p) \/ Gate!CreateJournal(p)
             \/ Gate!Persist(p) \/ Gate!Rebuild(p) \/ Gate!Crash(p)
    <3>1. asked' = asked /\ report' = report
      BY <2>2 DEF Gate!Start, Gate!CreateManifest, Gate!CreateJournal, Gate!Persist, Gate!Rebuild, Gate!Crash, Gate!Files
    <3> QED  BY <3>1 DEF Finishes, KeepsReport
  <2>3. CASE Gate!Ask(p)
    <3>1. proc[p].at = "ask" /\ report' = report /\ overlapped' = overlapped
      BY <2>3 DEF Gate!Ask, Gate!Files
    <3>2. ~(journal # None /\ gate.stops /\ ~overlapped /\ Gate!HasInfrastructure)
      BY <2>1, <3>1, JournalFacts DEF AloneOK
    <3> QED  BY <3>1, <3>2 DEF Finishes, KeepsReport
  <2>4. CASE Gate!Publish(p)
    <3>1. /\ proc[p].at = "publish" /\ asked' = asked /\ overlapped' = overlapped
          /\ report' = IF report = None THEN proc[p].draft ELSE report
      BY <2>4 DEF Gate!Publish, Gate!Linkable
    <3>2. journal # None /\ gate.stops /\ ~overlapped /\ Gate!HasInfrastructure =>
            proc[p].draft.status = "infrastructure_blocked"
      BY <2>1, <3>1, JournalFacts DEF AloneOK
    <3> QED  BY <3>1, <3>2 DEF Finishes, KeepsReport
  <2> QED  BY <1>2, <2>2, <2>3, <2>4 DEF Gate!Step
<1> QED  BY <1>1, <1>2 DEF Gate!Next

\* The promises of the evaluation gates (durable-journal.ts).
LEMMA GateHolds ==
  Gate!Spec => /\ [](Gate!PassedIsEarned /\ Gate!AskedOnce /\ Gate!OneSource)
               /\ Gate!InfrastructureIsFinal /\ Gate!ReportIsFinal
<1>1. Gate!Init => GateInv
  BY GateInit
<1>2. GateInv /\ [Gate!Next]_Gate!vars => GateInv'
  <2>1. GateInv /\ UNCHANGED Gate!vars => GateInv'
    BY DEF Gate!vars, GateInv, GateTypeOK
  <2> QED  BY <2>1, GateStep
<1>3. GateInv /\ Gate!Next => Finishes /\ KeepsReport
  BY GateFinal
<1>4. GateInv => Gate!PassedIsEarned /\ Gate!AskedOnce /\ Gate!OneSource
  BY GateInvariants
<1>5. Gate!Spec => [](Gate!PassedIsEarned /\ Gate!AskedOnce /\ Gate!OneSource)
  BY <1>1, <1>2, <1>4, PTL DEF Gate!Spec
<1>6. Gate!Spec => [][Finishes]_Gate!vars /\ [][KeepsReport]_Gate!vars
  BY <1>1, <1>2, <1>3, PTL DEF Gate!Spec
<1>7. /\ [][Finishes]_Gate!vars => Gate!InfrastructureIsFinal
      /\ [][KeepsReport]_Gate!vars => Gate!ReportIsFinal
  BY DEF Finishes, KeepsReport, Gate!InfrastructureIsFinal, Gate!ReportIsFinal
<1> QED  BY <1>5, <1>6, <1>7

-----------------------------------------------------------------------------
(* AcceptanceHarness: what a receipt stands for.                           *)

\* A report of what was measured (m) of what was declared (d), under way and ended.
UnderWay(d, m) == [declaration : {d}, measurements : {m}, state : {"incomplete"}, marker : {None}]
Ended(d, m) == [declaration : {d}, measurements : {m}, state : {"complete", "incomplete"}, marker : {None, m}]

\* Reads of the database (st) for cases that are expected.
Lookups(ex, st) == Seq([case : {ex[i].case : i \in DOMAIN ex}, writes : {st}])

HarnessInv ==
  /\ stage \in {"running", "finished"} => snapshot = declaration
  /\ stage = "running" => run \in UnderWay(declaration, served)
  /\ stage = "finished" =>
       receipt \in Ended(declaration, served) /\ (receipt.state = "complete" => ~aborted)
  /\ stage \notin {"finished", "evaluated"} => observations = <<>>
  /\ observations \in Lookups(expected, store)
  /\ IsFiniteSet(store)
  /\ evaluation # None => stage = "evaluated"
  /\ stage \in {"new", "declared"} => served = <<>>
  /\ Harness!AcceptanceIsEarned

LEMMA HarnessCardinality ==
  ASSUME NEW S
  PROVE  Harness!Cardinality(S) = Cardinality(S)
BY DEF Harness!Cardinality, Cardinality

LEMMA SealedShape ==
  ASSUME NEW d, NEW m, NEW r \in UnderWay(d, m)
  PROVE  /\ r \in Ended(d, m) /\ r.state = "incomplete" /\ r.measurements = m
         /\ [r EXCEPT !.state = "complete", !.marker = r.measurements] \in Ended(d, m)
BY DEF UnderWay, Ended

LEMMA MeasuredShape ==
  ASSUME NEW d, NEW m, NEW r \in UnderWay(d, m), NEW n
  PROVE  [r EXCEPT !.measurements = n] \in UnderWay(d, n)
BY DEF UnderWay

LEMMA ContinueStep ==
  ASSUME NEW input, NEW r \in UnderWay(declaration', served'), Harness!Continue(r, input), aborted' = aborted
  PROVE  /\ stage' \in {"running", "finished"}
         /\ stage' = "running" => run' \in UnderWay(declaration', served')
         /\ stage' = "finished" =>
              receipt' \in Ended(declaration', served') /\ (receipt'.state = "complete" => ~aborted')
<1>1. CASE ~aborted /\ Len(r.measurements) < Len(input.cases) /\ ~Harness!Erred(r)
  BY <1>1 DEF Harness!Continue
<1>2. CASE ~(~aborted /\ Len(r.measurements) < Len(input.cases) /\ ~Harness!Erred(r))
  <2> DEFINE sealed == [r EXCEPT !.state = "complete", !.marker = r.measurements]
  <2>1. r \in Ended(declaration', served') /\ r.state = "incomplete" /\ sealed \in Ended(declaration', served')
    BY SealedShape
  <2>2. /\ stage' = "finished" /\ receipt' = run'
        /\ run' = IF Harness!Completed(r, input) THEN sealed ELSE r
    BY <1>2 DEF Harness!Continue
  <2> HIDE DEF sealed
  <2>3. Harness!Completed(r, input) => ~aborted'
    BY DEF Harness!Completed
  <2> QED  BY <2>1, <2>2, <2>3
<1> QED  BY <1>1, <1>2

\* The rows of one call are finitely many.
LEMMA StoreStaysFinite ==
  ASSUME NEW r \in Responses, NEW v, IsFiniteSet(store)
  PROVE  IsFiniteSet(store \cup {[kind |-> w.kind, key |-> w.key, conversation |-> v] : w \in r.writes})
<1> DEFINE Made(w) == [kind |-> w.kind, key |-> w.key, conversation |-> v]
           rows == {Made(w) : w \in r.writes}
           f == [w \in r.writes |-> Made(w)]
<1>1. f \in Surjection(r.writes, rows)
  BY DEF Surjection
<1>2. IsFiniteSet(r.writes)
  BY HarnessAssumption
<1> HIDE DEF f
<1>3. IsFiniteSet(rows)
  BY <1>1, <1>2, FS_Surjection
<1> QED  BY <1>3, FS_Union

LEMMA Quiet ==
  ASSUME HarnessInv, evaluation = None, evaluation' = evaluation, IsFiniteSet(store'),
         observations' = <<>>,
         stage' \in {"running", "finished"} => snapshot' = declaration',
         stage' = "running" => run' \in UnderWay(declaration', served'),
         stage' = "finished" =>
           receipt' \in Ended(declaration', served') /\ (receipt'.state = "complete" => ~aborted'),
         stage' \in {"new", "declared"} => served' = <<>>
  PROVE  HarnessInv'
<1>1. observations' \in Lookups(expected', store')
  BY DEF Lookups
<1>2. Harness!AcceptanceIsEarned'
  BY DEF Harness!AcceptanceIsEarned
<1> QED  BY <1>1, <1>2 DEF HarnessInv

LEMMA RunSteps ==
  ASSUME HarnessInv,
         \/ Harness!DeclareRun \/ Harness!RunSuite \/ Harness!Abort
         \/ \E r \in Responses : Harness!Respond(r)
         \/ \E input \in Inputs : Harness!ChangeInputs(input)
  PROVE  HarnessInv'
<1>1. CASE Harness!DeclareRun
  BY <1>1, Quiet DEF HarnessInv, Harness!DeclareRun
<1>2. CASE Harness!RunSuite
  <2>1. CASE Harness!Declarable(inputs) /\ inputs = declaration
    <3> DEFINE r == [declaration |-> inputs, measurements |-> <<>>, state |-> "incomplete", marker |-> None]
    <3>1. r \in UnderWay(declaration', served')
      BY <1>2, <2>1 DEF UnderWay, HarnessInv, Harness!RunSuite
    <3>2. Harness!Continue(r, inputs) /\ aborted' = aborted
      BY <1>2, <2>1 DEF Harness!RunSuite
    <3> HIDE DEF r
    <3>3. /\ stage' \in {"running", "finished"}
          /\ stage' = "running" => run' \in UnderWay(declaration', served')
          /\ stage' = "finished" =>
               receipt' \in Ended(declaration', served') /\ (receipt'.state = "complete" => ~aborted')
      BY <3>1, <3>2, ContinueStep
    <3> QED  BY <1>2, <2>1, <3>3, Quiet DEF HarnessInv, Harness!RunSuite
  <2>2. CASE ~(Harness!Declarable(inputs) /\ inputs = declaration)
    BY <1>2, <2>2, Quiet DEF HarnessInv, Harness!RunSuite
  <2> QED  BY <2>1, <2>2
<1>3. CASE Harness!Abort
  BY <1>3, Quiet DEF HarnessInv, Harness!Abort
<1>4. ASSUME NEW r \in Responses, Harness!Respond(r)
      PROVE  HarnessInv'
  <2> DEFINE case == snapshot.cases[Len(run.measurements) + 1]
             m == Harness!Measurement(case.case, r)
             next == [run EXCEPT !.measurements = Append(run.measurements, m)]
  <2>1. /\ stage = "running" /\ served' = Append(served, m)
        /\ store' = store \cup {[kind |-> w.kind, key |-> w.key, conversation |-> case.conversation] : w \in r.writes}
        /\ Harness!Continue(next, snapshot)
        /\ UNCHANGED <<declaration, snapshot, aborted, observations, evaluation>>
    BY <1>4 DEF Harness!Respond
  <2>2. run \in UnderWay(declaration, served) /\ run.measurements = served /\ evaluation = None
        /\ observations = <<>> /\ snapshot = declaration
    BY <2>1 DEF HarnessInv, UnderWay
  <2>3. next \in UnderWay(declaration', served')
    BY <2>1, <2>2, MeasuredShape
  <2>4. IsFiniteSet(store')
    BY <2>1, StoreStaysFinite DEF HarnessInv
  <2> HIDE DEF next
  <2>5. /\ stage' \in {"running", "finished"}
        /\ stage' = "running" => run' \in UnderWay(declaration', served')
        /\ stage' = "finished" =>
             receipt' \in Ended(declaration', served') /\ (receipt'.state = "complete" => ~aborted')
    BY <2>1, <2>3, ContinueStep
  <2> QED  BY <2>1, <2>2, <2>4, <2>5, Quiet
<1>5. ASSUME NEW input \in Inputs, Harness!ChangeInputs(input)
      PROVE  HarnessInv'
  BY <1>5, Quiet DEF HarnessInv, Harness!ChangeInputs
<1> QED  BY <1>1, <1>2, <1>3, <1>4, <1>5

LEMMA ReportSteps ==
  ASSUME HarnessInv, Harness!EditReport \/ \E e \in Harness!ToSet(expected) : Harness!Observe(e.case)
  PROVE  HarnessInv'
<1>1. CASE Harness!EditReport
  <2>1. UNCHANGED <<stage, declaration, snapshot, aborted, receipt, served, store, expected, observations, evaluation>>
        /\ stage = "finished"
    BY <1>1 DEF Harness!EditReport
  <2>2. evaluation' = None
    BY <2>1 DEF HarnessInv
  <2>3. Harness!AcceptanceIsEarned'
    BY <2>2 DEF Harness!AcceptanceIsEarned
  <2> QED  BY <2>1, <2>3 DEF HarnessInv
<1>2. ASSUME NEW e \in Harness!ToSet(expected), Harness!Observe(e.case)
      PROVE  HarnessInv'
  <2> DEFINE S == [case : {expected[i].case : i \in DOMAIN expected}, writes : {store}]
             o == [case |-> e.case, writes |-> store]
  <2>1. /\ UNCHANGED <<stage, declaration, snapshot, aborted, receipt, served, store, expected, evaluation, run>>
        /\ stage = "finished" /\ observations' = Append(observations, o)
    BY <1>2 DEF Harness!Observe
  <2>2. evaluation' = None
    BY <2>1 DEF HarnessInv
  <2>3. Harness!AcceptanceIsEarned'
    BY <2>2 DEF Harness!AcceptanceIsEarned
  <2>4. o \in S
    BY DEF Harness!ToSet
  <2>5. observations \in Seq(S)
    BY DEF HarnessInv, Lookups
  <2> HIDE DEF S, o
  <2>6. observations' \in Seq(S)
    BY <2>1, <2>4, <2>5
  <2>7. observations' \in Lookups(expected', store')
    BY <2>1, <2>6 DEF S, Lookups
  <2> QED  BY <2>1, <2>3, <2>7 DEF HarnessInv
<1> QED  BY <1>1, <1>2

\* What is accepted after the run is in the database.
LEMMA AcceptedRows ==
  ASSUME NEW e, NEW st, IsFiniteSet(st),
         Cardinality(Harness!Matching(e, st)) = (IF e.durable = "no_write" THEN 0 ELSE 1)
  PROVE  LET rows == {w \in st : w.conversation = e.conversation} IN
         /\ e.durable = "no_write" => rows = {}
         /\ e.durable = "ticket" => \E w \in rows : w.kind = "ticket" /\ w.key = e.key
         /\ e.durable = "handoff" => \E w \in rows : w.kind = "handoff"
<1> DEFINE rows == {w \in st : w.conversation = e.conversation}
           M == Harness!Matching(e, st)
<1>1. IsFiniteSet(M)
  BY FS_Subset DEF Harness!Matching
<1>2. CASE e.durable = "no_write"
  <2>1. M = {}
    <3> HIDE DEF M
    <3>1. Cardinality(M) = 0
      BY <1>2 DEF M
    <3> QED  BY <1>1, <3>1, FS_EmptySet
  <2>2. M = rows
    BY <1>2 DEF Harness!Matching
  <2> QED  BY <1>2, <2>1, <2>2
<1>3. CASE e.durable # "no_write"
  <2>1. M # {}
    <3> HIDE DEF M
    <3>1. Cardinality(M) = 1
      BY <1>3 DEF M
    <3> QED  BY <3>1, FS_EmptySet
  <2>2. PICK w \in M : TRUE
    BY <2>1
  <2>3. w \in rows /\ e.durable \in {"no_write", w.kind} /\ (e.durable = "ticket" => w.key = e.key)
    BY <2>2 DEF Harness!Matching
  <2> QED  BY <1>3, <2>3
<1> QED  BY <1>2, <1>3

LEMMA EvaluateStep ==
  ASSUME HarnessInv, Harness!Evaluate
  PROVE  HarnessInv'
<1>1. /\ stage = "finished" /\ stage' = "evaluated"
      /\ evaluation' = [verified |-> Harness!Verified, accepted |-> Harness!Accepted]
      /\ UNCHANGED <<declaration, snapshot, aborted, run, receipt, served, store, expected, observations>>
  BY DEF Harness!Evaluate
<1>2. ASSUME Harness!Verified
      PROVE  /\ run.measurements = served /\ Harness!Ids(served) = Harness!Ids(declaration.cases)
             /\ snapshot = declaration /\ ~aborted /\ ~Harness!Erred(run)
  <2>1. run = receipt /\ run.state = "complete" /\ run.measurements = served
    BY <1>1, <1>2 DEF Harness!Verified, Harness!ReceiptFits, HarnessInv, Ended
  <2> QED  BY <1>1, <1>2, <2>1 DEF Harness!Verified, HarnessInv
<1>3. ASSUME Harness!Verified, Harness!Accepted, NEW e \in Harness!ToSet(expected)
      PROVE  LET rows == {w \in store : w.conversation = e.conversation} IN
             /\ e.outcome # "not_required" =>
                  \E m \in Harness!ToSet(served) : m.case = e.case /\ m.result = e.outcome
             /\ e.durable = "no_write" => rows = {}
             /\ e.durable = "ticket" => \E w \in rows : w.kind = "ticket" /\ w.key = e.key
             /\ e.durable = "handoff" => \E w \in rows : w.kind = "handoff"
  <2>1. PICK j \in DOMAIN expected : e = expected[j]
    BY DEF Harness!ToSet
  <2>2. /\ \E i \in DOMAIN run.measurements :
             /\ Harness!Of(e.case, run.measurements) = {i}
             /\ Harness!OutcomeMet(run.measurements[i], e)
        /\ Harness!ObservedOnce(e)
    BY <1>3, <2>1 DEF Harness!Accepted
  <2>3. e.outcome # "not_required" =>
          \E m \in Harness!ToSet(served) : m.case = e.case /\ m.result = e.outcome
    <3>1. PICK i \in DOMAIN run.measurements :
            Harness!Of(e.case, run.measurements) = {i} /\ Harness!OutcomeMet(run.measurements[i], e)
      BY <2>2
    <3>2. i \in DOMAIN served /\ served[i].case = e.case /\ Harness!OutcomeMet(served[i], e)
      BY <1>2, <1>3, <3>1 DEF Harness!Of
    <3> QED  BY <3>2 DEF Harness!ToSet, Harness!OutcomeMet
  <2>4. CASE e.durable = "not_required"
    BY <2>3, <2>4
  <2>5. CASE e.durable # "not_required"
    <3>1. PICK i \in DOMAIN observations : Harness!DurableMet(e, observations[i].writes)
      BY <2>2, <2>5 DEF Harness!ObservedOnce
    <3>2. observations[i].writes = store
      <4> DEFINE S == [case : {expected[k].case : k \in DOMAIN expected}, writes : {store}]
      <4>1. observations \in Seq(S)
        BY DEF HarnessInv, Lookups
      <4>2. \A o \in S : o.writes = store
        OBVIOUS
      <4> HIDE DEF S
      <4>3. observations[i] \in S
        BY <3>1, <4>1
      <4> QED  BY <4>2, <4>3
    <3>3. Cardinality(Harness!Matching(e, store)) = (IF e.durable = "no_write" THEN 0 ELSE 1)
      BY <3>1, <3>2, HarnessCardinality DEF Harness!DurableMet
    <3>4. IsFiniteSet(store)
      BY DEF HarnessInv
    <3> QED  BY <2>3, <3>3, <3>4, AcceptedRows
  <2> QED  BY <2>4, <2>5
<1>4. Harness!AcceptanceIsEarned'
  <2>1. SUFFICES ASSUME evaluation'.verified
                 PROVE  Harness!AcceptanceIsEarned'
    BY DEF Harness!AcceptanceIsEarned
  <2>2. Harness!Verified /\ (evaluation'.accepted <=> Harness!Accepted)
    BY <1>1, <2>1
  <2>3. /\ run'.measurements = served' /\ (Harness!Ids(served) = Harness!Ids(declaration.cases))'
        /\ snapshot' = declaration' /\ ~aborted' /\ ~Harness!Erred(run)'
    BY <1>1, <1>2, <2>2 DEF Harness!Ids, Harness!Erred
  <2>4. ASSUME evaluation'.accepted, NEW e \in Harness!ToSet(expected)'
        PROVE  LET rows == {w \in store' : w.conversation = e.conversation} IN
               /\ e.outcome # "not_required" =>
                    \E m \in Harness!ToSet(served)' : m.case = e.case /\ m.result = e.outcome
               /\ e.durable = "no_write" => rows = {}
               /\ e.durable = "ticket" => \E w \in rows : w.kind = "ticket" /\ w.key = e.key
               /\ e.durable = "handoff" => \E w \in rows : w.kind = "handoff"
    <3>1. Harness!Accepted /\ e \in Harness!ToSet(expected) /\ Harness!ToSet(served)' = Harness!ToSet(served)
          /\ store' = store
      BY <1>1, <2>2, <2>4 DEF Harness!ToSet
    <3> QED  BY <1>3, <2>2, <3>1
  <2> QED  BY <2>3, <2>4 DEF Harness!AcceptanceIsEarned
<1>5. observations' \in Lookups(expected', store')
  BY <1>1 DEF HarnessInv
<1> QED  BY <1>1, <1>4, <1>5 DEF HarnessInv

\* The promise of the acceptance harness (runner.ts, evaluate.ts).
LEMMA HarnessHolds == Harness!Spec => []Harness!AcceptanceIsEarned
<1>1. Harness!Init => HarnessInv
  <2> SUFFICES ASSUME Harness!Init PROVE HarnessInv
    OBVIOUS
  <2>1. observations \in Lookups(expected, store)
    BY DEF Harness!Init, Lookups
  <2>2. IsFiniteSet(store)
    BY FS_EmptySet DEF Harness!Init
  <2> QED  BY <2>1, <2>2 DEF Harness!Init, HarnessInv, Harness!AcceptanceIsEarned
<1>2. HarnessInv /\ [Harness!Next]_Harness!vars => HarnessInv'
  <2> SUFFICES ASSUME HarnessInv, [Harness!Next]_Harness!vars PROVE HarnessInv'
    OBVIOUS
  <2>1. CASE UNCHANGED Harness!vars
    <3>1. Harness!AcceptanceIsEarned'
      BY <2>1 DEF HarnessInv, Harness!vars, Harness!AcceptanceIsEarned, Harness!ToSet, Harness!Ids, Harness!Erred
    <3> QED  BY <2>1, <3>1 DEF HarnessInv, Harness!vars
  <2>2. CASE Harness!Next
    BY <2>2, RunSteps, ReportSteps, EvaluateStep DEF Harness!Next
  <2> QED  BY <2>1, <2>2
<1>3. HarnessInv => Harness!AcceptanceIsEarned
  BY DEF HarnessInv
<1> QED  BY <1>1, <1>2, <1>3, PTL DEF Harness!Spec

-----------------------------------------------------------------------------
(* RuntimeProof: what the journal says of the runtime.                     *)

Whole(f) == {e \in Proof!ToSet(f) : ~e.torn}
ReservedAt(f, i) == \E e \in Whole(f) : e.type = "case_attempt_started" /\ e.ordinal = i
PassedAt(f, i) == \E e \in Whole(f) : e.type = "case_completed" /\ e.ordinal = i /\ e.passed
Reserves(f, n) == \A i \in 1..n : ReservedAt(f, i)
Records(f, ps) == \A i \in DOMAIN ps : ps[i] => PassedAt(f, i)

\* A journal that holds no partial line and says nothing of the whole run yet.
Running(f) == \A e \in Proof!ToSet(f) : ~e.torn /\ e.type # "run_completed"

\* What a PASS stands for, d runs having been dispatched.
Proven(f, d) ==
  /\ d = Len(ProofCases)
  /\ \A i \in 1..Len(ProofCases) : ReservedAt(f, i) /\ PassedAt(f, i)
  /\ \A i \in 1..Len(f) - 1 : ~f[i].torn
Passing(f) == \E e \in Whole(f) : e.type = "run_completed" /\ e.passed

\* How far a process at s has come: n cases reserved, d dispatched, ps completed.
Progress(s, n, d, ps) ==
  /\ s \in {"opened", "composing"} => n = 0 /\ d = 0 /\ ps = <<>>
  /\ s = "case" => d = n /\ Len(ps) = n
  /\ s = "dispatch" => n = d + 1 /\ Len(ps) = d
  /\ s = "running" => d = n /\ n = Len(ps) + 1
  /\ s = "summary" => d = n /\ Len(ps) = n /\ n = Len(ProofCases)

ProofInv ==
  /\ step \in {"idle", "opened", "composing", "case", "dispatch", "running", "failing", "summary", "blocked",
               "unjournaled", "exited"}
  /\ attempts \in 0..Len(ProofCases) /\ dispatched \in Nat /\ passes \in Seq(BOOLEAN)
  /\ file = None => dispatched = 0 /\ step \in {"idle", "exited"} /\ verdict # "passed"
  /\ file # None =>
       /\ file \in Seq(Events)
       /\ \E n \in 0..Len(ProofCases) : dispatched <= n /\ (n > 0 => ReservedAt(file, n))
       /\ verdict = "passed" \/ Passing(file) => Proven(file, dispatched)
  /\ step \notin {"idle", "exited"} =>
       /\ verdict = None /\ dispatched <= attempts
       /\ Reserves(file, attempts) /\ Records(file, passes)
       /\ Progress(step, attempts, dispatched, passes)
       /\ step # "unjournaled" => Running(file)

\* What the invariant says of a state is what Verdicts promises of it.
LEMMA ProofInvariants ==
  ASSUME ProofInv
  PROVE  Proof!AttemptsAreReserved /\ Proof!PassIsComplete
<1>1. CASE file = None
  <2>1. Proof!AttemptsAreReserved
    <3>1. 0 \in 0..Len(ProofCases) /\ dispatched <= 0
      BY <1>1, ProofAssumption DEF ProofInv
    <3> QED  BY <3>1 DEF Proof!AttemptsAreReserved
  <2>2. Proof!PassIsComplete
    BY <1>1 DEF ProofInv, Proof!PassIsComplete, Proof!OfType, Proof!Recoverable
  <2> QED  BY <2>1, <2>2
<1>2. CASE file # None
  <2>1. \A type : Proof!OfType(type) = {e \in Whole(file) : e.type = type}
    BY <1>2 DEF Proof!OfType, Proof!Recoverable, Whole
  <2>2. Proof!AttemptsAreReserved
    <3>1. PICK n \in 0..Len(ProofCases) : dispatched <= n /\ (n > 0 => ReservedAt(file, n))
      BY <1>2 DEF ProofInv
    <3>2. n > 0 => \E e \in Proof!OfType("case_attempt_started") : e.ordinal = n
      BY <2>1, <3>1 DEF ReservedAt
    <3> QED  BY <3>1, <3>2 DEF Proof!AttemptsAreReserved
  <2>3. Proof!PassIsComplete
    <3> SUFFICES ASSUME verdict = "passed" \/ \E e \in Proof!OfType("run_completed") : e.passed
                 PROVE  /\ dispatched = Len(ProofCases)
                        /\ \A i \in 1..Len(ProofCases) :
                             /\ \E e \in Proof!OfType("case_attempt_started") : e.ordinal = i
                             /\ \E e \in Proof!OfType("case_completed") : e.ordinal = i /\ e.passed
                        /\ \A i \in 1..Len(file) - 1 : ~file[i].torn
      BY DEF Proof!PassIsComplete
    <3>1. Proven(file, dispatched)
      BY <1>2, <2>1 DEF ProofInv, Passing
    <3>2. ASSUME NEW i \in 1..Len(ProofCases)
          PROVE  /\ \E e \in Proof!OfType("case_attempt_started") : e.ordinal = i
                 /\ \E e \in Proof!OfType("case_completed") : e.ordinal = i /\ e.passed
      BY <2>1, <3>1 DEF Proven, ReservedAt, PassedAt
    <3> QED  BY <3>1, <3>2 DEF Proven
  <2> QED  BY <2>2, <2>3
<1> QED  BY <1>1, <1>2

\* One more event at the end of the file.
LEMMA AppendedFacts ==
  ASSUME NEW f \in Seq(Events), NEW e \in Events
  PROVE  /\ Append(f, e) \in Seq(Events) /\ Append(f, e) # None
         /\ Proof!ToSet(Append(f, e)) = Proof!ToSet(f) \cup {e}
         /\ Whole(f) \subseteq Whole(Append(f, e))
         /\ ~e.torn => e \in Whole(Append(f, e))
         /\ Len(Append(f, e)) = Len(f) + 1
         /\ \A i \in 1..Len(f) : Append(f, e)[i] = f[i] /\ f[i] \in Proof!ToSet(f)
<1> DEFINE g == Append(f, e)
<1>1. /\ g \in Seq(Events) /\ Len(g) = Len(f) + 1 /\ g[Len(f) + 1] = e
      /\ \A i \in 1..Len(f) : g[i] = f[i]
  OBVIOUS
<1>2. DOMAIN f = 1..Len(f) /\ DOMAIN g = 1..Len(f) + 1 /\ Len(f) \in Nat
  BY <1>1
<1> HIDE DEF g
<1>3. Proof!ToSet(g) = Proof!ToSet(f) \cup {e}
  <2>1. Proof!ToSet(g) = {g[i] : i \in 1..Len(f) + 1} /\ Proof!ToSet(f) = {f[i] : i \in 1..Len(f)}
    BY <1>2 DEF Proof!ToSet
  <2>2. Proof!ToSet(g) \subseteq Proof!ToSet(f) \cup {e}
    <3> SUFFICES ASSUME NEW i \in 1..Len(f) + 1 PROVE g[i] \in Proof!ToSet(f) \cup {e}
      BY <2>1
    <3>1. i = Len(f) + 1 \/ i \in 1..Len(f)
      BY <1>2
    <3> QED  BY <1>1, <2>1, <3>1
  <2>3. Proof!ToSet(f) \cup {e} \subseteq Proof!ToSet(g)
    <3>1. \A i \in 1..Len(f) : i \in 1..Len(f) + 1 /\ f[i] = g[i]
      BY <1>1, <1>2
    <3>2. Len(f) + 1 \in 1..Len(f) + 1
      BY <1>2
    <3> QED  BY <1>1, <2>1, <3>1, <3>2
  <2> QED  BY <2>2, <2>3
<1>4. g # None
  BY <1>1, ProofAssumption
<1> QED  BY <1>1, <1>2, <1>3, <1>4 DEF g, Whole, Proof!ToSet

LEMMA Grown ==
  ASSUME NEW f, NEW g, Whole(f) \subseteq Whole(g)
  PROVE  /\ \A n : Reserves(f, n) => Reserves(g, n)
         /\ \A i : ReservedAt(f, i) => ReservedAt(g, i)
         /\ \A i : PassedAt(f, i) => PassedAt(g, i)
         /\ \A ps : Records(f, ps) => Records(g, ps)
BY DEF Reserves, Records, ReservedAt, PassedAt

Steps == {"idle", "opened", "composing", "case", "dispatch", "running", "failing", "summary", "blocked",
          "unjournaled", "exited"}
Passes(e) == e.type = "run_completed" /\ e.passed /\ ~e.torn

\* A step of a running process that writes at most e.
LEMMA JournalStep ==
  ASSUME ProofInv, step \notin {"idle", "exited", "unjournaled"}, NEW e \in Events,
         file' \in {file, Append(file, e)}, dispatched' = dispatched,
         attempts' \in 0..Len(ProofCases), passes' \in Seq(BOOLEAN), step' \in Steps \ {"idle"},
         Passes(e) \/ verdict' = "passed" => Proven(file', dispatched),
         step' # "exited" =>
           /\ verdict' = None /\ dispatched <= attempts'
           /\ Reserves(file', attempts') /\ Records(file', passes')
           /\ Progress(step', attempts', dispatched, passes'),
         step' \notin {"exited", "unjournaled"} /\ file' # file => ~e.torn /\ e.type # "run_completed"
  PROVE  ProofInv'
<1>1. file # None /\ file \in Seq(Events) /\ Running(file)
  BY DEF ProofInv
<1>2. /\ file' \in Seq(Events) /\ file' # None
      /\ Proof!ToSet(file') \subseteq Proof!ToSet(file) \cup {e}
      /\ file' # file \/ Proof!ToSet(file') = Proof!ToSet(file)
      /\ Whole(file) \subseteq Whole(file')
  BY <1>1, AppendedFacts
<1>3. PICK n \in 0..Len(ProofCases) : dispatched <= n /\ (n > 0 => ReservedAt(file, n))
  BY <1>1 DEF ProofInv
<1>4. dispatched' <= n /\ (n > 0 => ReservedAt(file', n))
  BY <1>2, <1>3, Grown
<1>5. Passing(file') => Passes(e)
  BY <1>1, <1>2 DEF Passing, Passes, Whole, Running
<1>6. step' \notin {"exited", "unjournaled"} => Running(file')
  BY <1>1, <1>2 DEF Running
<1>7. verdict' = "passed" \/ Passing(file') => Proven(file', dispatched')
  BY <1>5
<1>8. dispatched' \in Nat
  BY DEF ProofInv
<1> QED  BY <1>2, <1>4, <1>6, <1>7, <1>8 DEF ProofInv, Steps

LEMMA EventFacts ==
  ASSUME ProofInv,
         NEW type \in {"run_started", "case_attempt_started", "case_completed", "run_completed", "run_blocked"}
  PROVE  /\ Proof!Event(type) \in Events
         /\ Proof!Event(type).type = type /\ Proof!Event(type).ordinal = attempts
         /\ ~Proof!Event(type).torn /\ ~Proof!Event(type).passed
BY DEF Proof!Event, Events, ProofInv

LEMMA EventShape ==
  ASSUME NEW e \in Events
  PROVE  /\ [e EXCEPT !.torn = TRUE] \in Events /\ [e EXCEPT !.torn = TRUE].torn
         /\ \A p \in BOOLEAN : /\ [e EXCEPT !.passed = p] \in Events
                               /\ [e EXCEPT !.passed = p].type = e.type
                               /\ [e EXCEPT !.passed = p].ordinal = e.ordinal
                               /\ ([e EXCEPT !.passed = p].passed <=> p)
                               /\ ([e EXCEPT !.passed = p].torn <=> e.torn)
         /\ \A n \in 0..Len(ProofCases) : /\ [e EXCEPT !.ordinal = n] \in Events
                                          /\ [e EXCEPT !.ordinal = n].type = e.type
                                          /\ [e EXCEPT !.ordinal = n].ordinal = n
                                          /\ ([e EXCEPT !.ordinal = n].torn <=> e.torn)
BY DEF Events

\* A write that fails.
LEMMA BrokenStep ==
  ASSUME ProofInv, step \notin {"idle", "exited", "unjournaled"}, NEW e \in Events,
         Proof!Broken(e), Passes(e) => Proven(file', dispatched),
         UNCHANGED <<attempts, passes, verdict, dispatched>>
  PROVE  ProofInv'
<1> DEFINE t == [e EXCEPT !.torn = TRUE]
<1>1. t \in Events /\ t.torn
  BY EventShape
<1>2. file' \in {file, Append(file, t), Append(file, e)} /\ step' = "unjournaled"
  BY DEF Proof!Broken, Proof!Torn
<1> HIDE DEF t
<1>3. file \in Seq(Events) /\ verdict = None
  BY DEF ProofInv
<1>4. Whole(file) \subseteq Whole(file')
  BY <1>1, <1>2, <1>3, AppendedFacts
<1>5. Reserves(file', attempts) /\ Records(file', passes) /\ dispatched <= attempts
  BY <1>4, Grown DEF ProofInv
<1>6. Progress("unjournaled", attempts, dispatched, passes)
  BY DEF Progress
<1>7. attempts' \in 0..Len(ProofCases) /\ passes' \in Seq(BOOLEAN)
  BY DEF ProofInv
<1>8. CASE file' \in {file, Append(file, e)}
  BY <1>2, <1>3, <1>5, <1>6, <1>7, <1>8, JournalStep, ProofAssumption DEF Steps
<1>9. CASE file' \in {file, Append(file, t)}
  BY <1>1, <1>2, <1>3, <1>5, <1>6, <1>7, <1>9, JournalStep, ProofAssumption DEF Steps, Passes
<1> QED  BY <1>2, <1>8, <1>9

LEMMA LaunchSteps ==
  ASSUME ProofInv, Proof!LaunchRefused \/ Proof!Launch
  PROVE  ProofInv'
<1>1. /\ attempts' = 0 /\ passes' = <<>> /\ dispatched' = dispatched /\ step \in {"idle", "exited"}
      /\ \/ file' = file /\ step' = "exited" /\ verdict' = "blocked"
         \/ file = None /\ file' = <<>> /\ step' = "opened" /\ verdict' = None
  BY DEF Proof!LaunchRefused, Proof!Launch, Proof!Started, Proof!Exit, Proof!NewFile
<1>2. attempts' \in 0..Len(ProofCases) /\ passes' \in Seq(BOOLEAN) /\ dispatched' \in Nat
  BY <1>1, ProofAssumption DEF ProofInv
<1>3. CASE file' = file /\ step' = "exited" /\ verdict' = "blocked"
  BY <1>1, <1>2, <1>3 DEF ProofInv
<1>4. CASE file = None /\ file' = <<>> /\ step' = "opened" /\ verdict' = None
  <2>1. file' \in Seq(Events) /\ Proof!ToSet(file') = {} /\ Whole(file') = {}
    BY <1>4 DEF Proof!ToSet, Whole
  <2>2. file' # None /\ verdict' # "passed"
    BY <1>4, <2>1, ProofAssumption
  <2>3. dispatched' = 0
    BY <1>1, <1>4 DEF ProofInv
  <2>4. 0 \in 0..Len(ProofCases) /\ dispatched' <= 0
    BY <2>3, ProofAssumption
  <2>5. Running(file') /\ ~Passing(file')
    BY <2>1 DEF Running, Passing
  <2>6. Reserves(file', attempts') /\ Records(file', passes') /\ Progress(step', attempts', dispatched', passes')
    BY <1>1, <1>4, <2>3 DEF Reserves, Records, Progress
  <2> QED  BY <1>1, <1>2, <1>4, <2>1, <2>2, <2>3, <2>4, <2>5, <2>6 DEF ProofInv
<1> QED  BY <1>1, <1>3, <1>4

LEMMA QuietSteps ==
  ASSUME ProofInv, Proof!Compose \/ Proof!CloseRuntime \/ Proof!Die
  PROVE  ProofInv'
<1>1. /\ UNCHANGED <<file, attempts, passes, dispatched>>
      /\ step \notin {"idle", "exited"}
      /\ \/ step' = "exited" /\ verdict' = None
         \/ /\ verdict' = verdict /\ step # "unjournaled"
            /\ \/ step = "composing" /\ step' = "case"
               \/ step = "case" /\ attempts = Len(ProofCases) /\ step' = "summary"
               \/ step' = "blocked"
  BY DEF Proof!Compose, Proof!CloseRuntime, Proof!Die
<1>2. attempts' \in 0..Len(ProofCases) /\ passes' \in Seq(BOOLEAN)
  BY <1>1 DEF ProofInv
<1>3. CASE step' = "exited" /\ verdict' = None
  <2>1. verdict' # "passed"
    BY <1>3, ProofAssumption
  <2> QED  BY <1>1, <1>3, <2>1 DEF ProofInv
<1>4. CASE verdict' = verdict /\ step # "unjournaled" /\ step' # "exited"
  <2> DEFINE e == Proof!Event("run_started")
  <2>1. e \in Events /\ ~Passes(e)
    BY EventFacts DEF Passes
  <2>2. Progress(step', attempts', dispatched', passes')
    BY <1>1, <1>4 DEF ProofInv, Progress
  <2>3. verdict' = None /\ verdict' # "passed" /\ step' \in Steps \ {"idle"}
    BY <1>1, <1>4, ProofAssumption DEF ProofInv, Steps
  <2>4. dispatched <= attempts' /\ Reserves(file', attempts') /\ Records(file', passes')
    BY <1>1 DEF ProofInv
  <2> HIDE DEF e
  <2> QED  BY <1>1, <1>2, <1>4, <2>1, <2>2, <2>3, <2>4, JournalStep
<1> QED  BY <1>1, <1>3, <1>4

LEMMA RunStartedStep ==
  ASSUME ProofInv, Proof!RunStarted
  PROVE  ProofInv'
<1> DEFINE e == Proof!Event("run_started")
<1>1. e \in Events /\ e.type = "run_started" /\ ~e.torn /\ ~Passes(e)
  BY EventFacts DEF Passes
<1>2. /\ step = "opened" /\ UNCHANGED <<attempts, passes, verdict, dispatched>>
      /\ (file' = Append(file, e) /\ step' = "composing") \/ Proof!Broken(e)
  BY DEF Proof!RunStarted, Proof!Journaled
<1> HIDE DEF e
<1>3. CASE Proof!Broken(e)
  BY <1>1, <1>2, <1>3, BrokenStep
<1>4. CASE file' = Append(file, e) /\ step' = "composing"
  <2>1. Whole(file) \subseteq Whole(file')
    BY <1>1, <1>2, <1>4, AppendedFacts DEF ProofInv
  <2>2. Reserves(file', attempts') /\ Records(file', passes') /\ dispatched <= attempts'
        /\ Progress(step', attempts', dispatched, passes')
    BY <1>2, <1>4, <2>1, Grown DEF ProofInv, Progress
  <2>3. attempts' \in 0..Len(ProofCases) /\ passes' \in Seq(BOOLEAN) /\ verdict' = None /\ verdict' # "passed"
    BY <1>2, ProofAssumption DEF ProofInv
  <2> QED  BY <1>1, <1>2, <1>4, <2>2, <2>3, JournalStep DEF Steps
<1> QED  BY <1>2, <1>3, <1>4

LEMMA ReserveStep ==
  ASSUME ProofInv, Proof!Reserve
  PROVE  ProofInv'
<1> DEFINE e0 == Proof!Event("case_attempt_started")
           e == [e0 EXCEPT !.ordinal = attempts + 1]
<1>1. step = "case" /\ attempts < Len(ProofCases) /\ UNCHANGED <<passes, verdict, dispatched>>
      /\ \/ file' = Append(file, e) /\ attempts' = attempts + 1 /\ step' = "dispatch"
         \/ Proof!Broken(e) /\ UNCHANGED attempts
  BY DEF Proof!Reserve
<1>2. attempts + 1 \in 0..Len(ProofCases) /\ attempts \in Nat
  BY <1>1, ProofAssumption DEF ProofInv
<1>3. e0 \in Events /\ e0.type = "case_attempt_started" /\ ~e0.torn
  BY EventFacts
<1> HIDE DEF e0
<1>4. e \in Events /\ e.type = "case_attempt_started" /\ e.ordinal = attempts + 1 /\ ~e.torn
  BY <1>2, <1>3, EventShape DEF Events
<1> HIDE DEF e
<1>5. ~Passes(e)
  BY <1>4 DEF Passes
<1>6. CASE Proof!Broken(e) /\ UNCHANGED attempts
  BY <1>1, <1>4, <1>5, <1>6, BrokenStep
<1>7. CASE file' = Append(file, e) /\ attempts' = attempts + 1 /\ step' = "dispatch"
  <2>1. Whole(file) \subseteq Whole(file') /\ e \in Whole(file')
    BY <1>1, <1>4, <1>7, AppendedFacts DEF ProofInv
  <2>2. Reserves(file', attempts')
    <3> SUFFICES ASSUME NEW i \in 1..attempts + 1 PROVE ReservedAt(file', i)
      BY <1>7 DEF Reserves
    <3>1. CASE i = attempts + 1
      BY <1>4, <2>1, <3>1 DEF ReservedAt
    <3>2. CASE i # attempts + 1
      <4>1. i \in 1..attempts
        BY <1>2, <3>2
      <4>2. Reserves(file', attempts)
        BY <1>1, <2>1, Grown DEF ProofInv
      <4> QED  BY <4>1, <4>2 DEF Reserves
    <3> QED  BY <3>1, <3>2
  <2>3. Records(file', passes')
    BY <1>1, <2>1, Grown DEF ProofInv
  <2>4. dispatched <= attempts' /\ Progress(step', attempts', dispatched, passes')
    BY <1>1, <1>2, <1>7 DEF ProofInv, Progress
  <2>5. passes' \in Seq(BOOLEAN) /\ verdict' = None /\ verdict' # "passed"
    BY <1>1, ProofAssumption DEF ProofInv
  <2> QED  BY <1>1, <1>2, <1>4, <1>5, <1>7, <2>2, <2>3, <2>4, <2>5, JournalStep DEF Steps
<1> QED  BY <1>1, <1>6, <1>7

LEMMA DispatchStep ==
  ASSUME ProofInv, Proof!Dispatch
  PROVE  ProofInv'
<1>1. /\ step = "dispatch" /\ dispatched' = dispatched + 1 /\ step' \in {"running", "failing"}
      /\ UNCHANGED <<file, attempts, passes, verdict>>
  BY DEF Proof!Dispatch
<1>2. attempts = dispatched' /\ Len(passes) = dispatched /\ dispatched \in Nat /\ attempts \in 1..Len(ProofCases)
  BY <1>1, ProofAssumption DEF ProofInv, Progress
<1>3. ReservedAt(file, attempts)
  BY <1>1, <1>2 DEF ProofInv, Reserves
<1>4. ~Passing(file)
  BY <1>1 DEF ProofInv, Running, Passing, Whole
<1>5. verdict # "passed"
  BY <1>1, ProofAssumption DEF ProofInv
<1>6. Progress(step', attempts', dispatched', passes')
  BY <1>1, <1>2 DEF Progress
<1>7. attempts \in 0..Len(ProofCases) /\ dispatched' <= attempts /\ dispatched' \in Nat
  BY <1>2
<1>8. file # None /\ file \in Seq(Events) /\ Running(file) /\ Reserves(file, attempts) /\ Records(file, passes)
  BY <1>1 DEF ProofInv
<1> QED  BY <1>1, <1>3, <1>4, <1>5, <1>6, <1>7, <1>8 DEF ProofInv

LEMMA CaseCompletedStep ==
  ASSUME ProofInv, Proof!CaseCompleted
  PROVE  ProofInv'
<1>1. PICK result \in CaseResults :
        LET pass == Proof!ExpectedVsActual(ProofCases[attempts], result)
            event == [Proof!Event("case_completed") EXCEPT !.passed = pass]
        IN \/ file' = Append(file, event) /\ passes' = Append(passes, pass) /\ step' = "case"
           \/ Proof!Broken(event) /\ UNCHANGED passes
  BY DEF Proof!CaseCompleted
<1> DEFINE pass == Proof!ExpectedVsActual(ProofCases[attempts], result)
           e0 == Proof!Event("case_completed")
           e == [e0 EXCEPT !.passed = pass]
<1>2. /\ step = "running" /\ UNCHANGED <<attempts, verdict, dispatched>>
      /\ \/ file' = Append(file, e) /\ passes' = Append(passes, pass) /\ step' = "case"
         \/ Proof!Broken(e) /\ UNCHANGED passes
  BY <1>1 DEF Proof!CaseCompleted
<1>3. pass \in BOOLEAN
  BY DEF Proof!ExpectedVsActual
<1>4. e0 \in Events /\ e0.type = "case_completed" /\ e0.ordinal = attempts /\ ~e0.torn
  BY EventFacts
<1> HIDE DEF e0, pass
<1>5. e \in Events /\ e.type = "case_completed" /\ e.ordinal = attempts /\ ~e.torn /\ (e.passed <=> pass)
  <2>1. e \in Events /\ e.type = e0.type /\ e.ordinal = e0.ordinal
    BY <1>3, <1>4, EventShape DEF Events
  <2>2. (e.passed <=> pass) /\ (e.torn <=> e0.torn)
    BY <1>3, <1>4, EventShape
  <2> QED  BY <1>4, <2>1, <2>2
<1> HIDE DEF e
<1>6. ~Passes(e)
  BY <1>5 DEF Passes
<1>7. CASE Proof!Broken(e) /\ UNCHANGED passes
  BY <1>2, <1>5, <1>6, <1>7, BrokenStep
<1>8. CASE file' = Append(file, e) /\ passes' = Append(passes, pass) /\ step' = "case"
  <2>1. Whole(file) \subseteq Whole(file') /\ e \in Whole(file')
    BY <1>2, <1>5, <1>8, AppendedFacts DEF ProofInv
  <2>2. /\ passes \in Seq(BOOLEAN) /\ passes' \in Seq(BOOLEAN) /\ Len(passes') = Len(passes) + 1
        /\ \A i \in DOMAIN passes' : (i \in DOMAIN passes /\ passes'[i] = passes[i]) \/ i = Len(passes) + 1
        /\ passes'[Len(passes) + 1] = pass
    BY <1>3, <1>8 DEF ProofInv
  <2>3. attempts = Len(passes) + 1 /\ dispatched = attempts
    BY <1>2 DEF ProofInv, Progress
  <2>4. Records(file', passes')
    <3> SUFFICES ASSUME NEW i \in DOMAIN passes', passes'[i] PROVE PassedAt(file', i)
      BY DEF Records
    <3>1. CASE i = Len(passes) + 1
      <4>1. e.passed /\ e.ordinal = i
        BY <1>5, <2>2, <2>3, <3>1
      <4> QED  BY <1>5, <2>1, <4>1 DEF PassedAt
    <3>2. CASE i \in DOMAIN passes /\ passes'[i] = passes[i]
      <4>1. Records(file', passes)
        BY <1>2, <2>1, Grown DEF ProofInv
      <4> QED  BY <3>2, <4>1 DEF Records
    <3> QED  BY <2>2, <3>1, <3>2
  <2>5. Reserves(file', attempts')
    BY <1>2, <2>1, Grown DEF ProofInv
  <2>6. Progress(step', attempts', dispatched, passes')
    BY <1>2, <1>8, <2>2, <2>3 DEF Progress
  <2>7. attempts' \in 0..Len(ProofCases) /\ dispatched <= attempts' /\ verdict' = None /\ verdict' # "passed"
    BY <1>2, ProofAssumption DEF ProofInv
  <2> QED  BY <1>2, <1>5, <1>6, <1>8, <2>2, <2>4, <2>5, <2>6, <2>7, JournalStep DEF Steps
<1> QED  BY <1>2, <1>7, <1>8

\* All cases completed with a pass, in a journal without a partial line.
LEMMA AllPassedProves ==
  ASSUME ProofInv, step = "summary", Proof!AllPassed, NEW e \in Events,
         file' \in {file, Append(file, e)}
  PROVE  Proven(file', dispatched)
<1>1. /\ file # None /\ file \in Seq(Events) /\ Running(file) /\ Reserves(file, attempts) /\ Records(file, passes)
      /\ attempts = Len(ProofCases) /\ dispatched = Len(ProofCases)
  BY DEF ProofInv, Progress
<1>2. \A i \in 1..Len(ProofCases) : i \in DOMAIN passes /\ passes[i]
  BY DEF Proof!AllPassed, ProofInv
<1>3. \A i \in 1..Len(ProofCases) : ReservedAt(file, i) /\ PassedAt(file, i)
  BY <1>1, <1>2 DEF Reserves, Records
<1>4. Whole(file) \subseteq Whole(file')
  BY <1>1, AppendedFacts
<1>5. \A i \in 1..Len(ProofCases) : ReservedAt(file', i) /\ PassedAt(file', i)
  BY <1>3, <1>4, Grown
<1>6. ASSUME NEW i \in 1..Len(file') - 1
      PROVE  ~file'[i].torn
  <2>1. Len(file) \in Nat /\ DOMAIN file = 1..Len(file)
    BY <1>1
  <2>2. i \in 1..Len(file) /\ file'[i] = file[i]
    BY <1>1, <2>1, AppendedFacts
  <2> QED  BY <1>1, <2>1, <2>2 DEF Running, Proof!ToSet
<1> QED  BY <1>1, <1>5, <1>6 DEF Proven

LEMMA RunCompletedStep ==
  ASSUME ProofInv, Proof!RunCompleted
  PROVE  ProofInv'
<1> DEFINE e0 == Proof!Event("run_completed")
           pass == Proof!AllPassed
           e == [e0 EXCEPT !.passed = pass]
<1>1. /\ step = "summary" /\ UNCHANGED <<attempts, passes, dispatched>>
      /\ \/ /\ file' = Append(file, e) /\ step' = "exited"
            /\ verdict' \in {IF pass THEN "passed" ELSE "failed", "blocked"}
         \/ Proof!Broken(e) /\ UNCHANGED verdict
  BY DEF Proof!RunCompleted, Proof!Exit
<1>2. pass \in BOOLEAN
  BY DEF Proof!AllPassed
<1>3. e0 \in Events /\ ~e0.torn
  BY EventFacts
<1> HIDE DEF e0, pass
<1>4. e \in Events /\ (e.passed <=> pass)
  BY <1>2, <1>3, EventShape
<1> HIDE DEF e
<1>5. pass /\ file' \in {file, Append(file, e)} => Proven(file', dispatched)
  BY <1>1, <1>4, AllPassedProves DEF pass
<1>6. CASE file' = Append(file, e) /\ step' = "exited" /\ verdict' \in {IF pass THEN "passed" ELSE "failed", "blocked"}
  <2>1. Passes(e) \/ verdict' = "passed" => Proven(file', dispatched)
    BY <1>4, <1>5, <1>6 DEF Passes
  <2>2. attempts' \in 0..Len(ProofCases) /\ passes' \in Seq(BOOLEAN)
    BY <1>1 DEF ProofInv
  <2> QED  BY <1>1, <1>4, <1>6, <2>1, <2>2, JournalStep DEF Steps
<1>7. CASE Proof!Broken(e) /\ UNCHANGED verdict
  <2> DEFINE t == [e EXCEPT !.torn = TRUE]
  <2>1. t \in Events
    BY <1>4, EventShape
  <2>2. file' \in {file, Append(file, t), Append(file, e)}
    BY <1>7 DEF Proof!Broken, Proof!Torn
  <2> HIDE DEF t
  <2>3. pass => Proven(file', dispatched)
    BY <1>1, <1>4, <2>1, <2>2, AllPassedProves DEF pass
  <2>4. Passes(e) => Proven(file', dispatched)
    BY <1>4, <2>3 DEF Passes
  <2> QED  BY <1>1, <1>4, <1>7, <2>4, BrokenStep
<1> QED  BY <1>1, <1>6, <1>7

LEMMA RunBlockedStep ==
  ASSUME ProofInv, Proof!RunBlocked
  PROVE  ProofInv'
<1> DEFINE e == Proof!Event("run_blocked")
           t == [e EXCEPT !.torn = TRUE]
<1>1. e \in Events /\ e.type = "run_blocked"
  BY EventFacts
<1>2. t \in Events /\ ~Passes(e) /\ ~Passes(t)
  BY <1>1, EventShape DEF Passes
<1>3. /\ step' = "exited" /\ verdict' = "blocked" /\ UNCHANGED <<attempts, passes, dispatched>>
      /\ \/ step = "unjournaled" /\ file' = file
         \/ step = "blocked" /\ file' \in {Append(file, e), Append(file, t), file}
  BY DEF Proof!RunBlocked, Proof!Exit, Proof!Torn
<1> HIDE DEF e, t
<1>4. attempts' \in 0..Len(ProofCases) /\ passes' \in Seq(BOOLEAN)
  BY <1>3 DEF ProofInv
<1>5. CASE step = "unjournaled" /\ file' = file
  BY <1>3, <1>4, <1>5 DEF ProofInv
<1>6. CASE step = "blocked" /\ file' \in {file, Append(file, e)}
  BY <1>1, <1>2, <1>3, <1>4, <1>6, JournalStep DEF Steps
<1>7. CASE step = "blocked" /\ file' \in {file, Append(file, t)}
  BY <1>2, <1>3, <1>4, <1>7, JournalStep DEF Steps
<1> QED  BY <1>3, <1>5, <1>6, <1>7

\* The promises of the runtime proof (real-source-runtime-smoke.ts).
LEMMA ProofHolds == Proof!Spec => [](Proof!AttemptsAreReserved /\ Proof!PassIsComplete)
<1>1. Proof!Init => ProofInv
  <2> SUFFICES ASSUME Proof!Init PROVE ProofInv
    OBVIOUS
  <2>1. attempts \in 0..Len(ProofCases) /\ passes \in Seq(BOOLEAN) /\ verdict # "passed"
    BY ProofAssumption DEF Proof!Init
  <2> QED  BY <2>1 DEF Proof!Init, ProofInv
<1>2. ProofInv /\ [Proof!Next]_Proof!vars => ProofInv'
  <2> SUFFICES ASSUME ProofInv, [Proof!Next]_Proof!vars PROVE ProofInv'
    OBVIOUS
  <2>1. CASE UNCHANGED Proof!vars
    BY <2>1 DEF ProofInv, Proof!vars
  <2>2. CASE Proof!Next
    BY <2>2, LaunchSteps, QuietSteps, RunStartedStep, ReserveStep, DispatchStep, CaseCompletedStep,
       RunCompletedStep, RunBlockedStep DEF Proof!Next
  <2> QED  BY <2>1, <2>2
<1>3. ProofInv => Proof!AttemptsAreReserved /\ Proof!PassIsComplete
  BY ProofInvariants
<1> QED  BY <1>1, <1>2, <1>3, PTL DEF Proof!Spec

-----------------------------------------------------------------------------
\* A gate's "passed" answers every invocation, none of them wrongly, from one source
\* commit, and nothing is asked twice unless its answer was lost or two processes
\* overlapped; an infrastructure outcome and a published report are final (durable-journal.ts, evaluation.ts).  The
\* journal of the runtime proof never understates what was dispatched, and its PASS
\* stands for every case (real-source-runtime-smoke.ts).  What the harness verifies is
\* what the service did, and what it accepts the database holds (evaluate.ts).
THEOREM VerdictHolds == Gate!Spec /\ Proof!Spec /\ Harness!Spec => VerdictIsEarned
<1>1. Gate!Spec => /\ [](Gate!PassedIsEarned /\ Gate!AskedOnce /\ Gate!OneSource)
                   /\ Gate!InfrastructureIsFinal /\ Gate!ReportIsFinal
  BY GateHolds
<1>2. Proof!Spec => [](Proof!AttemptsAreReserved /\ Proof!PassIsComplete)
  BY ProofHolds
<1>3. Harness!Spec => []Harness!AcceptanceIsEarned
  BY HarnessHolds
<1>4. Proof!Spec /\ Harness!Spec =>
        [](Proof!AttemptsAreReserved /\ Proof!PassIsComplete /\ Harness!AcceptanceIsEarned)
  BY <1>2, <1>3, PTL
<1> QED  BY <1>1, <1>4 DEF VerdictIsEarned
=============================================================================
