------------------------- MODULE SupportTurnProofs -------------------------
(* Proofs about SupportTurn for every set of turns, conversations, tickets, *)
(* requests and tool calls, however turns, timers and writes interleave.   *)
EXTENDS SupportTurn, TLAPS

-----------------------------------------------------------------------------
(* The inductive invariants.                                               *)

\* A turn on which nothing was done: it has not begun, or was refused.
Unbegun(t) == frame[t] = NewFrame /\ agent[t] = "off" /\ result[t] = NoResult

\* An ordinary escalation was requested by a handoff that is in the database.
Requested(f) == f.escalationRequested => f.request.risk \/ f.request.conversation \in dbHandoffs

\* A handoff that was reserved is recorded, or its turn knows that something is wrong.
Held(f) == f.handoff => f.toolFailed \/ f.timedOut \/ f.request.conversation \in handoffs

\* A frame of a turn before its verdict, at or before the deadline.
Working(t, f) ==
  /\ f \in Frame /\ f.request \in Request
  /\ ~f.timedOut /\ ~f.sealed /\ ~f.eligible
  /\ f.settled => ~f.late
  /\ f.late => expired[t]
  /\ f.turns <= TurnBudget \/ f.fellBack
  /\ Requested(f)

\* A frame of a turn whose evidence does not change any more.
Closed(t, f) ==
  /\ f.request \in Request
  /\ f.eligible => f.timedOut /\ agent[t] = "off" /\ Eligible(f, FALSE)
  /\ f.settled => ~f.late
  /\ f.late => f.timedOut
  /\ Requested(f)

\* What a result claims is so.
Judged(f, r) ==
  /\ r.evidence => /\ SnapshotCurrent(f) /\ ~f.late /\ ~f.toolFailed /\ ~f.request.risk
                   /\ f.timedOut => f.eligible
  /\ r.policy = "WORKFLOW" => f.keys \cap dbTickets # {}
  /\ r.type = "escalation" /\ ~f.request.risk => f.request.conversation \in dbHandoffs

Done(t) == Closed(t, frame[t]) /\ frame[t].sealed /\ Judged(frame[t], result[t])

Looking == {"lookup", "absent", "present"}
SideEffect == {"create_ticket", "handoff_to_human"}

TurnInv(t) ==
  /\ run[t] = "idle" => Unbegun(t)
  /\ run[t] \in {"precheck", "prompt"} => Working(t, frame[t]) /\ result[t] = NoResult
  /\ run[t] = "precheck" => agent[t] = "off" /\ frame[t].turns = 0 /\ ~frame[t].late /\ ~frame[t].handoff
  /\ run[t] = "prompt" => \/ Held(frame[t])
                          \/ agent[t] = "tool" /\ call[t].tool = "handoff_to_human"
  /\ run[t] \in {"decide", "handoff", "escalate", "apologize"} =>
       Closed(t, frame[t]) /\ ~frame[t].sealed /\ result[t] = NoResult
  /\ run[t] = "decide" => Held(frame[t])
  /\ run[t] \in {"handoff", "escalate", "apologize"} =>
       frame[t].request.risk /\ frame[t].handoff /\ ~frame[t].timedOut
  /\ run[t] = "escalate" => frame[t].request.conversation \in handoffs
  /\ run[t] \in {"audit", "returned"} => Done(t)
  /\ run[t] = "rejected" => Unbegun(t) \/ Done(t)
  /\ agent[t] \in {"model", "tool", "between"} => run[t] = "prompt"
  /\ agent[t] \in Looking => call[t].tool \in SideEffect /\ run[t] \notin {"idle", "precheck"}
                             /\ (run[t] # "prompt" => frame[t].timedOut)
  /\ agent[t] = "tool" => call[t] \in Call

\* Turns that can still use what they reserved.
Open(t) == ~frame[t].sealed
Hands(t, c) == frame[t].handoff /\ ConversationOf(t) = c

\* What a turn reserved stays reserved until it is recorded or the turn ends, and
\* nobody else can reserve it.
TicketInv ==
  /\ tickets \cap ticketReservations = {}
  /\ \A t \in Turn : Open(t) => frame[t].keys \subseteq tickets \cup ticketReservations
  /\ \A s, t \in Turn : Open(s) /\ Open(t) /\ frame[s].keys \cap frame[t].keys # {} => s = t
  /\ \A k \in ticketReservations : \E t \in Turn : k \in frame[t].keys /\ (Open(t) \/ frame[t].timedOut)

HandoffInv ==
  /\ handoffs \cap handoffReservations = {}
  /\ \A t \in Turn : Open(t) /\ frame[t].handoff => ConversationOf(t) \in handoffs \cup handoffReservations
  /\ \A s, t \in Turn : Open(s) /\ Open(t) /\ frame[s].handoff /\ Hands(t, ConversationOf(s)) => s = t
  /\ \A c \in handoffReservations : \E t \in Turn : Hands(t, c) /\ (Open(t) \/ frame[t].timedOut)

\* The database is ahead of the in-memory store, and a write is of a reservation.
WriteInv ==
  /\ tickets \subseteq dbTickets /\ handoffs \subseteq dbHandoffs
  /\ \A w \in writes :
       /\ w.kind = "ticket" => w.arg \in frame[w.turn].keys /\ (Succeeded(w) => w.arg \in dbTickets)
       /\ w.kind = "handoff" => Hands(w.turn, w.arg) /\ (Succeeded(w) => w.arg \in dbHandoffs)
  /\ \A v, w \in writes : v.turn = w.turn /\ v.kind = w.kind /\ v.arg = w.arg /\ Open(v.turn) => v = w

Inv ==
  /\ TypeOK
  /\ \A t \in Turn : TurnInv(t)
  /\ TicketInv /\ HandoffInv /\ WriteInv

-----------------------------------------------------------------------------
(* The first row that holds.                                               *)

LEMMA LeastOfNine == ASSUME NEW S \in SUBSET (1..9), S # {} PROVE Min(S) \in S /\ \A y \in S : Min(S) <= y
<1>1. \E x \in S : \A y \in S : x <= y
  <2>1. CASE 1 \in S
    <3>1. \A y \in S : 1 <= y  OBVIOUS
    <3> QED  BY <2>1, <3>1
  <2>2. CASE 1 \notin S /\ 2 \in S  BY <2>2
  <2>3. CASE S \cap {1, 2} = {} /\ 3 \in S  BY <2>3
  <2>4. CASE S \cap {1, 2, 3} = {} /\ 4 \in S  BY <2>4
  <2>5. CASE S \cap {1, 2, 3, 4} = {} /\ 5 \in S  BY <2>5
  <2>6. CASE S \cap {1, 2, 3, 4, 5} = {} /\ 6 \in S  BY <2>6
  <2>7. CASE S \cap {1, 2, 3, 4, 5, 6} = {} /\ 7 \in S  BY <2>7
  <2>8. CASE S \cap {1, 2, 3, 4, 5, 6, 7} = {} /\ 8 \in S  BY <2>8
  <2>9. CASE S \cap {1, 2, 3, 4, 5, 6, 7, 8} = {}
    <3>1. 1..9 = {1, 2, 3, 4, 5, 6, 7, 8, 9}  OBVIOUS
    <3>2. S = {9}  BY <2>9, <3>1
    <3> QED  BY <3>2
  <2> QED  BY <2>1, <2>2, <2>3, <2>4, <2>5, <2>6, <2>7, <2>8, <2>9
<1> QED  BY <1>1 DEF Min

\* A chain of nine early returns ends at a row whose condition holds, none before.
LEMMA FirstOfNine ==
  ASSUME NEW rows, DOMAIN rows = 1..9, rows[9].when
  PROVE  \E i \in 1..9 : /\ rows[i].when /\ FirstOf(rows) = rows[i].result
                         /\ \A j \in 1..9 : j < i => ~rows[j].when
<1> DEFINE S == {i \in DOMAIN rows : rows[i].when}
<1>1. S \in SUBSET (1..9) /\ S # {}
  OBVIOUS
<1> HIDE DEF S
<1>2. Min(S) \in S /\ \A y \in S : Min(S) <= y
  BY <1>1, LeastOfNine
<1>3. FirstOf(rows) = rows[Min(S)].result
  BY DEF FirstOf, S
<1>4. \A j \in 1..9 : j < Min(S) => j \notin S
  <2> SUFFICES ASSUME NEW j \in S, j < Min(S) PROVE FALSE
    OBVIOUS
  <2>1. Min(S) \in 1..9 /\ j \in 1..9 /\ Min(S) <= j
    BY <1>1, <1>2
  <2> QED  BY <2>1
<1> QED  BY <1>1, <1>2, <1>3, <1>4 DEF S

\* What the verdict says, by kind.
LEMMA VerdictShape ==
  ASSUME NEW f
  PROVE  /\ Verdict(f) \in {Grounded, FellBack, Answered, Escalation}
         /\ Verdict(f) = Grounded =>
              \/ f.timedOut /\ f.eligible
              \/ /\ ~f.timedOut /\ ~f.limitReached /\ ~f.request.risk /\ ~f.toolFailed
                 /\ SnapshotCurrent(f)
         /\ Verdict(f) = Escalation =>
              /\ ~f.timedOut /\ ~f.limitReached
              /\ \/ f.request.risk /\ ~f.covered
                 \/ ~f.request.risk /\ f.escalationRequested
<1> DEFINE rows == <<
      [when |-> f.timedOut /\ f.eligible, result |-> Grounded],
      [when |-> f.timedOut \/ f.limitReached, result |-> FellBack],
      [when |-> f.request.risk, result |-> IF f.covered THEN Answered ELSE Escalation],
      [when |-> f.escalationRequested, result |-> Escalation],
      [when |-> f.request.requiresEscalation \/ f.toolFailed, result |-> FellBack],
      [when |-> Verified(f), result |-> IF SnapshotCurrent(f) THEN Grounded ELSE FellBack],
      [when |-> f.noEvidence /\ ~TicketDespiteMiss(f), result |-> FellBack],
      [when |-> Speaks(f), result |-> Answered],
      [when |-> TRUE, result |-> FellBack]>>
<1>1. DOMAIN rows = 1..9 /\ rows[9].when
  OBVIOUS
<1>2. Verdict(f) = FirstOf(rows)
  BY DEF Verdict
<1>3. /\ rows[1].when <=> f.timedOut /\ f.eligible
      /\ rows[2].when <=> f.timedOut \/ f.limitReached
      /\ rows[3].when <=> f.request.risk
      /\ rows[4].when <=> f.escalationRequested
      /\ rows[5].when <=> f.request.requiresEscalation \/ f.toolFailed
  OBVIOUS
<1>4. /\ rows[1].result = Grounded /\ rows[2].result = FellBack
      /\ rows[3].result = IF f.covered THEN Answered ELSE Escalation
      /\ rows[4].result = Escalation /\ rows[5].result = FellBack
      /\ rows[6].result = IF SnapshotCurrent(f) THEN Grounded ELSE FellBack
      /\ rows[7].result = FellBack /\ rows[8].result = Answered /\ rows[9].result = FellBack
  OBVIOUS
<1> HIDE DEF rows
<1>5. PICK i \in 1..9 : /\ rows[i].when /\ Verdict(f) = rows[i].result
                        /\ \A j \in 1..9 : j < i => ~rows[j].when
  BY <1>1, <1>2, FirstOfNine
<1>6. /\ Grounded # FellBack /\ Grounded # Answered /\ Grounded # Escalation
      /\ Escalation # FellBack /\ Escalation # Answered
  BY DEF Grounded, FellBack, Answered, Escalation, NoResult
<1>7. CASE i = 1  BY <1>3, <1>4, <1>5, <1>6, <1>7
<1>8. CASE i = 2  BY <1>3, <1>4, <1>5, <1>6, <1>8
<1>9. CASE i = 3  BY <1>3, <1>4, <1>5, <1>6, <1>9
<1>10. CASE i = 4
  BY <1>3, <1>4, <1>5, <1>6, <1>10
<1>11. CASE i = 6
  BY <1>3, <1>4, <1>5, <1>6, <1>11
<1>12. CASE i \in {5, 7, 8, 9}
  BY <1>4, <1>5, <1>6, <1>12
<1> QED  BY <1>7, <1>8, <1>9, <1>10, <1>11, <1>12

\* What the policy says: it takes evidence from the verdict, and claims a ticket or an
\* escalation of its own only for side effects that are recorded.
LEMMA GovernedShape ==
  ASSUME NEW f, f.timedOut \in BOOLEAN, NEW r \in {Grounded, FellBack, Answered, Escalation}
  PROVE  /\ Governed(f, r) \in Result
         /\ Governed(f, r).type # "none"
         /\ Governed(f, r).evidence => r = Grounded /\ ~f.timedOut /\ ~f.toolFailed
         /\ Governed(f, r).policy = "WORKFLOW" => f.keys \cap tickets # {}
         /\ Governed(f, r).type = "escalation" =>
              /\ ~f.toolFailed
              /\ \/ f.request.risk /\ r = Escalation
                 \/ f.handoff /\ f.request.conversation \in handoffs
<1> DEFINE With(policy, type) == [type |-> type, evidence |-> FALSE, policy |-> policy]
           failed == \/ f.timedOut \/ f.limitReached \/ f.toolFailed
                     \/ f.reply \in {"none", "empty", "length", "error", "aborted"}
           rows == <<
  [when |-> failed, result |-> With("SAFE_FALLBACK", "fallback")],
  [when |-> f.request.risk /\ r.type = "fallback", result |-> [r EXCEPT !.policy = "SAFE_FALLBACK"]],
  [when |-> f.request.risk, result |-> [r EXCEPT !.policy = IF f.covered THEN "AUTO" ELSE "HUMAN"]],
  [when |-> f.handoff /\ f.request.conversation \in handoffs, result |-> With("HUMAN", "escalation")],
  [when |-> f.request.requiresEscalation \/ f.request.needsHuman, result |-> With("HUMAN", "fallback")],
  [when |-> f.keys \cap tickets # {}, result |-> With("WORKFLOW", "answer")],
  [when |-> r = Grounded, result |-> [r EXCEPT !.policy = "AUTO"]],
  [when |-> f.request.greeting, result |-> With("AUTO", "answer")],
  [when |-> TRUE, result |-> With("SAFE_FALLBACK", "fallback")]>>
<1>1. DOMAIN rows = 1..9 /\ rows[9].when
  OBVIOUS
<1>2. Governed(f, r) = FirstOf(rows)
  BY DEF Governed
<1>3. /\ rows[1].when <=> failed
      /\ rows[2].when <=> f.request.risk /\ r.type = "fallback"
      /\ rows[3].when <=> f.request.risk
      /\ rows[4].when <=> f.handoff /\ f.request.conversation \in handoffs
      /\ rows[6].when <=> f.keys \cap tickets # {}
      /\ rows[7].when <=> r = Grounded
  OBVIOUS
<1>4. /\ rows[1].result = With("SAFE_FALLBACK", "fallback")
      /\ rows[2].result = [r EXCEPT !.policy = "SAFE_FALLBACK"]
      /\ rows[3].result = [r EXCEPT !.policy = IF f.covered THEN "AUTO" ELSE "HUMAN"]
      /\ rows[4].result = With("HUMAN", "escalation")
      /\ rows[5].result = With("HUMAN", "fallback")
      /\ rows[6].result = With("WORKFLOW", "answer")
      /\ rows[7].result = [r EXCEPT !.policy = "AUTO"]
      /\ rows[8].result = With("AUTO", "answer")
      /\ rows[9].result = With("SAFE_FALLBACK", "fallback")
  OBVIOUS
<1>5. ~failed => ~f.timedOut /\ ~f.toolFailed
  OBVIOUS
<1> HIDE DEF rows, failed
<1>6. PICK i \in 1..9 : /\ rows[i].when /\ Governed(f, r) = rows[i].result
                        /\ \A j \in 1..9 : j < i => ~rows[j].when
  BY <1>1, <1>2, FirstOfNine
<1>7. \A policy \in {"AUTO", "WORKFLOW", "HUMAN", "SAFE_FALLBACK"} :
        /\ [r EXCEPT !.policy = policy] \in Result
        /\ [r EXCEPT !.policy = policy].type = r.type /\ r.type # "none"
        /\ [r EXCEPT !.policy = policy].policy = policy
        /\ [r EXCEPT !.policy = policy].evidence => r = Grounded
        /\ r.type = "escalation" => r = Escalation
  BY DEF Result, Grounded, FellBack, Answered, Escalation, NoResult
<1>8. \A policy \in {"AUTO", "WORKFLOW", "HUMAN", "SAFE_FALLBACK"}, type \in {"answer", "fallback", "escalation"} :
        /\ With(policy, type) \in Result /\ With(policy, type).type = type
        /\ With(policy, type).policy = policy /\ ~With(policy, type).evidence
  BY DEF Result
<1> HIDE DEF With
<1>10. CASE i \in {1, 5, 8, 9}
  BY <1>4, <1>6, <1>8, <1>10
<1>11. CASE i \in {2, 3}
  <2>1. ~failed /\ f.request.risk
    BY <1>3, <1>6, <1>11
  <2>2. \E policy \in {"AUTO", "HUMAN", "SAFE_FALLBACK"} : Governed(f, r) = [r EXCEPT !.policy = policy]
    BY <1>4, <1>6, <1>11
  <2> QED  BY <1>5, <1>7, <2>1, <2>2
<1>13. CASE i = 4
  <2>1. ~rows[1].when
    BY <1>6, <1>13
  <2> QED  BY <1>3, <1>4, <1>5, <1>6, <1>8, <1>13, <2>1
<1>14. CASE i = 6
  BY <1>3, <1>4, <1>6, <1>8, <1>14
<1>15. CASE i = 7
  <2>1. ~rows[1].when /\ Governed(f, r) = [r EXCEPT !.policy = "AUTO"] /\ r = Grounded
    BY <1>3, <1>4, <1>6, <1>15
  <2>2. ~f.timedOut /\ ~f.toolFailed
    BY <1>3, <1>5, <2>1
  <2> QED  BY <1>7, <2>1, <2>2 DEF Grounded, Answered, NoResult
<1> QED  BY <1>10, <1>11, <1>13, <1>14, <1>15

-----------------------------------------------------------------------------
(* Steps that concern one turn only.                                       *)

Same(s) == UNCHANGED <<run[s], agent[s], call[s], expired[s], frame[s], result[s]>>

\* What other turns and the writes know of a frame.
SameHands(f, g) ==
  /\ g.keys = f.keys /\ g.handoff = f.handoff /\ g.sealed = f.sealed
  /\ f.handoff => g.request = f.request
  /\ f.timedOut => g.timedOut

\* Turn t moves; no reservation, record or write does, and nothing of a sealed turn.
Local(t) ==
  /\ UNCHANGED <<tickets, ticketReservations, handoffs, handoffReservations, database, writes, result>>
  /\ TypeOK' /\ TurnInv(t)'
  /\ SameHands(frame[t], frame'[t])
  /\ frame[t].sealed => frame'[t] = frame[t]
  /\ \A s \in Turn \ {t} : Same(s)

\* The turns that do not move keep what they know while records only grow.
LEMMA OthersStay ==
  ASSUME NEW s \in Turn, TurnInv(s), Same(s),
         handoffs \subseteq handoffs', dbTickets \subseteq dbTickets', dbHandoffs \subseteq dbHandoffs'
  PROVE  TurnInv(s)'
<1> DEFINE f == frame[s]
<1>1. Unbegun(s) => Unbegun(s)'
  BY DEF Unbegun, Same
<1>2. Working(s, frame[s]) => Working(s, frame[s])'
  BY DEF Working, Same, Requested
<1>3. Closed(s, frame[s]) => Closed(s, frame[s])'
  BY DEF Closed, Same, Requested
<1>4. Judged(frame[s], result[s]) => Judged(frame[s], result[s])'
  BY DEF Judged, Same
<1>5. Done(s) => Done(s)'
  BY <1>3, <1>4 DEF Done, Same
<1>6. Held(frame[s]) => Held(frame[s])'
  BY DEF Held, Same
<1> QED  BY <1>1, <1>2, <1>3, <1>5, <1>6 DEF TurnInv, Same

LEMMA LocalStep ==
  ASSUME Inv, NEW t \in Turn, Local(t)
  PROVE  Inv'
<1>1. ASSUME NEW s \in Turn PROVE TurnInv(s)'
  <2>1. CASE s = t
    BY <2>1 DEF Local
  <2>2. CASE s # t
    <3>1. TurnInv(s) /\ Same(s)
      BY <2>2 DEF Inv, Local
    <3> QED  BY <3>1, OthersStay DEF Local, database
  <2> QED  BY <2>1, <2>2
<1>2. ASSUME NEW s \in Turn
      PROVE  /\ frame'[s].keys = frame[s].keys /\ frame'[s].handoff = frame[s].handoff
             /\ frame'[s].sealed = frame[s].sealed
             /\ frame[s].handoff => frame'[s].request = frame[s].request
             /\ frame[s].timedOut => frame'[s].timedOut
  BY DEF Local, Same, SameHands
<1>3. TicketInv'
  BY <1>2 DEF TicketInv, Inv, Local, Open
<1>4. HandoffInv'
  BY <1>2 DEF HandoffInv, Inv, Local, Open, Hands, ConversationOf
<1>5. WriteInv'
  <2>1. \A w \in writes : w.turn \in Turn
    BY DEF Inv, TypeOK, Write
  <2> QED  BY <1>2, <2>1 DEF WriteInv, Inv, Local, Open, Hands, ConversationOf, database, Succeeded
<1> QED  BY <1>1, <1>3, <1>4, <1>5 DEF Inv, Local

\* What the steps before the verdict leave as they are.
RecordsStay == UNCHANGED <<tickets, ticketReservations, handoffs, handoffReservations, database, writes, result>>

OnlyCall(t) == call' \in [Turn -> Call \cup {NoCall}] /\ \A s \in Turn \ {t} : call'[s] = call[s]

\* The tool calls name a ticket or a query as their kind says.
LEMMA CallShape ==
  ASSUME NEW c \in Call \cup {NoCall}
  PROVE  /\ c.tool = "search_knowledge" => c.arg \in Query
         /\ c.tool = "create_ticket" => c.arg \in Key
         /\ c.tool # "none" => c \in Call
         /\ c \in Call => c.tool \in {"search_faq", "search_knowledge", "create_ticket", "handoff_to_human"}
<1>1. c = NoCall => c.tool = "none"
  BY DEF NoCall
<1>2. c.tool # "none" => c \in Call
  BY <1>1
<1>3. c \in Call => c \in CallType
  BY TurnAssumption
<1>4. c \in CallType => /\ c.tool = "search_knowledge" => c.arg \in Query
                        /\ c.tool = "create_ticket" => c.arg \in Key
                        /\ c.tool \in {"search_faq", "search_knowledge", "create_ticket", "handoff_to_human"}
  BY DEF CallType
<1> QED  BY <1>2, <1>3, <1>4

\* The prompt takes another turn.
LEMMA StartTurnShape ==
  ASSUME NEW f \in Frame, f.turns <= TurnBudget
  PROVE  /\ StartTurn(f) \in Frame /\ SameHands(f, StartTurn(f))
         /\ StartTurn(f) = [f EXCEPT !.turns = f.turns + 1, !.terminal = TRUE]
         /\ StartTurn(f).turns = f.turns + 1
<1>1. TurnBudget \in Nat /\ f.turns \in Nat
  BY TurnAssumption DEF TurnBudget, Frame
<1>2. PICK n \in 0..TurnBudget + 1 : n = f.turns + 1
  BY <1>1
<1>3. StartTurn(f) = [f EXCEPT !.turns = n, !.terminal = TRUE]
  BY <1>2 DEF StartTurn
<1> QED  BY <1>2, <1>3 DEF Frame, SameHands

\* A tool call ends on a frame that is well formed.
LEMMA EndToolLocal ==
  ASSUME TypeOK, NEW t \in Turn, run[t] = "prompt", result[t] = NoResult,
         NEW f, NEW terminate \in BOOLEAN, Working(t, f), Held(f),
         SameHands(frame[t], f), ~frame[t].sealed,
         EndTool(t, f, terminate), UNCHANGED <<sessions, run, expired>>, RecordsStay, OnlyCall(t)
  PROVE  Local(t)
<1> DEFINE g == [f EXCEPT !.terminal = @ /\ terminate]
<1>1. g \in Frame /\ SameHands(f, g)
  BY DEF Working, Frame, SameHands
<1>2. frame' = [frame EXCEPT ![t] = g] /\ agent' = [agent EXCEPT ![t] = "between"]
  BY DEF EndTool, Update, AgentGoto
<1>3. TypeOK'
  BY <1>1, <1>2 DEF TypeOK, RecordsStay, database, OnlyCall
<1>4. frame'[t] = g /\ agent'[t] = "between" /\ \A s \in Turn \ {t} : Same(s)
  BY <1>2 DEF TypeOK, Same, RecordsStay, OnlyCall
<1>5. Working(t, g)' /\ Held(g)'
  BY <1>1 DEF Working, Held, Requested, RecordsStay, database, Frame
<1> HIDE DEF g
<1>6. TurnInv(t)'
  BY <1>4, <1>5 DEF TurnInv, Looking, RecordsStay
<1>7. SameHands(frame[t], frame'[t])
  BY <1>1, <1>4 DEF SameHands
<1> QED  BY <1>3, <1>4, <1>6, <1>7 DEF Local, RecordsStay

LEMMA BlockLocal ==
  ASSUME TypeOK, NEW t \in Turn, run[t] = "prompt", result[t] = NoResult,
         NEW f, NEW terminate \in BOOLEAN, Working(t, f),
         SameHands(frame[t], f), ~frame[t].sealed,
         Block(t, f, terminate), UNCHANGED <<sessions, run, expired>>, RecordsStay, OnlyCall(t)
  PROVE  Local(t)
<1> DEFINE g == [f EXCEPT !.toolFailed = TRUE]
<1>1. Working(t, g) /\ Held(g) /\ SameHands(frame[t], g)
  BY DEF Working, Held, Requested, SameHands, Frame
<1>2. EndTool(t, g, terminate)
  BY DEF Block
<1> HIDE DEF g
<1> QED  BY <1>1, <1>2, EndToolLocal

\* A step that lost the race against the deadline has no evidence for its turn.
LEMMA CutShortLocal ==
  ASSUME TypeOK, NEW t \in Turn, run[t] \in {"precheck", "prompt"}, result[t] = NoResult,
         NEW f, Working(t, f), SameHands(frame[t], f), ~frame[t].sealed,
         CutShort(t, f), UNCHANGED <<sessions, expired>>, RecordsStay,
         OnlyCall(t)
  PROVE  Local(t)
<1> DEFINE g == [f EXCEPT !.timedOut = TRUE, !.eligible = FALSE]
<1>1. Expire(f, TRUE) = g
  BY DEF Expire, Eligible, Working
<1>2. g \in Frame /\ SameHands(f, g)
  BY DEF Working, Frame, SameHands
<1>3. /\ frame' = [frame EXCEPT ![t] = g] /\ agent' = [agent EXCEPT ![t] = "off"]
      /\ run' = [run EXCEPT ![t] = "decide"]
  BY <1>1 DEF CutShort, Update, AgentGoto, Goto
<1>4. TypeOK'
  BY <1>2, <1>3 DEF TypeOK, RecordsStay, database, OnlyCall
<1>5. /\ frame'[t] = g /\ agent'[t] = "off" /\ run'[t] = "decide"
      /\ \A s \in Turn \ {t} : Same(s)
  BY <1>3 DEF TypeOK, Same, RecordsStay, OnlyCall
<1>6. Closed(t, g)' /\ Held(g)' /\ ~g.sealed
  BY <1>2 DEF Working, Closed, Held, Requested, RecordsStay, database, Frame
<1> HIDE DEF g
<1>7. TurnInv(t)'
  BY <1>5, <1>6 DEF TurnInv, Looking, RecordsStay
<1>8. SameHands(frame[t], frame'[t])
  BY <1>2, <1>5 DEF SameHands
<1> QED  BY <1>4, <1>5, <1>7, <1>8 DEF Local, RecordsStay

\* The prompt ends, on the answer, its failure or the fallback model.
LEMMA EndPromptLocal ==
  ASSUME TypeOK, NEW t \in Turn, run[t] = "prompt", result[t] = NoResult,
         NEW f, Working(t, f), Held(f), SameHands(frame[t], f), ~frame[t].sealed,
         EndPrompt(t, f), UNCHANGED <<sessions, call, expired>>, RecordsStay
  PROVE  Local(t)
<1>1. PICK x \in BOOLEAN : x = expired[t]
  BY DEF TypeOK
<1>2. PICK b \in BOOLEAN : b = Eligible(f, FALSE)
  BY DEF Eligible
<1> DEFINE late == [f EXCEPT !.timedOut = TRUE, !.eligible = b]
           again == [f EXCEPT !.fellBack = TRUE, !.turns = @ + 1, !.terminal = TRUE]
<1>3. Expire(f, FALSE) = late
  BY <1>2 DEF Expire, Working
<1>4. f \in Frame /\ ~f.timedOut /\ ~f.sealed
  BY DEF Working
<1>5. CASE ~x /\ f.reply = "error" /\ FallbackModel /\ ~f.fellBack
  <2>1. [f EXCEPT !.fellBack = TRUE] \in Frame /\ f.turns <= TurnBudget
    BY <1>4, <1>5 DEF Working, Frame
  <2>2. PICK e \in Frame : e = [f EXCEPT !.fellBack = TRUE]
    BY <2>1
  <2>3. e.turns = f.turns /\ e.fellBack /\ SameHands(f, e) /\ e.request = f.request
        /\ Working(t, e) /\ Held(e)
    BY <1>4, <2>2 DEF Frame, SameHands, Working, Held, Requested
  <2>4. /\ StartTurn(e) = again /\ again \in Frame /\ SameHands(e, again)
    <3>1. StartTurn(e) \in Frame /\ SameHands(e, StartTurn(e))
      BY <2>1, <2>3, StartTurnShape
    <3>2. StartTurn(e) = again
      BY <1>4, <2>2 DEF StartTurn, Frame
    <3> QED  BY <3>1, <3>2
  <2>5. Working(t, again)' /\ Held(again)'
    <3>1. Working(t, again) /\ Held(again)
      BY <1>4, <2>3, <2>4, <2>2 DEF Working, Held, Requested, Frame
    <3> HIDE DEF again
    <3> QED  BY <3>1 DEF Working, Held, Requested, RecordsStay, database
  <2> HIDE DEF again, late
  <2>6. frame' = [frame EXCEPT ![t] = again] /\ agent' = [agent EXCEPT ![t] = "model"] /\ UNCHANGED run
    BY <1>1, <1>4, <1>5, <2>2, <2>4 DEF EndPrompt, Update, AgentGoto
  <2>7. TypeOK'
    BY <2>4, <2>6 DEF TypeOK, RecordsStay, database
  <2>8. frame'[t] = again /\ agent'[t] = "model" /\ run'[t] = "prompt" /\ \A s \in Turn \ {t} : Same(s)
    BY <2>6 DEF TypeOK, Same, RecordsStay
  <2>9. TurnInv(t)'
    BY <2>5, <2>8 DEF TurnInv, Looking, RecordsStay
  <2>10. SameHands(frame[t], frame'[t])
    BY <2>3, <2>4, <2>8 DEF SameHands
  <2> QED  BY <2>7, <2>8, <2>9, <2>10 DEF Local, RecordsStay
<1>6. CASE ~(~x /\ f.reply = "error" /\ FallbackModel /\ ~f.fellBack)
  <2>1. PICK g : g = IF x THEN late ELSE f
    OBVIOUS
  <2>3. /\ g \in Frame /\ SameHands(f, g) /\ ~g.sealed /\ g.request = f.request /\ g.late = f.late
        /\ g.settled = f.settled /\ g.escalationRequested = f.escalationRequested
        /\ g.timedOut = x /\ g.toolFailed = f.toolFailed
        /\ x => g.eligible = Eligible(g, FALSE)
        /\ ~x => g = f
    <3>1. CASE x
      BY <1>2, <1>4, <2>1, <3>1 DEF Frame, SameHands, Eligible, SnapshotCurrent, Verified
    <3>2. CASE ~x
      <4>1. g = f
        BY <2>1, <3>2
      <4>2. f.timedOut = x
        BY <1>4, <3>2 DEF Frame
      <4> QED  BY <1>4, <3>2, <4>1, <4>2 DEF SameHands
    <3> QED  BY <3>1, <3>2
  <2> HIDE DEF late, again
  <2>4. /\ frame' = [frame EXCEPT ![t] = g] /\ agent' = [agent EXCEPT ![t] = "off"]
        /\ run' = [run EXCEPT ![t] = "decide"]
    <3>1. g = IF expired[t] THEN Expire(f, FALSE) ELSE f
      BY <1>1, <1>3, <2>1
    <3>2. ~(~g.timedOut /\ g.reply = "error" /\ FallbackModel /\ ~g.fellBack)
      BY <1>6, <2>3
    <3> QED  BY <3>1, <3>2 DEF EndPrompt, Update, AgentGoto, Goto
  <2>5. TypeOK'
    BY <2>3, <2>4 DEF TypeOK, RecordsStay, database
  <2>6. /\ frame'[t] = g /\ agent'[t] = "off" /\ run'[t] = "decide"
        /\ \A s \in Turn \ {t} : Same(s)
    BY <2>4 DEF TypeOK, Same, RecordsStay
  <2>7. Closed(t, g)' /\ Held(g)'
    BY <1>1, <2>3, <2>6 DEF Working, Closed, Held, Requested, SameHands, RecordsStay, database
  <2>8. TurnInv(t)'
    BY <2>3, <2>6, <2>7 DEF TurnInv, Looking, RecordsStay
  <2>9. SameHands(frame[t], frame'[t])
    BY <2>3, <2>6 DEF SameHands
  <2> QED  BY <2>5, <2>6, <2>8, <2>9 DEF Local, RecordsStay
<1> QED  BY <1>5, <1>6

\* What is known of a turn at its prompt, or before it.
LEMMA AtWork ==
  ASSUME Inv, NEW t \in Turn, run[t] \in {"precheck", "prompt"}
  PROVE  /\ TypeOK /\ TurnInv(t) /\ result[t] = NoResult
         /\ Working(t, frame[t]) /\ ~frame[t].sealed /\ SameHands(frame[t], frame[t])
BY DEF Inv, TurnInv, SameHands, Working

\* A search answers, in time or not.
LEMMA AfterSearchShape ==
  ASSUME TypeOK, NEW t \in Turn, NEW f, Working(t, f), NEW q \in Query, NEW routing \in Routing,
         NEW g, g = AfterSearch(t, f, q, routing)
  PROVE  /\ Working(t, g) /\ SameHands(f, g) /\ g.turns = f.turns /\ g.handoff = f.handoff
         /\ Held(f) => Held(g)
         /\ g.late = expired[t] /\ g.request = f.request
<1>1. PICK x \in BOOLEAN : x = expired[t]
  BY DEF TypeOK
<1>2. PICK n \in BOOLEAN : n = (f.noEvidence \/ routing # "SINGLE_CANDIDATE")
  OBVIOUS
<1>3. PICK ch \in SUBSET Query : ch = f.changed \ {q}
  BY DEF Working, Frame
<1>4. PICK gr \in [source : Query \cup {"faq", None}, routing : Routing \cup {"faq", "none"}] :
        gr = [source |-> q, routing |-> routing]
  OBVIOUS
<1>5. PICK s \in BOOLEAN : s = ~x
  OBVIOUS
<1>6. g = [f EXCEPT !.ground = gr, !.settled = s, !.late = x, !.changed = ch, !.noEvidence = n]
  BY <1>1, <1>2, <1>3, <1>4, <1>5 DEF AfterSearch
<1>7. f \in Frame
  BY DEF Working
<1>8. g \in Frame
  <2>1. PICK e \in Frame : e = [f EXCEPT !.ground = gr]
    BY <1>7 DEF Frame
  <2>2. PICK h \in Frame : h = [e EXCEPT !.settled = s, !.late = x]
    BY DEF Frame
  <2>3. [h EXCEPT !.changed = ch, !.noEvidence = n] \in Frame
    BY DEF Frame
  <2> QED  BY <1>6, <2>1, <2>2, <2>3
<1>9. /\ g.request = f.request /\ g.timedOut = f.timedOut /\ g.sealed = f.sealed
      /\ g.eligible = f.eligible /\ g.settled = s /\ g.late = x /\ g.turns = f.turns
      /\ g.fellBack = f.fellBack /\ g.escalationRequested = f.escalationRequested
      /\ g.keys = f.keys /\ g.handoff = f.handoff /\ g.toolFailed = f.toolFailed
  BY <1>6, <1>7 DEF Frame
<1> QED  BY <1>1, <1>5, <1>8, <1>9 DEF Working, Requested, SameHands, Held

LEMMA FailedShape ==
  ASSUME NEW t, NEW f, Working(t, f), NEW g, g = [f EXCEPT !.toolFailed = TRUE]
  PROVE  Working(t, g) /\ Held(g) /\ SameHands(f, g) /\ g.request = f.request
BY DEF Working, Held, Requested, SameHands, Frame

LEMMA PrecheckEndsLocal ==
  ASSUME Inv, NEW t \in Turn, NEW routing \in Routing, PrecheckEnds(t, routing)
  PROVE  Local(t)
<1>1. run[t] = "precheck" /\ UNCHANGED <<sessions, call, expired>> /\ RecordsStay
  BY DEF PrecheckEnds, store, RecordsStay
<1>2. /\ TypeOK /\ TurnInv(t) /\ result[t] = NoResult
      /\ Working(t, frame[t]) /\ ~frame[t].sealed /\ SameHands(frame[t], frame[t])
      /\ frame[t].turns = 0 /\ ~frame[t].handoff
  BY <1>1, AtWork DEF TurnInv
<1>3. PICK e : e = AfterSearch(t, frame[t], OwnQuery, routing)
  OBVIOUS
<1>4. /\ Working(t, e) /\ SameHands(frame[t], e) /\ e.turns = 0 /\ Held(e)
  BY <1>2, <1>3, AfterSearchShape, TurnAssumption DEF Held
<1>5. CASE expired[t]
  <2>1. PICK h : h = [e EXCEPT !.toolFailed = TRUE]
    OBVIOUS
  <2>2. Working(t, h) /\ SameHands(frame[t], h)
    BY <1>4, <2>1, FailedShape DEF SameHands
  <2>3. CutShort(t, h)
    BY <1>3, <1>5, <2>1 DEF PrecheckEnds
  <2> QED  BY <1>1, <1>2, <2>2, <2>3, CutShortLocal DEF TypeOK, OnlyCall
<1>6. CASE ~expired[t]
  <2>1. PICK h : h = [e EXCEPT !.checked[OwnQuery] = routing]
    OBVIOUS
  <2>2. Working(t, h) /\ SameHands(frame[t], h) /\ h.turns = 0 /\ Held(h)
    BY <1>4, <2>1, TurnAssumption DEF Working, Held, Requested, SameHands, Frame
  <2>3. TurnBudget \in Nat /\ TurnBudget >= 1
    BY TurnAssumption DEF TurnBudget
  <2>4. PICK g : g = StartTurn(h)
    OBVIOUS
  <2>5. g \in Frame /\ SameHands(h, g) /\ g = [h EXCEPT !.turns = h.turns + 1, !.terminal = TRUE] /\ g.turns = 1
    <3>1. h \in Frame /\ h.turns <= TurnBudget
      BY <2>2, <2>3 DEF Working
    <3>2. /\ StartTurn(h) \in Frame /\ SameHands(h, StartTurn(h))
          /\ StartTurn(h) = [h EXCEPT !.turns = h.turns + 1, !.terminal = TRUE]
          /\ StartTurn(h).turns = h.turns + 1
      BY <3>1, StartTurnShape
    <3> QED  BY <2>2, <2>4, <3>2
  <2>6. Working(t, g)' /\ Held(g)'
    <3>1. Working(t, g) /\ Held(g)
      BY <2>2, <2>3, <2>5 DEF Working, Held, Requested, Frame
    <3> QED  BY <1>1, <3>1 DEF Working, Held, Requested, RecordsStay, database
  <2>7. frame' = [frame EXCEPT ![t] = g] /\ run' = [run EXCEPT ![t] = "prompt"]
        /\ agent' = [agent EXCEPT ![t] = "model"]
    BY <1>3, <1>6, <2>1, <2>4 DEF PrecheckEnds, Update, Goto, AgentGoto
  <2>8. TypeOK'
    BY <1>1, <1>2, <2>5, <2>7 DEF TypeOK, RecordsStay, database
  <2>9. frame'[t] = g /\ agent'[t] = "model" /\ run'[t] = "prompt" /\ \A s \in Turn \ {t} : Same(s)
    BY <1>1, <1>2, <2>7 DEF TypeOK, Same, RecordsStay
  <2>10. TurnInv(t)'
    BY <1>1, <1>2, <2>6, <2>9 DEF TurnInv, Looking, RecordsStay
  <2>11. SameHands(frame[t], frame'[t])
    BY <2>2, <2>5, <2>9 DEF SameHands
  <2> QED  BY <1>1, <1>2, <2>8, <2>9, <2>10, <2>11 DEF Local, RecordsStay
<1> QED  BY <1>5, <1>6

LEMMA PrecheckFailsLocal ==
  ASSUME Inv, NEW t \in Turn, PrecheckFails(t)
  PROVE  Local(t)
<1>1. run[t] = "precheck" /\ UNCHANGED <<sessions, call, expired, agent>> /\ RecordsStay
  BY DEF PrecheckFails, store, RecordsStay
<1>2. /\ TypeOK /\ TurnInv(t) /\ result[t] = NoResult /\ Working(t, frame[t])
      /\ ~frame[t].late /\ agent[t] = "off"
  BY <1>1, AtWork DEF TurnInv
<1>3. PICK g : g = [frame[t] EXCEPT !.toolFailed = TRUE]
  OBVIOUS
<1>4. Working(t, g) /\ Held(g) /\ SameHands(frame[t], g) /\ ~g.late
  BY <1>2, <1>3, FailedShape DEF Working, Frame
<1>5. frame' = [frame EXCEPT ![t] = g] /\ run' = [run EXCEPT ![t] = "decide"]
  BY <1>3 DEF PrecheckFails, Update, Goto
<1>6. TypeOK'
  BY <1>1, <1>2, <1>4, <1>5 DEF TypeOK, RecordsStay, database, Working
<1>7. /\ frame'[t] = g /\ agent'[t] = "off" /\ run'[t] = "decide" /\ \A s \in Turn \ {t} : Same(s)
  BY <1>1, <1>2, <1>5 DEF TypeOK, Same, RecordsStay
<1>8. Closed(t, g)' /\ Held(g)' /\ ~g.sealed
  BY <1>1, <1>4 DEF Working, Closed, Held, Requested, RecordsStay, database
<1>9. TurnInv(t)'
  BY <1>1, <1>2, <1>7, <1>8 DEF TurnInv, Looking, RecordsStay
<1> QED  BY <1>1, <1>2, <1>4, <1>6, <1>7, <1>9 DEF Local, RecordsStay, Working

LEMMA ClockLocal ==
  ASSUME Inv, NEW t \in Turn, Clock(t)
  PROVE  Local(t)
<1>1. /\ run[t] \in {"precheck", "prompt"} /\ UNCHANGED <<sessions, run, call, agent, frame>> /\ RecordsStay
      /\ expired' = [expired EXCEPT ![t] = TRUE]
  BY DEF Clock, store, RecordsStay
<1>2. /\ TypeOK /\ TurnInv(t) /\ result[t] = NoResult /\ Working(t, frame[t])
      /\ SameHands(frame[t], frame[t])
  BY <1>1, AtWork
<1>3. TypeOK'
  BY <1>1, <1>2 DEF TypeOK, RecordsStay, database
<1>4. expired'[t] = TRUE /\ \A s \in Turn \ {t} : Same(s)
  BY <1>1, <1>2 DEF TypeOK, Same, RecordsStay
<1>5. Working(t, frame[t])'
  BY <1>1, <1>2, <1>4 DEF Working, Requested, RecordsStay, database
<1>6. Held(frame[t]) => Held(frame[t])'
  BY <1>1 DEF Held, RecordsStay
<1>7. TurnInv(t)'
  BY <1>1, <1>2, <1>5, <1>6 DEF TurnInv, Looking, RecordsStay
<1> QED  BY <1>1, <1>2, <1>3, <1>4, <1>7 DEF Local, RecordsStay

\* The timer ends the turn; what it takes for evidence leaves nothing under way.
LEMMA TimerFiresLocal ==
  ASSUME Inv, NEW t \in Turn, TimerFires(t)
  PROVE  Local(t)
<1>1. run[t] \in {"precheck", "prompt"} /\ UNCHANGED <<sessions, call, expired>> /\ RecordsStay
  BY DEF TimerFires, RacesDeadline, store, RecordsStay
<1>2. /\ TypeOK /\ TurnInv(t) /\ result[t] = NoResult /\ Working(t, frame[t])
  BY <1>1, AtWork
<1>3. PICK f : f = frame[t]
  OBVIOUS
<1>4. PICK b \in BOOLEAN : b = Eligible(f, Active(t))
  BY DEF Eligible
<1>5. PICK g : g = [f EXCEPT !.timedOut = TRUE, !.eligible = b]
  OBVIOUS
<1>6. f \in Frame /\ ~f.timedOut /\ ~f.sealed
  BY <1>2, <1>3 DEF Working
<1>7. /\ g \in Frame /\ SameHands(f, g) /\ ~g.sealed /\ g.timedOut /\ g.request = f.request
      /\ g.late = f.late /\ g.settled = f.settled /\ g.escalationRequested = f.escalationRequested
      /\ g.eligible = b
      /\ Eligible(g, FALSE) <=> Eligible(f, FALSE)
  BY <1>5, <1>6 DEF Frame, SameHands, Eligible, SnapshotCurrent, Verified
<1>8. b => ~Active(t) /\ Eligible(g, FALSE)
  BY <1>4, <1>7 DEF Eligible
<1>9. frame' = [frame EXCEPT ![t] = g] /\ run' = [run EXCEPT ![t] = "decide"]
  BY <1>3, <1>4, <1>5, <1>6 DEF TimerFires, Update, Goto, Expire
<1>10. PICK a \in {"off", "lookup", "absent", "present"} :
         /\ agent' = [agent EXCEPT ![t] = a]
         /\ a # "off" => agent[t] = a
  <2>1. CASE agent[t] \in {"lookup", "absent", "present"}
    <3>1. agent' = [agent EXCEPT ![t] = agent[t]]
      BY <1>2, <2>1 DEF TimerFires, TypeOK
    <3> QED  BY <2>1, <3>1
  <2>2. CASE agent[t] \notin {"lookup", "absent", "present"}
    BY <2>2 DEF TimerFires, AgentGoto
  <2> QED  BY <2>1, <2>2
<1>11. TypeOK'
  BY <1>1, <1>2, <1>7, <1>9, <1>10 DEF TypeOK, RecordsStay, database
<1>12. /\ frame'[t] = g /\ agent'[t] = a /\ run'[t] = "decide" /\ \A s \in Turn \ {t} : Same(s)
  BY <1>1, <1>2, <1>9, <1>10 DEF TypeOK, Same, RecordsStay
<1>13. b => a = "off"
  BY <1>8, <1>10 DEF Active
<1>14. Closed(t, g)' /\ Held(g)'
  BY <1>1, <1>2, <1>3, <1>7, <1>8, <1>12, <1>13 DEF Working, Closed, Held, Requested, RecordsStay, database
<1>15. a # "off" => call[t].tool \in SideEffect
  BY <1>2, <1>10 DEF TurnInv, Looking
<1>16. TurnInv(t)'
  BY <1>1, <1>2, <1>7, <1>12, <1>14, <1>15 DEF TurnInv, Looking, RecordsStay
<1>17. SameHands(frame[t], frame'[t])
  BY <1>3, <1>7, <1>12 DEF SameHands
<1> QED  BY <1>1, <1>3, <1>6, <1>11, <1>12, <1>16, <1>17 DEF Local, RecordsStay

\* What is known when the model, or a tool that is no side effect, has the turn.
LEMMA AtPrompt ==
  ASSUME Inv, NEW t \in Turn, run[t] = "prompt"
  PROVE  /\ TypeOK /\ TurnInv(t) /\ result[t] = NoResult /\ frame[t] \in Frame
         /\ Working(t, frame[t]) /\ ~frame[t].sealed /\ ~frame[t].timedOut /\ SameHands(frame[t], frame[t])
         /\ agent[t] # "tool" \/ call[t].tool # "handoff_to_human" => Held(frame[t])
         /\ UNCHANGED call => OnlyCall(t)
<1>1. /\ TypeOK /\ TurnInv(t) /\ result[t] = NoResult /\ Working(t, frame[t]) /\ SameHands(frame[t], frame[t])
  BY AtWork
<1>2. UNCHANGED call => OnlyCall(t)
  BY <1>1 DEF OnlyCall, TypeOK
<1>3. agent[t] # "tool" \/ call[t].tool # "handoff_to_human" => Held(frame[t])
  BY <1>1 DEF TurnInv
<1> QED  BY <1>1, <1>2, <1>3 DEF Working

LEMMA StopShape ==
  ASSUME NEW t, NEW f, Working(t, f), NEW g, g = StopAfterTurn(f)
  PROVE  Working(t, g) /\ SameHands(f, g) /\ (Held(f) => Held(g)) /\ g.turns = f.turns
<1>1. PICK b \in BOOLEAN : b = (f.limitReached \/ OutOfTurns(f))
  OBVIOUS
<1>2. g = [f EXCEPT !.limitReached = b]
  BY <1>1 DEF StopAfterTurn
<1> QED  BY <1>2 DEF Working, Held, Requested, SameHands, Frame

LEMMA ModelRepliesLocal ==
  ASSUME Inv, NEW t \in Turn, NEW reply \in ModelReply, ModelReplies(t, reply)
  PROVE  Local(t)
<1>1. run[t] = "prompt" /\ agent[t] = "model" /\ UNCHANGED <<sessions, call, expired>> /\ RecordsStay
  BY DEF ModelReplies, store, RecordsStay
<1>2. /\ TypeOK /\ TurnInv(t) /\ result[t] = NoResult /\ frame[t] \in Frame
      /\ Working(t, frame[t]) /\ ~frame[t].sealed /\ Held(frame[t])
  BY <1>1, AtPrompt
<1>3. PICK f : f = [frame[t] EXCEPT !.reply = reply]
  OBVIOUS
<1>4. reply \in Reply
  BY TurnAssumption DEF Reply
<1>5. Working(t, f) /\ Held(f) /\ SameHands(frame[t], f)
  BY <1>2, <1>3, <1>4 DEF Working, Held, Requested, SameHands, Frame
<1>6. PICK g : g \in {f, StopAfterTurn(f)} /\ EndPrompt(t, g)
  BY <1>3 DEF ModelReplies
<1>7. Working(t, g) /\ Held(g) /\ SameHands(frame[t], g)
  <2>1. CASE g = f
    BY <1>5, <2>1
  <2>2. CASE g = StopAfterTurn(f)
    BY <1>5, <2>2, StopShape DEF SameHands
  <2> QED  BY <1>6, <2>1, <2>2
<1> QED  BY <1>1, <1>2, <1>6, <1>7, EndPromptLocal

LEMMA NextTurnLocal ==
  ASSUME Inv, NEW t \in Turn, NextTurn(t)
  PROVE  Local(t)
<1>1. run[t] = "prompt" /\ agent[t] = "between" /\ UNCHANGED <<sessions, call, expired>> /\ RecordsStay
  BY DEF NextTurn, store, RecordsStay
<1>2. /\ TypeOK /\ TurnInv(t) /\ result[t] = NoResult /\ frame[t] \in Frame
      /\ Working(t, frame[t]) /\ ~frame[t].sealed /\ Held(frame[t]) /\ SameHands(frame[t], frame[t])
  BY <1>1, AtPrompt
<1>3. PICK f : f = StopAfterTurn(frame[t])
  OBVIOUS
<1>4. Working(t, f) /\ Held(f) /\ SameHands(frame[t], f) /\ f.turns = frame[t].turns
  BY <1>2, <1>3, StopShape
<1>5. \/ \E g \in {frame[t], f} : EndPrompt(t, g)
      \/ /\ ~OutOfTurns(f)
         /\ Update(t, StartTurn(frame[t])) /\ AgentGoto(t, "model") /\ UNCHANGED run
  BY <1>3 DEF NextTurn
<1>6. CASE \E g \in {frame[t], f} : EndPrompt(t, g)
  BY <1>1, <1>2, <1>4, <1>6, EndPromptLocal
<1>7. CASE /\ ~OutOfTurns(f)
           /\ Update(t, StartTurn(frame[t])) /\ AgentGoto(t, "model") /\ UNCHANGED run
  <2>1. PICK h : h = frame[t]
    OBVIOUS
  <2>2. MaxTurns \in Nat /\ h.turns \in Nat /\ ~(h.turns >= MaxTurns)
    BY <1>2, <1>4, <1>7, <2>1, TurnAssumption DEF OutOfTurns, Frame, TurnBudget
  <2>3. h.turns + 1 <= TurnBudget /\ h.turns <= TurnBudget /\ TurnBudget \in Nat
    BY <2>2 DEF TurnBudget
  <2>4. /\ StartTurn(h) \in Frame /\ SameHands(h, StartTurn(h))
        /\ StartTurn(h) = [h EXCEPT !.turns = h.turns + 1, !.terminal = TRUE]
        /\ StartTurn(h).turns = h.turns + 1
    BY <1>2, <2>1, <2>3, StartTurnShape
  <2>5. PICK g : g = StartTurn(h)
    OBVIOUS
  <2>6. Working(t, g)' /\ Held(g)'
    <3>1. Working(t, g) /\ Held(g)
      BY <1>2, <2>1, <2>3, <2>4, <2>5 DEF Working, Held, Requested, Frame
    <3> QED  BY <1>1, <3>1 DEF Working, Held, Requested, RecordsStay, database
  <2>7. frame' = [frame EXCEPT ![t] = g] /\ agent' = [agent EXCEPT ![t] = "model"] /\ UNCHANGED run
    BY <1>7, <2>1, <2>5 DEF Update, AgentGoto
  <2>8. TypeOK'
    BY <1>1, <1>2, <2>4, <2>5, <2>7 DEF TypeOK, RecordsStay, database
  <2>9. frame'[t] = g /\ agent'[t] = "model" /\ run'[t] = "prompt" /\ \A s \in Turn \ {t} : Same(s)
    BY <1>1, <1>2, <2>7 DEF TypeOK, Same, RecordsStay
  <2>10. TurnInv(t)'
    BY <1>1, <1>2, <2>6, <2>9 DEF TurnInv, Looking, RecordsStay
  <2> QED  BY <1>1, <1>2, <2>1, <2>4, <2>5, <2>8, <2>9, <2>10 DEF Local, RecordsStay
<1> QED  BY <1>5, <1>6, <1>7

LEMMA ToolFailsLocal ==
  ASSUME Inv, NEW t \in Turn, ToolFails(t)
  PROVE  Local(t)
<1>1. run[t] = "prompt" /\ UNCHANGED <<sessions, run, call, expired>> /\ RecordsStay /\ Block(t, frame[t], FALSE)
  BY DEF ToolFails, store, RecordsStay
<1> QED  BY <1>1, AtPrompt, BlockLocal

LEMMA FaqEndsLocal ==
  ASSUME Inv, NEW t \in Turn, NEW match \in BOOLEAN, FaqEnds(t, match)
  PROVE  Local(t)
<1>1. /\ run[t] = "prompt" /\ call[t].tool = "search_faq" /\ UNCHANGED <<sessions, run, call, expired>>
      /\ RecordsStay
  BY DEF FaqEnds, AtTool, store, RecordsStay
<1>2. /\ TypeOK /\ TurnInv(t) /\ result[t] = NoResult /\ frame[t] \in Frame
      /\ Working(t, frame[t]) /\ ~frame[t].sealed /\ Held(frame[t]) /\ OnlyCall(t)
  BY <1>1, AtPrompt
<1>3. PICK x \in BOOLEAN : x = expired[t]
  BY <1>2 DEF TypeOK
<1>4. PICK f \in Frame : f = frame[t]
  BY <1>2
<1>5. PICK g : g = IF match THEN [f EXCEPT !.ground = [source |-> "faq", routing |-> "faq"],
                                          !.settled = FALSE, !.late = x]
                   ELSE [f EXCEPT !.noEvidence = TRUE, !.piFaqMiss = TRUE]
  OBVIOUS
<1>6. EndTool(t, g, FALSE)
  BY <1>3, <1>4, <1>5 DEF FaqEnds
<1>7. Working(t, g) /\ Held(g) /\ SameHands(frame[t], g)
  <2>1. CASE match
    <3>1. g = [f EXCEPT !.ground = [source |-> "faq", routing |-> "faq"], !.settled = FALSE, !.late = x]
      BY <1>5, <2>1
    <3>2. PICK e \in Frame : e = [f EXCEPT !.ground = [source |-> "faq", routing |-> "faq"]]
      BY DEF Frame
    <3>3. g \in Frame
      <4>1. [e EXCEPT !.settled = FALSE, !.late = x] \in Frame
        BY DEF Frame
      <4> QED  BY <3>1, <3>2, <4>1
    <3>4. /\ g.request = f.request /\ g.timedOut = f.timedOut /\ g.sealed = f.sealed
          /\ g.eligible = f.eligible /\ ~g.settled /\ g.late = x /\ g.turns = f.turns
          /\ g.fellBack = f.fellBack /\ g.escalationRequested = f.escalationRequested
          /\ g.keys = f.keys /\ g.handoff = f.handoff /\ g.toolFailed = f.toolFailed
      BY <3>1 DEF Frame
    <3> QED  BY <1>2, <1>3, <1>4, <3>3, <3>4 DEF Working, Held, Requested, SameHands
  <2>2. CASE ~match
    <3>1. g = [f EXCEPT !.noEvidence = TRUE, !.piFaqMiss = TRUE]
      BY <1>5, <2>2
    <3> QED  BY <1>2, <1>4, <3>1 DEF Working, Held, Requested, SameHands, Frame
  <2> QED  BY <2>1, <2>2
<1> QED  BY <1>1, <1>2, <1>6, <1>7, EndToolLocal

LEMMA SearchEndsLocal ==
  ASSUME Inv, NEW t \in Turn, NEW routing \in Routing, NEW covered \in BOOLEAN,
         SearchEnds(t, routing, covered)
  PROVE  Local(t)
<1>1. /\ run[t] = "prompt" /\ call[t].tool = "search_knowledge" /\ UNCHANGED <<sessions, call, expired>>
      /\ RecordsStay
  BY DEF SearchEnds, AtTool, store, RecordsStay
<1>2. /\ TypeOK /\ TurnInv(t) /\ result[t] = NoResult /\ frame[t] \in Frame
      /\ Working(t, frame[t]) /\ ~frame[t].sealed /\ Held(frame[t]) /\ OnlyCall(t)
  BY <1>1, AtPrompt
<1>3. PICK q \in Query : q = call[t].arg
  BY <1>1, <1>2, CallShape DEF TypeOK
<1>4. PICK e : e = AfterSearch(t, frame[t], q, routing)
  OBVIOUS
<1>5. Working(t, e) /\ SameHands(frame[t], e) /\ Held(e)
  BY <1>2, <1>4, AfterSearchShape
<1>6. PICK f : f = [e EXCEPT !.covered = covered]
  OBVIOUS
<1>7. Working(t, f) /\ SameHands(frame[t], f) /\ Held(f)
  BY <1>5, <1>6 DEF Working, Held, Requested, SameHands, Frame
<1>8. CASE expired[t]
  <2>1. CutShort(t, f)
    BY <1>3, <1>4, <1>6, <1>8 DEF SearchEnds
  <2> QED  BY <1>1, <1>2, <1>7, <2>1, CutShortLocal
<1>9. CASE ~expired[t]
  <2>1. PICK g : g = IF f.request.risk THEN f ELSE [f EXCEPT !.checked[q] = routing]
    OBVIOUS
  <2>2. EndTool(t, g, FALSE) /\ UNCHANGED run
    BY <1>3, <1>4, <1>6, <1>9, <2>1 DEF SearchEnds
  <2>3. Working(t, g) /\ SameHands(frame[t], g) /\ Held(g)
    <3>1. CASE g = f
      BY <1>7, <3>1
    <3>2. CASE g = [f EXCEPT !.checked[q] = routing]
      BY <1>7, <3>2 DEF Working, Held, Requested, SameHands, Frame
    <3> QED  BY <2>1, <3>1, <3>2
  <2> QED  BY <1>1, <1>2, <2>2, <2>3, EndToolLocal
<1> QED  BY <1>8, <1>9

\* A cached check is answered in time only, so that what it restores is not late.
LEMMA SearchCachedLocal ==
  ASSUME Inv, NEW t \in Turn, SearchCached(t)
  PROVE  Local(t)
<1>1. /\ run[t] = "prompt" /\ call[t].tool = "search_knowledge" /\ UNCHANGED <<sessions, call, expired>>
      /\ RecordsStay /\ Cached(frame[t], call[t])
  BY DEF SearchCached, AtTool, store, RecordsStay
<1>2. /\ TypeOK /\ TurnInv(t) /\ result[t] = NoResult /\ frame[t] \in Frame
      /\ Working(t, frame[t]) /\ ~frame[t].sealed /\ Held(frame[t]) /\ OnlyCall(t) /\ SameHands(frame[t], frame[t])
  BY <1>1, AtPrompt
<1>3. PICK q \in Query : q = call[t].arg
  BY <1>1, <1>2, CallShape DEF TypeOK
<1>4. PICK f \in Frame : f = frame[t]
  BY <1>2
<1>5. PICK routing \in Routing : routing = f.checked[q]
  BY <1>1, <1>3, <1>4 DEF Cached, Frame
<1>6. CASE expired[t]
  <2>1. CutShort(t, f)
    BY <1>4, <1>6 DEF SearchCached
  <2> QED  BY <1>1, <1>2, <1>4, <2>1, CutShortLocal
<1>7. CASE ~expired[t] /\ q \in f.changed /\ routing = "SINGLE_CANDIDATE"
  <2>1. Block(t, f, FALSE) /\ UNCHANGED run
    BY <1>3, <1>4, <1>5, <1>7 DEF SearchCached
  <2> QED  BY <1>1, <1>2, <1>4, <2>1, BlockLocal
<1>8. CASE ~expired[t] /\ ~(q \in f.changed /\ routing = "SINGLE_CANDIDATE")
  <2>1. PICK b \in BOOLEAN : b = (routing # "SINGLE_CANDIDATE")
    OBVIOUS
  <2>2. PICK g : g = [f EXCEPT !.ground = [source |-> q, routing |-> routing], !.late = FALSE, !.noEvidence = b]
    OBVIOUS
  <2>3. EndTool(t, g, FALSE) /\ UNCHANGED run
    BY <1>3, <1>4, <1>5, <1>8, <2>1, <2>2 DEF SearchCached
  <2>4. g \in Frame
    <3>1. PICK e \in Frame : e = [f EXCEPT !.ground = [source |-> q, routing |-> routing]]
      BY DEF Frame
    <3>2. [e EXCEPT !.late = FALSE, !.noEvidence = b] \in Frame
      BY DEF Frame
    <3> QED  BY <2>2, <3>1, <3>2
  <2>5. /\ g.request = f.request /\ g.timedOut = f.timedOut /\ g.sealed = f.sealed
        /\ g.eligible = f.eligible /\ ~g.late /\ g.turns = f.turns
        /\ g.fellBack = f.fellBack /\ g.escalationRequested = f.escalationRequested
        /\ g.keys = f.keys /\ g.handoff = f.handoff /\ g.toolFailed = f.toolFailed
    BY <2>2 DEF Frame
  <2>6. Working(t, g) /\ SameHands(frame[t], g) /\ Held(g)
    BY <1>2, <1>4, <2>4, <2>5 DEF Working, Held, Requested, SameHands
  <2> QED  BY <1>1, <1>2, <2>3, <2>6, EndToolLocal
<1> QED  BY <1>6, <1>7, <1>8

LEMMA SourceChangesLocal ==
  ASSUME Inv, NEW t \in Turn, NEW q \in Query, SourceChanges(t, q)
  PROVE  Local(t)
<1>1. /\ run[t] \in {"precheck", "prompt"} /\ UNCHANGED <<sessions, run, agent, call, expired>>
      /\ RecordsStay
  BY DEF SourceChanges, store, RecordsStay
<1>2. /\ TypeOK /\ TurnInv(t) /\ result[t] = NoResult /\ Working(t, frame[t]) /\ ~frame[t].sealed
  BY <1>1, AtWork
<1>3. PICK f \in Frame : f = frame[t]
  BY <1>2 DEF Working
<1>4. PICK g : g = [f EXCEPT !.changed = @ \cup {q}]
  OBVIOUS
<1>5. /\ g \in Frame /\ g.request = f.request /\ g.timedOut = f.timedOut /\ g.sealed = f.sealed
      /\ g.eligible = f.eligible /\ g.late = f.late /\ g.settled = f.settled /\ g.turns = f.turns
      /\ g.fellBack = f.fellBack /\ g.escalationRequested = f.escalationRequested
      /\ g.keys = f.keys /\ g.handoff = f.handoff /\ g.toolFailed = f.toolFailed
  BY <1>4 DEF Frame
<1>6. frame' = [frame EXCEPT ![t] = g]
  BY <1>3, <1>4 DEF SourceChanges, Update
<1>7. TypeOK'
  BY <1>1, <1>2, <1>5, <1>6 DEF TypeOK, RecordsStay, database
<1>8. frame'[t] = g /\ \A s \in Turn \ {t} : Same(s)
  BY <1>1, <1>2, <1>6 DEF TypeOK, Same, RecordsStay
<1>9. Working(t, g)' /\ (Held(f) => Held(g)')
  BY <1>1, <1>2, <1>3, <1>5 DEF Working, Held, Requested, RecordsStay, database
<1>10. TurnInv(t)'
  BY <1>1, <1>2, <1>3, <1>5, <1>8, <1>9 DEF TurnInv, Looking, RecordsStay
<1>11. SameHands(frame[t], frame'[t])
  BY <1>3, <1>5, <1>8 DEF SameHands
<1> QED  BY <1>1, <1>2, <1>7, <1>8, <1>10, <1>11 DEF Local, RecordsStay

LEMMA AuditAnswersLocal ==
  ASSUME Inv, NEW t \in Turn, AuditAnswers(t)
  PROVE  Local(t)
<1>1. /\ run[t] = "audit" /\ UNCHANGED <<sessions, agent, call, expired, frame>> /\ RecordsStay
  BY DEF AuditAnswers, store, RecordsStay
<1>2. TypeOK /\ TurnInv(t)
  BY DEF Inv
<1>3. PICK l \in {"returned", "rejected"} : run' = [run EXCEPT ![t] = l]
  BY DEF AuditAnswers, Goto
<1>4. TypeOK'
  BY <1>1, <1>2, <1>3 DEF TypeOK, RecordsStay, database
<1>5. run'[t] = l /\ \A s \in Turn \ {t} : Same(s)
  BY <1>1, <1>2, <1>3 DEF TypeOK, Same, RecordsStay
<1>6. Done(t)'
  BY <1>1, <1>2 DEF TurnInv, Done, Closed, Requested, Judged, RecordsStay, database
<1>7. TurnInv(t)'
  BY <1>1, <1>2, <1>5, <1>6 DEF TurnInv, Looking, Closed, Done
<1> QED  BY <1>1, <1>4, <1>5, <1>7 DEF Local, RecordsStay, SameHands

\* A lookup moves on, and its turn does not.
LEMMA LookupMoves ==
  ASSUME Inv, NEW t \in Turn, agent[t] \in Looking, NEW a \in {"off", "absent", "present"},
         agent' = [agent EXCEPT ![t] = a], UNCHANGED <<sessions, run, call, expired, frame>>, RecordsStay
  PROVE  Local(t)
<1>1. TypeOK /\ TurnInv(t)
  BY DEF Inv
<1>2. TypeOK'
  BY <1>1 DEF TypeOK, RecordsStay, database
<1>3. agent'[t] = a /\ \A s \in Turn \ {t} : Same(s)
  BY <1>1 DEF TypeOK, Same, RecordsStay
<1>4. frame[t].eligible => FALSE \/ ~Closed(t, frame[t])
  BY DEF Closed, Looking
<1>5. Closed(t, frame[t]) => Closed(t, frame[t])'
  BY <1>4 DEF Closed, Requested, RecordsStay, database
<1>6. Working(t, frame[t]) => Working(t, frame[t])'
  BY DEF Working, Requested, RecordsStay, database
<1>7. Done(t) => Done(t)'
  BY <1>5 DEF Done, Judged, RecordsStay, database
<1>8. Held(frame[t]) => Held(frame[t])'
  BY DEF Held, RecordsStay
<1>9. ~Unbegun(t) /\ run[t] # "precheck" /\ run[t] # "idle" /\ agent[t] # "tool"
  BY <1>1 DEF Unbegun, Looking, TurnInv
<1>10. TurnInv(t)'
  BY <1>1, <1>3, <1>5, <1>6, <1>7, <1>8, <1>9 DEF TurnInv, Looking, RecordsStay
<1> QED  BY <1>2, <1>3, <1>10 DEF Local, RecordsStay, SameHands

LEMMA LookupReadsLocal ==
  ASSUME Inv, NEW t \in Turn, LookupReads(t)
  PROVE  Local(t)
<1>1. PICK a \in {"absent", "present"} : agent' = [agent EXCEPT ![t] = a]
  BY DEF LookupReads, AgentGoto
<1> QED  BY <1>1, LookupMoves DEF LookupReads, store, RecordsStay, Looking

LEMMA LookupFailsLocal ==
  ASSUME Inv, NEW t \in Turn, LookupFails(t)
  PROVE  Local(t)
<1>1. agent[t] \in Looking /\ UNCHANGED <<sessions, run, call, expired>> /\ RecordsStay
  BY DEF LookupFails, store, RecordsStay, Looking
<1>2. CASE run[t] = "prompt"
  <2>1. Block(t, frame[t], FALSE)
    BY <1>2 DEF LookupFails
  <2> QED  BY <1>1, <1>2, <2>1, AtPrompt, BlockLocal
<1>3. CASE run[t] # "prompt"
  BY <1>1, <1>3, LookupMoves DEF LookupFails, AgentGoto
<1> QED  BY <1>2, <1>3

\* A lookup whose answer reserves nothing.
LEMMA LookupRefusedLocal ==
  ASSUME Inv, NEW t \in Turn, LookupAnswers(t), ~(agent[t] = "absent" /\ Reservable(t))
  PROVE  Local(t)
<1>1. agent[t] \in Looking /\ UNCHANGED <<sessions, run, call, expired>> /\ RecordsStay
  BY DEF LookupAnswers, RecordsStay, Looking
<1>2. CASE run[t] = "prompt"
  <2>1. Block(t, frame[t], TRUE)
    BY <1>2 DEF LookupAnswers
  <2> QED  BY <1>1, <1>2, <2>1, AtPrompt, BlockLocal
<1>3. CASE run[t] # "prompt"
  BY <1>1, <1>3, LookupMoves DEF LookupAnswers, AgentGoto
<1> QED  BY <1>2, <1>3

\* A tool call begins, is refused, or comes too late.
LEMMA UseToolLocal ==
  ASSUME Inv, NEW t \in Turn, NEW c \in Call, UseTool(t, c)
  PROVE  Local(t)
<1>1. /\ run[t] = "prompt" /\ agent[t] \in {"model", "between"} /\ UNCHANGED <<sessions, expired>>
      /\ RecordsStay /\ frame[t].toolCalls <= MaxToolCalls /\ call' = [call EXCEPT ![t] = c]
  BY DEF UseTool, store, RecordsStay
<1>2. /\ TypeOK /\ TurnInv(t) /\ result[t] = NoResult /\ frame[t] \in Frame
      /\ Working(t, frame[t]) /\ ~frame[t].sealed /\ Held(frame[t])
  BY <1>1, AtPrompt
<1>3. OnlyCall(t) /\ call'[t] = c
  BY <1>1, <1>2 DEF OnlyCall, TypeOK
<1>4. PICK f \in Frame : f = [frame[t] EXCEPT !.reply = "toolUse"]
  BY <1>2 DEF Frame, Reply
<1>5. Working(t, f) /\ Held(f) /\ SameHands(frame[t], f) /\ f.toolCalls = frame[t].toolCalls
  BY <1>2, <1>4 DEF Working, Held, Requested, SameHands, Frame
<1>6. PICK n \in 0..MaxToolCalls + 1 : n = IF Cached(f, c) THEN f.toolCalls ELSE f.toolCalls + 1
  BY <1>1, <1>4, <1>5, TurnAssumption DEF Frame
<1>7. PICK g : g = [f EXCEPT !.toolCalls = n]
  OBVIOUS
<1>8. g = [f EXCEPT !.toolCalls = IF Cached(f, c) THEN @ ELSE @ + 1]
  BY <1>6, <1>7
<1>9. Working(t, g) /\ Held(g) /\ SameHands(frame[t], g) /\ g \in Frame
  BY <1>5, <1>7 DEF Working, Held, Requested, SameHands, Frame
<1>10. CASE expired[t] /\ CutShort(t, f)
  BY <1>1, <1>2, <1>3, <1>5, <1>10, CutShortLocal
<1>11. CASE Block(t, [g EXCEPT !.limitReached = TRUE], TRUE) /\ UNCHANGED run
  <2>1. PICK h : h = [g EXCEPT !.limitReached = TRUE]
    OBVIOUS
  <2>2. Working(t, h) /\ SameHands(frame[t], h)
    BY <1>9, <2>1 DEF Working, Requested, SameHands, Frame
  <2> QED  BY <1>1, <1>2, <1>3, <1>11, <2>1, <2>2, BlockLocal
<1>12. CASE Block(t, g, TRUE) /\ UNCHANGED run
  BY <1>1, <1>2, <1>3, <1>9, <1>12, BlockLocal
<1>13. CASE /\ Update(t, [g EXCEPT !.piChecked = @ \/ (c.tool = "search_knowledge" /\ ~Cached(g, c))])
            /\ AgentGoto(t, IF c.tool \in {"search_faq", "search_knowledge"} THEN "tool" ELSE "lookup")
            /\ UNCHANGED run
  <2>1. PICK b \in BOOLEAN : b = (g.piChecked \/ (c.tool = "search_knowledge" /\ ~Cached(g, c)))
    OBVIOUS
  <2>2. PICK h : h = [g EXCEPT !.piChecked = b]
    OBVIOUS
  <2>3. Working(t, h) /\ Held(h) /\ SameHands(frame[t], h) /\ h \in Frame
    BY <1>9, <2>2 DEF Working, Held, Requested, SameHands, Frame
  <2>4. PICK a \in {"tool", "lookup"} :
          /\ agent' = [agent EXCEPT ![t] = a]
          /\ a = "tool" <=> c.tool \in {"search_faq", "search_knowledge"}
    BY <1>13 DEF AgentGoto
  <2>5. frame' = [frame EXCEPT ![t] = h]
    BY <1>13, <2>1, <2>2 DEF Update
  <2>6. TypeOK'
    BY <1>1, <1>2, <1>3, <1>13, <2>3, <2>4, <2>5 DEF TypeOK, RecordsStay, database, OnlyCall
  <2>7. frame'[t] = h /\ agent'[t] = a /\ run'[t] = "prompt" /\ \A s \in Turn \ {t} : Same(s)
    BY <1>1, <1>2, <1>3, <1>13, <2>4, <2>5 DEF TypeOK, Same, RecordsStay, OnlyCall
  <2>8. Working(t, h)' /\ Held(h)'
    BY <1>1, <2>3 DEF Working, Held, Requested, RecordsStay, database
  <2>9. a = "lookup" => c.tool \in SideEffect
    BY <2>4, CallShape DEF SideEffect
  <2>10. TurnInv(t)'
    BY <1>1, <1>2, <1>3, <2>7, <2>8, <2>9 DEF TurnInv, Looking, RecordsStay
  <2> QED  BY <1>1, <1>2, <2>3, <2>6, <2>7, <2>10 DEF Local, RecordsStay
<1>14. \/ expired[t] /\ CutShort(t, f)
       \/ Block(t, [g EXCEPT !.limitReached = TRUE], TRUE) /\ UNCHANGED run
       \/ Block(t, g, TRUE) /\ UNCHANGED run
       \/ /\ Update(t, [g EXCEPT !.piChecked = @ \/ (c.tool = "search_knowledge" /\ ~Cached(g, c))])
          /\ AgentGoto(t, IF c.tool \in {"search_faq", "search_knowledge"} THEN "tool" ELSE "lookup")
          /\ UNCHANGED run
  BY <1>4, <1>8 DEF UseTool
<1> QED  BY <1>10, <1>11, <1>12, <1>13, <1>14

\* A turn begins on a session of its customer, or is refused.
LEMMA StartLocal ==
  ASSUME Inv, NEW t \in Turn, NEW r \in Request, Start(t, r)
  PROVE  Local(t)
<1>1. run[t] = "idle" /\ UNCHANGED <<call, expired>> /\ RecordsStay
  BY DEF Start, RecordsStay
<1>2. /\ TypeOK /\ TurnInv(t) /\ frame[t] = NewFrame /\ agent[t] = "off" /\ result[t] = NoResult
  BY <1>1 DEF Inv, TurnInv, Unbegun
<1>3. PICK f : f = [NewFrame EXCEPT !.request = r]
  OBVIOUS
<1>4. NewFrame \in Frame
  <2>1. TurnBudget \in Nat
    BY TurnAssumption DEF TurnBudget
  <2>2. NoGround \in [source : Query \cup {"faq", None}, routing : Routing \cup {"faq", "none"}]
    BY DEF NoGround
  <2>3. [q \in Query |-> "none"] \in [Query -> Routing \cup {"none"}]
    OBVIOUS
  <2>4. 0 \in 0..TurnBudget + 1 /\ 0 \in 0..MaxToolCalls + 1
    BY <2>1, TurnAssumption
  <2> QED  BY <2>2, <2>3, <2>4 DEF NewFrame, Frame, Reply
<1>5. f \in Frame
  BY <1>3, <1>4 DEF Frame
<1>6. /\ f.request = r /\ ~f.timedOut /\ ~f.sealed /\ ~f.eligible /\ ~f.late /\ f.turns = 0
      /\ ~f.escalationRequested /\ f.keys = {} /\ ~f.handoff
      /\ NewFrame.keys = {} /\ ~NewFrame.handoff /\ ~NewFrame.sealed /\ ~NewFrame.timedOut
  BY <1>3 DEF NewFrame
<1>6a. f.sealed = FALSE /\ f.handoff = FALSE /\ NewFrame.sealed = FALSE /\ NewFrame.handoff = FALSE
  BY <1>3 DEF NewFrame
<1>7. r \in RequestType
  BY TurnAssumption
<1>8. CASE sessions[r.conversation] \in {None, r.customer}
  <2>1. sessions' \in [Conversation -> Customer \cup {None}]
    BY <1>2, <1>7, <1>8 DEF Start, TypeOK, RequestType
  <2>2. CASE Update(t, StartTurn(f)) /\ Goto(t, "prompt") /\ AgentGoto(t, "model")
    <3>1. TurnBudget \in Nat
      BY TurnAssumption DEF TurnBudget
    <3>2. f.turns <= TurnBudget
      BY <1>6, <3>1
    <3>3. /\ StartTurn(f) \in Frame /\ SameHands(f, StartTurn(f))
          /\ StartTurn(f) = [f EXCEPT !.turns = f.turns + 1, !.terminal = TRUE]
          /\ StartTurn(f).turns = f.turns + 1
      BY <1>5, <3>2, StartTurnShape
    <3>4. PICK g : g = StartTurn(f)
      OBVIOUS
    <3>5. /\ g \in Frame /\ g.request = r /\ ~g.timedOut /\ ~g.sealed /\ ~g.eligible /\ ~g.late /\ g.turns = 1
          /\ ~g.escalationRequested /\ g.keys = {} /\ ~g.handoff
          /\ g.sealed = FALSE /\ g.handoff = FALSE
      BY <1>5, <1>6, <1>6a, <3>3, <3>4 DEF Frame
    <3>6. /\ frame' = [frame EXCEPT ![t] = g] /\ run' = [run EXCEPT ![t] = "prompt"]
          /\ agent' = [agent EXCEPT ![t] = "model"]
      BY <2>2, <3>4 DEF Update, Goto, AgentGoto
    <3>7. TypeOK'
      BY <1>1, <1>2, <2>1, <3>5, <3>6 DEF TypeOK, RecordsStay, database
    <3>8. frame'[t] = g /\ agent'[t] = "model" /\ run'[t] = "prompt" /\ \A s \in Turn \ {t} : Same(s)
      BY <1>1, <1>2, <3>6 DEF TypeOK, Same, RecordsStay
    <3>9. Working(t, g)' /\ Held(g)'
      <4>1. g.turns <= TurnBudget
        BY <3>5, TurnAssumption DEF TurnBudget
      <4> QED  BY <3>5, <4>1 DEF Working, Held, Requested
    <3>10. TurnInv(t)'
      BY <1>1, <1>2, <3>8, <3>9 DEF TurnInv, Looking, RecordsStay
    <3>11. SameHands(frame[t], frame'[t])
      BY <1>2, <1>6, <1>6a, <3>5, <3>8 DEF SameHands
    <3> QED  BY <1>1, <1>2, <1>6, <3>7, <3>8, <3>10, <3>11 DEF Local, RecordsStay
  <2>3. CASE /\ Update(t, [f EXCEPT !.toolCalls = 1, !.limitReached = MaxToolCalls < 1])
             /\ Goto(t, IF MaxToolCalls < 1 THEN "decide" ELSE "precheck")
             /\ UNCHANGED agent
    <3>1. PICK b \in BOOLEAN : b = (MaxToolCalls < 1)
      <4>1. (MaxToolCalls < 1) \in BOOLEAN
        BY TurnAssumption
      <4> QED  BY <4>1
    <3>2. PICK n \in 0..MaxToolCalls + 1 : n = 1
      BY TurnAssumption
    <3>3. PICK g : g = [f EXCEPT !.toolCalls = n, !.limitReached = b]
      OBVIOUS
    <3>4. /\ g \in Frame /\ g.request = r /\ ~g.timedOut /\ ~g.sealed /\ ~g.eligible /\ ~g.late /\ g.turns = 0
          /\ ~g.escalationRequested /\ g.keys = {} /\ ~g.handoff
          /\ g.sealed = FALSE /\ g.handoff = FALSE
      BY <1>5, <1>6, <1>6a, <3>3 DEF Frame
    <3>5. PICK l \in {"decide", "precheck"} : run' = [run EXCEPT ![t] = l]
      BY <2>3 DEF Goto
    <3>6. frame' = [frame EXCEPT ![t] = g]
      BY <2>3, <3>1, <3>2, <3>3 DEF Update
    <3>7. TypeOK'
      BY <1>1, <1>2, <2>1, <2>3, <3>4, <3>5, <3>6 DEF TypeOK, RecordsStay, database
    <3>8. frame'[t] = g /\ agent'[t] = "off" /\ run'[t] = l /\ \A s \in Turn \ {t} : Same(s)
      BY <1>1, <1>2, <2>3, <3>5, <3>6 DEF TypeOK, Same, RecordsStay
    <3>9. Working(t, g)' /\ Held(g)' /\ Closed(t, g)'
      <4>1. g.turns <= TurnBudget
        BY <3>4, TurnAssumption DEF TurnBudget
      <4> QED  BY <3>4, <4>1 DEF Working, Held, Requested, Closed
    <3>10. TurnInv(t)'
      BY <1>1, <1>2, <3>4, <3>8, <3>9 DEF TurnInv, Looking, RecordsStay
    <3>11. SameHands(frame[t], frame'[t])
      BY <1>2, <1>6, <1>6a, <3>4, <3>8 DEF SameHands
    <3> QED  BY <1>1, <1>2, <1>6, <3>7, <3>8, <3>10, <3>11 DEF Local, RecordsStay
  <2> QED  BY <1>3, <1>8, <2>2, <2>3 DEF Start
<1>9. CASE sessions[r.conversation] \notin {None, r.customer}
  <2>1. run' = [run EXCEPT ![t] = "rejected"] /\ UNCHANGED <<sessions, agent, frame>>
    BY <1>9 DEF Start, Goto
  <2>2. TypeOK'
    BY <1>1, <1>2, <2>1 DEF TypeOK, RecordsStay, database
  <2>3. run'[t] = "rejected" /\ \A s \in Turn \ {t} : Same(s)
    BY <1>1, <1>2, <2>1 DEF TypeOK, Same, RecordsStay
  <2>4. TurnInv(t)'
    BY <1>1, <1>2, <2>1, <2>3 DEF TurnInv, Looking, Unbegun, RecordsStay
  <2> QED  BY <1>1, <2>1, <2>2, <2>3, <2>4 DEF Local, RecordsStay, SameHands
<1> QED  BY <1>8, <1>9

-----------------------------------------------------------------------------
(* Reservations.                                                           *)

\* A turn that reserves something when a lookup answers, in its prompt or later.
LEMMA ReservingTurn ==
  ASSUME Inv, NEW t \in Turn, agent[t] \in Looking, NEW f \in Frame, f = frame[t],
         NEW g \in Frame, NEW K \in SUBSET Key, NEW h \in BOOLEAN,
         g = [f EXCEPT !.keys = K, !.handoff = h],
         f.keys \subseteq K, h => f.handoff \/ call[t].tool = "handoff_to_human",
         frame'[t] = g, agent'[t] = IF run[t] = "prompt" THEN "tool" ELSE "off",
         run'[t] = run[t], call'[t] = call[t], expired'[t] = expired[t], result'[t] = result[t],
         UNCHANGED <<handoffs, database>>
  PROVE  TurnInv(t)'
<1>1. /\ g.request = f.request /\ g.timedOut = f.timedOut /\ g.sealed = f.sealed
      /\ g.eligible = f.eligible /\ g.late = f.late /\ g.settled = f.settled /\ g.turns = f.turns
      /\ g.fellBack = f.fellBack /\ g.escalationRequested = f.escalationRequested
      /\ g.toolFailed = f.toolFailed /\ g.ground = f.ground /\ g.changed = f.changed
      /\ g.keys = K /\ g.handoff = h
  BY DEF Frame
<1>2. TypeOK /\ TurnInv(t)
  BY DEF Inv
<1>3. /\ run[t] \notin {"idle", "precheck"} /\ (run[t] # "prompt" => f.timedOut)
      /\ call[t] \in Call
  <2>1. call[t].tool \in SideEffect /\ run[t] \notin {"idle", "precheck"}
        /\ (run[t] # "prompt" => f.timedOut)
    BY <1>2 DEF TurnInv
  <2> QED  BY <1>2, <2>1, CallShape DEF TypeOK, SideEffect
<1>4. CASE run[t] = "prompt"
  <2>1. Working(t, f) /\ result[t] = NoResult /\ Held(f)
    BY <1>2, <1>4 DEF TurnInv, Looking
  <2>2. Working(t, g)'
    BY <1>1, <2>1 DEF Working, Requested, database
  <2>3. Held(g)' \/ call[t].tool = "handoff_to_human"
    BY <1>1, <2>1 DEF Held
  <2> QED  BY <1>2, <1>3, <1>4, <2>1, <2>2, <2>3 DEF TurnInv, Looking
<1>5. CASE run[t] # "prompt"
  <2>1. f.timedOut /\ ~Unbegun(t)
    BY <1>2, <1>3, <1>5 DEF Unbegun, Looking
  <2>2. Closed(t, f) => ~f.eligible /\ Closed(t, g)'
    BY <1>1 DEF Closed, Looking, Requested, database
  <2>3. Done(t) => Done(t)'
    BY <1>1, <2>1, <2>2 DEF Done, Judged, SnapshotCurrent, Verified, database
  <2>4. Held(g)'
    BY <1>1, <2>1 DEF Held
  <2> QED  BY <1>1, <1>2, <1>3, <1>5, <2>1, <2>2, <2>3, <2>4 DEF TurnInv, Looking
<1> QED  BY <1>4, <1>5

\* What the answer of a lookup does when nobody holds the reservation.
LEMMA AnswerShape ==
  ASSUME Inv, NEW t \in Turn, LookupAnswers(t), agent[t] = "absent", Reservable(t)
  PROVE  /\ TypeOK /\ agent[t] \in Looking /\ Reserve(t) /\ call[t] \in Call
         /\ call[t].tool \in SideEffect
         /\ UNCHANGED <<sessions, tickets, handoffs, database, run, call, expired, result>>
         /\ agent' = [agent EXCEPT ![t] = IF run[t] = "prompt" THEN "tool" ELSE "off"]
         /\ writes' = IF run[t] = "prompt" THEN writes \cup {WriteOf(t)} ELSE writes
         /\ frame[t].request \in Request /\ frame[t].request.conversation \in Conversation
<1>1. TypeOK /\ TurnInv(t) /\ agent[t] \in Looking
  BY DEF Inv, Looking
<1>2. call[t].tool \in SideEffect /\ run[t] \notin {"idle", "precheck"} /\ call[t] \in Call
  <2>1. call[t].tool \in SideEffect /\ run[t] \notin {"idle", "precheck"}
    BY <1>1 DEF TurnInv
  <2> QED  BY <1>1, <2>1, CallShape DEF TypeOK, SideEffect
<1>3. frame[t].request \in Request
  <2>1. run[t] = "prompt" => Working(t, frame[t])
    BY <1>1 DEF TurnInv
  <2>2. run[t] # "prompt" => Closed(t, frame[t])
    <3>1. ~Unbegun(t)
      BY <1>1 DEF Unbegun, Looking
    <3> QED  BY <1>1, <1>2, <3>1 DEF TurnInv, Done, TypeOK
  <2> QED  BY <2>1, <2>2 DEF Working, Closed
<1>4. frame[t].request.conversation \in Conversation
  BY <1>3, TurnAssumption DEF RequestType
<1>5. /\ Reserve(t) /\ UNCHANGED <<sessions, tickets, handoffs, database, run, call, expired, result>>
      /\ agent' = [agent EXCEPT ![t] = IF run[t] = "prompt" THEN "tool" ELSE "off"]
      /\ writes' = IF run[t] = "prompt" THEN writes \cup {WriteOf(t)} ELSE writes
  BY DEF LookupAnswers, AgentGoto
<1> QED  BY <1>1, <1>2, <1>3, <1>4, <1>5

LEMMA ReserveTicketStep ==
  ASSUME Inv, NEW t \in Turn, LookupAnswers(t), agent[t] = "absent", Reservable(t),
         call[t].tool = "create_ticket"
  PROVE  Inv'
<1>1. /\ TypeOK /\ agent[t] \in Looking /\ Reserve(t) /\ call[t] \in Call
      /\ UNCHANGED <<sessions, tickets, handoffs, database, run, call, expired, result>>
      /\ agent' = [agent EXCEPT ![t] = IF run[t] = "prompt" THEN "tool" ELSE "off"]
      /\ writes' = IF run[t] = "prompt" THEN writes \cup {WriteOf(t)} ELSE writes
  BY AnswerShape
<1>2. PICK k \in Key : k = call[t].arg
  BY <1>1, CallShape
<1>3. k \notin tickets /\ k \notin ticketReservations
  BY <1>2 DEF Reservable
<1>4. PICK f \in Frame : f = frame[t]
  BY <1>1 DEF TypeOK
<1>5. PICK g \in Frame : g = [f EXCEPT !.keys = f.keys \cup {k}]
  BY DEF Frame
<1>6. /\ frame' = [frame EXCEPT ![t] = g] /\ ticketReservations' = ticketReservations \cup {k}
      /\ UNCHANGED handoffReservations
  BY <1>1, <1>2, <1>4, <1>5 DEF Reserve, Update
<1>7. /\ frame'[t] = g /\ agent'[t] = IF run[t] = "prompt" THEN "tool" ELSE "off"
      /\ \A s \in Turn \ {t} : Same(s)
  BY <1>1, <1>6 DEF TypeOK, Same
<1>8. /\ g.keys = f.keys \cup {k} /\ g.handoff = f.handoff /\ g.sealed = f.sealed
      /\ g.request = f.request /\ g.timedOut = f.timedOut
  BY <1>5 DEF Frame
<1>9. WriteOf(t) = [turn |-> t, stage |-> "sent", kind |-> "ticket", arg |-> k]
  BY <1>2 DEF WriteOf
<1>10. TypeOK'
  <2>1. WriteOf(t) \in Write
    BY <1>9 DEF Write
  <2> QED  BY <1>1, <1>6, <2>1 DEF TypeOK, database
<1>11. ASSUME NEW s \in Turn PROVE TurnInv(s)'
  <2>1. CASE s = t
    <3>1. PICK K \in SUBSET Key, h \in BOOLEAN : K = f.keys \cup {k} /\ h = f.handoff
      BY DEF Frame
    <3>2. g = [f EXCEPT !.keys = K, !.handoff = h]
      BY <1>5, <3>1 DEF Frame
    <3>3. /\ f.keys \subseteq K /\ (h => f.handoff \/ call[t].tool = "handoff_to_human")
          /\ run'[t] = run[t] /\ call'[t] = call[t] /\ expired'[t] = expired[t] /\ result'[t] = result[t]
          /\ UNCHANGED <<handoffs, database>>
      BY <1>1, <3>1
    <3> QED  BY <1>1, <1>4, <1>7, <2>1, <3>2, <3>3, ReservingTurn
  <2>2. CASE s # t
    BY <1>1, <1>7, <2>2, OthersStay DEF Inv, database
  <2> QED  BY <2>1, <2>2
<1>12. ASSUME NEW s \in Turn, s # t PROVE frame'[s] = frame[s]
  BY <1>7, <1>12 DEF Same
<1>13. TicketInv'
  <2>1. \A s \in Turn : Open(s) => k \notin frame[s].keys
    BY <1>3 DEF Inv, TicketInv
  <2>2. Open(t) \/ frame[t].timedOut
    <3>1. run[t] = "prompt" => Open(t)
      BY DEF Inv, TurnInv, Working, Open
    <3>2. run[t] # "prompt" => frame[t].timedOut
      BY <1>1 DEF Inv, TurnInv
    <3> QED  BY <3>1, <3>2
  <2>3. (tickets \cap ticketReservations = {})'
    BY <1>1, <1>3, <1>6 DEF Inv, TicketInv
  <2>4. ASSUME NEW s \in Turn, Open(s)' PROVE frame'[s].keys \subseteq tickets' \cup ticketReservations'
    BY <1>1, <1>4, <1>6, <1>7, <1>8, <1>12, <2>4 DEF Inv, TicketInv, Open
  <2>5. ASSUME NEW s \in Turn, NEW u \in Turn, Open(s)', Open(u)', frame'[s].keys \cap frame'[u].keys # {}
        PROVE  s = u
    BY <1>4, <1>7, <1>8, <1>12, <2>1, <2>5 DEF Inv, TicketInv, Open
  <2>6. ASSUME NEW j \in ticketReservations'
        PROVE  \E s \in Turn : j \in frame'[s].keys /\ (Open(s)' \/ frame'[s].timedOut)
    <3>1. CASE j = k
      BY <1>4, <1>7, <1>8, <2>2, <3>1 DEF Open
    <3>2. CASE j \in ticketReservations
      <4>1. PICK s \in Turn : j \in frame[s].keys /\ (Open(s) \/ frame[s].timedOut)
        BY <3>2 DEF Inv, TicketInv
      <4> QED  BY <1>4, <1>7, <1>8, <1>12, <4>1 DEF Open
    <3> QED  BY <1>6, <3>1, <3>2
  <2> QED  BY <2>3, <2>4, <2>5, <2>6 DEF TicketInv
<1>14. HandoffInv'
  <2>1. \A s \in Turn : /\ frame'[s].handoff = frame[s].handoff /\ frame'[s].request = frame[s].request
                        /\ frame'[s].sealed = frame[s].sealed /\ frame'[s].timedOut = frame[s].timedOut
    BY <1>4, <1>7, <1>8, <1>12
  <2> QED  BY <1>1, <1>6, <2>1 DEF Inv, HandoffInv, Open, Hands, ConversationOf
<1>15. WriteInv'
  <2>1. \A w \in writes : w.turn \in Turn
    BY <1>1 DEF TypeOK, Write
  <2>2. \A s \in Turn : /\ frame[s].keys \subseteq frame'[s].keys /\ frame'[s].handoff = frame[s].handoff
                        /\ frame'[s].request = frame[s].request /\ frame'[s].sealed = frame[s].sealed
    BY <1>4, <1>7, <1>8, <1>12
  <2>3. \A w \in writes :
       /\ w.kind = "ticket" => w.arg \in frame'[w.turn].keys /\ (Succeeded(w) => w.arg \in dbTickets')
       /\ w.kind = "handoff" => Hands(w.turn, w.arg)' /\ (Succeeded(w) => w.arg \in dbHandoffs')
    BY <1>1, <2>1, <2>2 DEF Inv, WriteInv, Hands, ConversationOf, database
  <2>4. \A v, w \in writes : v.turn = w.turn /\ v.kind = w.kind /\ v.arg = w.arg /\ Open(v.turn)' => v = w
    BY <2>1, <2>2 DEF Inv, WriteInv, Open
  <2>5. CASE run[t] # "prompt"
    BY <1>1, <2>3, <2>4, <2>5 DEF Inv, WriteInv, database, Succeeded
  <2>6. CASE run[t] = "prompt"
    <3>1. PICK x : x = [turn |-> t, stage |-> "sent", kind |-> "ticket", arg |-> k]
      OBVIOUS
    <3>2. writes' = writes \cup {x}
      BY <1>1, <1>9, <2>6, <3>1
    <3>3. x.turn = t /\ x.kind = "ticket" /\ x.arg = k /\ x.stage = "sent" /\ ~Succeeded(x)
      BY <3>1 DEF Succeeded
    <3>4. k \in frame'[t].keys
      BY <1>7, <1>8
    <3>5. Open(t) => \A w \in writes : ~(w.turn = t /\ w.kind = "ticket" /\ w.arg = k)
      BY <1>3 DEF Inv, WriteInv, TicketInv
    <3>6. Open(t)' <=> Open(t)
      BY <2>2 DEF Open
    <3>7. \A v, w \in writes' : v.turn = w.turn /\ v.kind = w.kind /\ v.arg = w.arg /\ Open(v.turn)' => v = w
      BY <2>4, <3>2, <3>3, <3>5, <3>6
    <3>8. \A w \in writes' :
       /\ w.kind = "ticket" => w.arg \in frame'[w.turn].keys /\ (Succeeded(w) => w.arg \in dbTickets')
       /\ w.kind = "handoff" => Hands(w.turn, w.arg)' /\ (Succeeded(w) => w.arg \in dbHandoffs')
      BY <2>3, <3>2, <3>3, <3>4
    <3> QED  BY <1>1, <3>7, <3>8 DEF Inv, WriteInv, database, Succeeded
  <2> QED  BY <2>5, <2>6
<1> QED  BY <1>10, <1>11, <1>13, <1>14, <1>15 DEF Inv

\* A turn reserves the handoff of its conversation, with or without a write of it.
LEMMA HandoffReserved ==
  ASSUME Inv, NEW t \in Turn, NEW c \in Conversation, c \notin handoffs, c \notin handoffReservations,
         NEW f \in Frame, f = frame[t], f.request.conversation = c, ~f.sealed \/ f.timedOut,
         NEW g \in Frame, g = [f EXCEPT !.handoff = TRUE], frame' = [frame EXCEPT ![t] = g],
         NEW x, x = [turn |-> t, kind |-> "handoff", arg |-> c, stage |-> "sent"],
         NEW W \in SUBSET {x}, writes' = writes \cup W,
         handoffReservations' = handoffReservations \cup {c},
         UNCHANGED <<tickets, ticketReservations, handoffs, database>>
  PROVE  TicketInv' /\ HandoffInv' /\ WriteInv'
<1>1. /\ g.keys = f.keys /\ g.handoff /\ g.sealed = f.sealed
      /\ g.request = f.request /\ g.timedOut = f.timedOut
  BY DEF Frame
<1>2. frame'[t] = g /\ \A s \in Turn : s # t => frame'[s] = frame[s]
  BY DEF Inv, TypeOK
<1>3. \A w \in writes : w.turn \in Turn
  BY DEF Inv, TypeOK, Write
<1>4. \A s \in Turn : Open(s) /\ frame[s].handoff => frame[s].request.conversation # c
  BY DEF Inv, HandoffInv, ConversationOf
<1>5. \A s \in Turn : /\ frame'[s].keys = frame[s].keys /\ frame'[s].sealed = frame[s].sealed
                      /\ frame'[s].request = frame[s].request /\ frame'[s].timedOut = frame[s].timedOut
                      /\ frame[s].handoff => frame'[s].handoff
                      /\ s # t => frame'[s].handoff = frame[s].handoff
  BY <1>1, <1>2
<1>6. TicketInv'
  BY <1>5 DEF Inv, TicketInv, Open
<1>7. HandoffInv'
  <2>1. (handoffs \cap handoffReservations = {})'
    BY DEF Inv, HandoffInv
  <2>2. ASSUME NEW s \in Turn, Open(s)', frame'[s].handoff
        PROVE  ConversationOf(s)' \in handoffs' \cup handoffReservations'
    <3>1. CASE s = t
      BY <1>1, <1>2, <3>1 DEF ConversationOf
    <3>2. CASE s # t
      BY <1>5, <2>2, <3>2 DEF Inv, HandoffInv, Open, ConversationOf
    <3> QED  BY <3>1, <3>2
  <2>3. ASSUME NEW s \in Turn, NEW u \in Turn, Open(s)', Open(u)', frame'[s].handoff,
               Hands(u, ConversationOf(s))'
        PROVE  s = u
    <3>1. /\ Open(s) /\ Open(u) /\ frame'[u].handoff
          /\ frame[u].request.conversation = frame[s].request.conversation
      BY <1>5, <2>3 DEF Open, Hands, ConversationOf
    <3>2. CASE s # t /\ u # t
      <4>1. frame[s].handoff /\ frame[u].handoff
        BY <1>5, <2>3, <3>1, <3>2
      <4> QED  BY <3>1, <4>1 DEF Inv, HandoffInv, Hands, ConversationOf
    <3>3. CASE s = t /\ u # t
      BY <1>4, <1>5, <3>1, <3>3
    <3>4. CASE s # t /\ u = t
      BY <1>4, <1>5, <2>3, <3>1, <3>4
    <3> QED  BY <3>2, <3>3, <3>4
  <2>4. ASSUME NEW d \in handoffReservations'
        PROVE  \E s \in Turn : Hands(s, d)' /\ (Open(s)' \/ frame'[s].timedOut)
    <3>1. CASE d = c
      BY <1>1, <1>2, <3>1 DEF Open, Hands, ConversationOf
    <3>2. CASE d # c
      <4>1. PICK s \in Turn : Hands(s, d) /\ (Open(s) \/ frame[s].timedOut)
        BY <3>2 DEF Inv, HandoffInv
      <4> QED  BY <1>5, <4>1 DEF Open, Hands, ConversationOf
    <3> QED  BY <3>1, <3>2
  <2> QED  BY <2>1, <2>2, <2>3, <2>4 DEF HandoffInv
<1>8. WriteInv'
  <2>1. x.turn = t /\ x.kind = "handoff" /\ x.arg = c /\ x.stage = "sent" /\ ~Succeeded(x)
    BY DEF Succeeded
  <2>2. \A w \in writes :
       /\ w.kind = "ticket" => w.arg \in frame'[w.turn].keys /\ (Succeeded(w) => w.arg \in dbTickets')
       /\ w.kind = "handoff" => Hands(w.turn, w.arg)' /\ (Succeeded(w) => w.arg \in dbHandoffs')
    BY <1>3, <1>5 DEF Inv, WriteInv, Hands, ConversationOf, database
  <2>3. \A v, w \in writes : v.turn = w.turn /\ v.kind = w.kind /\ v.arg = w.arg /\ Open(v.turn)' => v = w
    BY <1>3, <1>5 DEF Inv, WriteInv, Open
  <2>4. Open(t) => \A w \in writes : ~(w.turn = t /\ w.kind = "handoff" /\ w.arg = c)
    BY <1>4 DEF Inv, WriteInv, Hands, ConversationOf
  <2>5. Hands(t, c)' /\ (Open(t)' <=> Open(t))
    BY <1>1, <1>2 DEF Hands, ConversationOf, Open
  <2>6. \A v, w \in writes' : v.turn = w.turn /\ v.kind = w.kind /\ v.arg = w.arg /\ Open(v.turn)' => v = w
    BY <2>1, <2>3, <2>4, <2>5
  <2>7. \A w \in writes' :
       /\ w.kind = "ticket" => w.arg \in frame'[w.turn].keys /\ (Succeeded(w) => w.arg \in dbTickets')
       /\ w.kind = "handoff" => Hands(w.turn, w.arg)' /\ (Succeeded(w) => w.arg \in dbHandoffs')
    BY <2>1, <2>2, <2>5
  <2> QED  BY <2>6, <2>7 DEF Inv, WriteInv, database, Succeeded
<1> QED  BY <1>6, <1>7, <1>8

LEMMA ReserveHandoffStep ==
  ASSUME Inv, NEW t \in Turn, LookupAnswers(t), agent[t] = "absent", Reservable(t),
         call[t].tool = "handoff_to_human"
  PROVE  Inv'
<1>1. /\ TypeOK /\ agent[t] \in Looking /\ Reserve(t) /\ call[t] \in Call
      /\ UNCHANGED <<sessions, tickets, handoffs, database, run, call, expired, result>>
      /\ agent' = [agent EXCEPT ![t] = IF run[t] = "prompt" THEN "tool" ELSE "off"]
      /\ writes' = IF run[t] = "prompt" THEN writes \cup {WriteOf(t)} ELSE writes
  BY AnswerShape
<1>2. PICK c \in Conversation : c = frame[t].request.conversation
  BY AnswerShape
<1>3. c \notin handoffs /\ c \notin handoffReservations
  BY <1>2 DEF Reservable, ConversationOf
<1>4. PICK f \in Frame : f = frame[t]
  BY <1>1 DEF TypeOK
<1>5. PICK g \in Frame : g = [f EXCEPT !.handoff = TRUE]
  BY DEF Frame
<1>6. /\ frame' = [frame EXCEPT ![t] = g] /\ handoffReservations' = handoffReservations \cup {c}
      /\ UNCHANGED ticketReservations
  BY <1>1, <1>2, <1>4, <1>5 DEF Reserve, Update, ConversationOf
<1>7. /\ frame'[t] = g /\ agent'[t] = IF run[t] = "prompt" THEN "tool" ELSE "off"
      /\ \A s \in Turn \ {t} : Same(s)
  BY <1>1, <1>6 DEF TypeOK, Same
<1>8. PICK x : x = [turn |-> t, kind |-> "handoff", arg |-> c, stage |-> "sent"]
  OBVIOUS
<1>9. WriteOf(t) = x /\ x \in Write
  BY <1>2, <1>8 DEF WriteOf, ConversationOf, Write
<1>10. PICK W \in SUBSET {x} : writes' = writes \cup W
  <2>1. CASE run[t] = "prompt"
    <3>1. writes' = writes \cup {x} /\ {x} \in SUBSET {x}
      BY <1>1, <1>9, <2>1
    <3> QED  BY <3>1
  <2>2. CASE run[t] # "prompt"
    <3>1. writes' = writes \cup {} /\ {} \in SUBSET {x}
      BY <1>1, <2>2
    <3> QED  BY <3>1
  <2> QED  BY <2>1, <2>2
<1>11. TypeOK'
  BY <1>1, <1>6, <1>9, <1>10 DEF TypeOK, database
<1>12. ASSUME NEW s \in Turn PROVE TurnInv(s)'
  <2>1. CASE s = t
    <3>1. PICK K \in SUBSET Key, h \in BOOLEAN : K = f.keys /\ h = TRUE
      BY DEF Frame
    <3>2. g = [f EXCEPT !.keys = K, !.handoff = h]
      BY <1>5, <3>1 DEF Frame
    <3>3. /\ f.keys \subseteq K /\ (h => f.handoff \/ call[t].tool = "handoff_to_human")
          /\ run'[t] = run[t] /\ call'[t] = call[t] /\ expired'[t] = expired[t] /\ result'[t] = result[t]
          /\ UNCHANGED <<handoffs, database>>
      BY <1>1, <3>1
    <3> QED  BY <1>1, <1>4, <1>7, <2>1, <3>2, <3>3, ReservingTurn
  <2>2. CASE s # t
    BY <1>1, <1>7, <2>2, OthersStay DEF Inv, database
  <2> QED  BY <2>1, <2>2
<1>13. ~f.sealed \/ f.timedOut
  <2>1. run[t] = "prompt" => ~f.sealed
    BY <1>4 DEF Inv, TurnInv, Working
  <2>2. run[t] # "prompt" => f.timedOut
    BY <1>1, <1>4 DEF Inv, TurnInv
  <2> QED  BY <2>1, <2>2
<1>14. TicketInv' /\ HandoffInv' /\ WriteInv'
  BY <1>1, <1>2, <1>3, <1>4, <1>5, <1>6, <1>8, <1>10, <1>13, HandoffReserved
<1> QED  BY <1>11, <1>12, <1>14 DEF Inv

LEMMA LookupAnswersStep ==
  ASSUME Inv, NEW t \in Turn, LookupAnswers(t)
  PROVE  Inv'
<1>1. CASE agent[t] = "absent" /\ Reservable(t)
  <2>1. call[t].tool \in SideEffect
    BY <1>1, AnswerShape
  <2> QED  BY <1>1, <2>1, ReserveTicketStep, ReserveHandoffStep DEF SideEffect
<1>2. CASE ~(agent[t] = "absent" /\ Reservable(t))
  BY <1>2, LookupRefusedLocal, LocalStep
<1> QED  BY <1>1, <1>2

-----------------------------------------------------------------------------
(* Durable writes.                                                         *)

\* The database answers a write, or loses the answer.
LEMMA PersistStep ==
  ASSUME Inv, NEW w \in writes, DatabaseWrites(w)
  PROVE  Inv'
<1>1. PICK o \in {<<TRUE, TRUE>>, <<TRUE, FALSE>>, <<FALSE, FALSE>>} : Persist(w, o[1], o[2])
  BY DEF DatabaseWrites
<1>10. o[2] => o[1]
  <2>1. CASE o = <<TRUE, TRUE>>    BY <2>1
  <2>2. CASE o = <<TRUE, FALSE>>   BY <2>2
  <2>3. CASE o = <<FALSE, FALSE>>  BY <2>3
  <2> QED  BY <2>1, <2>2, <2>3
<1>2. PICK x : x = [w EXCEPT !.stage = IF o[2] THEN "stored" ELSE "failed"]
  OBVIOUS
<1>3. /\ w.stage = "sent" /\ writes' = (writes \ {w}) \cup {x}
      /\ dbTickets' = IF o[1] /\ w.kind = "ticket" THEN dbTickets \cup {w.arg} ELSE dbTickets
      /\ dbHandoffs' = IF o[1] /\ w.kind = "handoff" THEN dbHandoffs \cup {w.arg} ELSE dbHandoffs
      /\ UNCHANGED <<store, run, agent, call, expired, frame, result>>
  BY <1>1, <1>2 DEF Persist
<1>4. TypeOK /\ w \in Write
  BY DEF Inv, TypeOK
<1>5. /\ x \in Write /\ x.turn = w.turn /\ x.kind = w.kind /\ x.arg = w.arg
      /\ Succeeded(x) => o[2]
      /\ w.kind = "ticket" => w.arg \in Key
      /\ w.kind = "handoff" => w.arg \in Conversation
  BY <1>2, <1>4 DEF Write, Succeeded
<1>6. TypeOK'
  BY <1>3, <1>4, <1>5 DEF TypeOK, store
<1>7. ASSUME NEW s \in Turn PROVE TurnInv(s)'
  BY <1>3, OthersStay DEF Inv, Same, store
<1>8. TicketInv' /\ HandoffInv'
  BY <1>3 DEF Inv, TicketInv, HandoffInv, Open, Hands, ConversationOf, store
<1>9. WriteInv'
  <2>1. tickets' \subseteq dbTickets' /\ handoffs' \subseteq dbHandoffs'
    BY <1>3 DEF Inv, WriteInv, store
  <2>2. ASSUME NEW v \in writes'
        PROVE  /\ v.kind = "ticket" => v.arg \in frame'[v.turn].keys /\ (Succeeded(v) => v.arg \in dbTickets')
               /\ v.kind = "handoff" => Hands(v.turn, v.arg)' /\ (Succeeded(v) => v.arg \in dbHandoffs')
    <3>1. CASE v \in writes
      BY <1>3, <3>1 DEF Inv, WriteInv, Hands, ConversationOf
    <3>2. CASE v = x
      BY <1>10, <1>3, <1>5, <3>2 DEF Inv, WriteInv, Hands, ConversationOf
    <3> QED  BY <1>3, <3>1, <3>2
  <2>3. ASSUME NEW v \in writes', NEW u \in writes',
               v.turn = u.turn, v.kind = u.kind, v.arg = u.arg, Open(v.turn)'
        PROVE  v = u
    <3>1. Open(v.turn)
      BY <1>3, <2>3 DEF Open
    <3>2. CASE v \in writes \ {w} /\ u \in writes \ {w}
      BY <2>3, <3>1, <3>2 DEF Inv, WriteInv
    <3>3. \A y \in writes : y.turn = w.turn /\ y.kind = w.kind /\ y.arg = w.arg /\ Open(y.turn) => y = w
      BY DEF Inv, WriteInv
    <3>4. CASE v = x
      BY <1>3, <1>5, <2>3, <3>1, <3>3, <3>4
    <3>5. CASE u = x
      BY <1>3, <1>5, <2>3, <3>1, <3>3, <3>5
    <3> QED  BY <1>3, <3>2, <3>4, <3>5
  <2> QED  BY <2>1, <2>2, <2>3 DEF WriteInv, Succeeded
<1> QED  BY <1>6, <1>7, <1>8, <1>9 DEF Inv

\* A recorded write ends its reservation: it moves from the reservations to the records.
LEMMA RecordStep ==
  ASSUME Inv, NEW w \in writes, Record(w), writes' = writes \ {w}, UNCHANGED database,
         \A s \in Turn : /\ frame'[s].keys = frame[s].keys /\ frame'[s].handoff = frame[s].handoff
                         /\ frame'[s].sealed = frame[s].sealed /\ frame'[s].request = frame[s].request
                         /\ frame'[s].timedOut = frame[s].timedOut
  PROVE  /\ TicketInv' /\ HandoffInv' /\ WriteInv'
         /\ handoffs \subseteq handoffs'
         /\ w.kind = "handoff" /\ Succeeded(w) => w.arg \in handoffs'
         /\ tickets' \subseteq Key /\ ticketReservations' \subseteq Key
         /\ handoffs' \subseteq Conversation /\ handoffReservations' \subseteq Conversation
<1>1. TypeOK /\ w \in Write
  BY DEF Inv, TypeOK
<1>2. /\ w.kind \in {"ticket", "handoff"}
      /\ w.kind = "ticket" => w.arg \in Key
      /\ w.kind = "handoff" => w.arg \in Conversation
  BY <1>1 DEF Write
<1>3. /\ w.kind = "ticket" /\ Succeeded(w) => w.arg \in dbTickets
      /\ w.kind = "handoff" /\ Succeeded(w) => w.arg \in dbHandoffs
  BY DEF Inv, WriteInv
<1>4. /\ tickets' \cup ticketReservations' = tickets \cup ticketReservations \cup (tickets' \ tickets)
      /\ tickets \subseteq tickets' /\ tickets' \subseteq dbTickets
      /\ tickets' \cap ticketReservations' = {} /\ ticketReservations' \subseteq ticketReservations
      /\ tickets' \subseteq Key
  BY <1>1, <1>2, <1>3 DEF Record, Inv, TypeOK, TicketInv, WriteInv
<1>5. /\ handoffs' \cup handoffReservations' = handoffs \cup handoffReservations \cup (handoffs' \ handoffs)
      /\ handoffs \subseteq handoffs' /\ handoffs' \subseteq dbHandoffs
      /\ handoffs' \cap handoffReservations' = {} /\ handoffReservations' \subseteq handoffReservations
      /\ handoffs' \subseteq Conversation
      /\ w.kind = "handoff" /\ Succeeded(w) => w.arg \in handoffs'
  BY <1>1, <1>2, <1>3 DEF Record, Inv, TypeOK, HandoffInv, WriteInv
<1>6. TicketInv'
  <2>1. \A s \in Turn : Open(s)' => frame'[s].keys \subseteq tickets' \cup ticketReservations'
    BY <1>4 DEF Inv, TicketInv, Open
  <2>2. \A s, t \in Turn : Open(s)' /\ Open(t)' /\ frame'[s].keys \cap frame'[t].keys # {} => s = t
    BY DEF Inv, TicketInv, Open
  <2>3. \A k \in ticketReservations' : \E t \in Turn : k \in frame'[t].keys /\ (Open(t)' \/ frame'[t].timedOut)
    BY <1>4 DEF Inv, TicketInv, Open
  <2> QED  BY <1>4, <2>1, <2>2, <2>3 DEF TicketInv
<1>7. HandoffInv'
  <2>1. \A s \in Turn : Open(s)' /\ frame'[s].handoff => ConversationOf(s)' \in handoffs' \cup handoffReservations'
    BY <1>5 DEF Inv, HandoffInv, Open, ConversationOf
  <2>2. \A s, t \in Turn : Open(s)' /\ Open(t)' /\ frame'[s].handoff /\ Hands(t, ConversationOf(s))' => s = t
    BY DEF Inv, HandoffInv, Open, Hands, ConversationOf
  <2>3. \A c \in handoffReservations' : \E t \in Turn : Hands(t, c)' /\ (Open(t)' \/ frame'[t].timedOut)
    BY <1>5 DEF Inv, HandoffInv, Open, Hands, ConversationOf
  <2> QED  BY <1>5, <2>1, <2>2, <2>3 DEF HandoffInv
<1>8. WriteInv'
  <2>1. \A v \in writes : v.turn \in Turn
    BY <1>1 DEF TypeOK, Write
  <2>2. \A v \in writes' :
       /\ v.kind = "ticket" => v.arg \in frame'[v.turn].keys /\ (Succeeded(v) => v.arg \in dbTickets')
       /\ v.kind = "handoff" => Hands(v.turn, v.arg)' /\ (Succeeded(v) => v.arg \in dbHandoffs')
    BY <2>1 DEF Inv, WriteInv, Hands, ConversationOf, database
  <2>3. \A u, v \in writes' : u.turn = v.turn /\ u.kind = v.kind /\ u.arg = v.arg /\ Open(u.turn)' => u = v
    BY <2>1 DEF Inv, WriteInv, Open
  <2> QED  BY <1>4, <1>5, <2>2, <2>3 DEF WriteInv, database, Succeeded
<1> QED  BY <1>1, <1>4, <1>5, <1>6, <1>7, <1>8 DEF TypeOK

\* A late handoff tells an open turn only.
LEMMA EscalatesShape ==
  ASSUME NEW f \in Frame, NEW g, g = Escalates(f)
  PROVE  /\ g \in Frame
         /\ g.request = f.request /\ g.timedOut = f.timedOut /\ g.sealed = f.sealed
         /\ g.eligible = f.eligible /\ g.late = f.late /\ g.settled = f.settled /\ g.turns = f.turns
         /\ g.fellBack = f.fellBack /\ g.toolFailed = f.toolFailed /\ g.ground = f.ground
         /\ g.changed = f.changed /\ g.keys = f.keys /\ g.handoff = f.handoff
         /\ f.timedOut \/ f.sealed => g = f
<1>1. CASE f.timedOut \/ f.sealed
  BY <1>1 DEF Escalates
<1>2. CASE ~(f.timedOut \/ f.sealed)
  <2>1. g = [f EXCEPT !.escalationRequested = TRUE]
    BY <1>2 DEF Escalates
  <2> QED  BY <1>2, <2>1 DEF Frame
<1> QED  BY <1>1, <1>2

LEMMA WriteReturnsStep ==
  ASSUME Inv, NEW w \in writes, WriteReturns(w)
  PROVE  Inv'
<1>1. TypeOK /\ w \in Write
  BY DEF Inv, TypeOK
<1>2. PICK t \in Turn : t = w.turn
  BY <1>1 DEF Write
<1>3. PICK f \in Frame : f = frame[t]
  BY <1>1 DEF TypeOK
<1>4. PICK g : g = IF w.kind = "handoff" /\ run[t] # "handoff" /\ Succeeded(w) THEN Escalates(f) ELSE f
  OBVIOUS
<1>5. /\ writes' = writes \ {w} /\ Record(w) /\ UNCHANGED <<sessions, database, call, expired, result>>
      /\ \/ /\ Awaited(w)
            /\ IF Succeeded(w) THEN EndTool(t, g, w.kind = "handoff") ELSE Block(t, g, FALSE)
            /\ UNCHANGED run
         \/ /\ run[t] = "handoff" /\ w.kind = "handoff"
            /\ Goto(t, IF Succeeded(w) THEN "escalate" ELSE "apologize")
            /\ UNCHANGED <<agent, frame>>
         \/ /\ ~Awaited(w) /\ ~(run[t] = "handoff" /\ w.kind = "handoff")
            /\ Update(t, g) /\ UNCHANGED <<run, agent>>
  BY <1>2, <1>3, <1>4 DEF WriteReturns
<1>6. /\ w.kind = "ticket" => w.arg \in f.keys
      /\ w.kind = "handoff" => f.handoff /\ f.request.conversation = w.arg
      /\ w.kind = "handoff" /\ Succeeded(w) => w.arg \in dbHandoffs
      /\ w.kind \in {"ticket", "handoff"}
  BY <1>1, <1>2, <1>3 DEF Inv, WriteInv, Hands, ConversationOf, Write
<1>7. /\ g \in Frame
      /\ g.request = f.request /\ g.timedOut = f.timedOut /\ g.sealed = f.sealed
      /\ g.eligible = f.eligible /\ g.late = f.late /\ g.settled = f.settled /\ g.turns = f.turns
      /\ g.fellBack = f.fellBack /\ g.toolFailed = f.toolFailed /\ g.ground = f.ground
      /\ g.changed = f.changed /\ g.keys = f.keys /\ g.handoff = f.handoff
      /\ f.timedOut \/ f.sealed => g = f
      /\ Requested(f) => Requested(g)
      /\ ~Succeeded(w) => g = f
  <2>1. CASE w.kind = "handoff" /\ run[t] # "handoff" /\ Succeeded(w)
    BY <1>4, <1>6, <2>1, EscalatesShape DEF Requested
  <2>2. CASE ~(w.kind = "handoff" /\ run[t] # "handoff" /\ Succeeded(w))
    BY <1>4, <2>2
  <2> QED  BY <2>1, <2>2
<1>8. TurnInv(t) /\ f = frame[t] /\ ~Unbegun(t)
  BY <1>3, <1>6 DEF Inv, Unbegun, NewFrame
<1>9. ASSUME NEW h \in Frame, frame' = [frame EXCEPT ![t] = h],
             h.keys = f.keys, h.handoff = f.handoff, h.sealed = f.sealed, h.request = f.request,
             h.timedOut = f.timedOut,
             NEW a, a \in {"between", agent[t]}, agent' = [agent EXCEPT ![t] = a],
             NEW l, l \in {"escalate", "apologize", run[t]}, run' = [run EXCEPT ![t] = l],
             handoffs \subseteq handoffs' => TurnInv(t)'
      PROVE  Inv'
  <2>1. frame'[t] = h /\ \A s \in Turn \ {t} : Same(s)
    BY <1>1, <1>5, <1>9 DEF TypeOK, Same
  <2>2. \A s \in Turn : /\ frame'[s].keys = frame[s].keys /\ frame'[s].handoff = frame[s].handoff
                        /\ frame'[s].sealed = frame[s].sealed /\ frame'[s].request = frame[s].request
                        /\ frame'[s].timedOut = frame[s].timedOut
    BY <1>3, <1>9, <2>1 DEF Same
  <2>3. /\ TicketInv' /\ HandoffInv' /\ WriteInv' /\ handoffs \subseteq handoffs'
        /\ tickets' \subseteq Key /\ ticketReservations' \subseteq Key
        /\ handoffs' \subseteq Conversation /\ handoffReservations' \subseteq Conversation
    BY <1>5, <2>2, RecordStep
  <2>4. TypeOK'
    BY <1>1, <1>5, <1>9, <2>3 DEF TypeOK, database
  <2>5. ASSUME NEW s \in Turn PROVE TurnInv(s)'
    BY <1>5, <1>9, <2>1, <2>3, OthersStay DEF Inv, database
  <2> QED  BY <2>3, <2>4, <2>5 DEF Inv
<1>10. \A h : frame' = [frame EXCEPT ![t] = h] => frame'[t] = h
  BY <1>1 DEF TypeOK
<1>11. w.kind = "handoff" /\ Succeeded(w) => f.request.conversation \in handoffs'
  <2>1. w.kind = "handoff" /\ Succeeded(w) => handoffs' = handoffs \cup {w.arg}
    BY <1>5 DEF Record
  <2> QED  BY <1>6, <2>1
<1>12. CASE /\ Awaited(w)
            /\ IF Succeeded(w) THEN EndTool(t, g, w.kind = "handoff") ELSE Block(t, g, FALSE)
            /\ UNCHANGED run
  <2>1. /\ run[t] = "prompt" /\ agent[t] = "tool"
        /\ w.kind = "ticket" => call[t].tool = "create_ticket"
    <3>1. run[t] = "prompt" /\ agent[t] = "tool" /\ w = [WriteOf(t) EXCEPT !.stage = w.stage]
      BY <1>2, <1>12 DEF Awaited
    <3>2. [WriteOf(t) EXCEPT !.stage = w.stage].kind = WriteOf(t).kind
      BY DEF WriteOf
    <3>3. w.kind = "ticket" => call[t].tool = "create_ticket"
      BY <3>1, <3>2 DEF WriteOf
    <3> QED  BY <3>1, <3>3
  <2>2. /\ Working(t, f) /\ result[t] = NoResult /\ call[t] \in Call
        /\ w.kind = "ticket" => Held(f)
    BY <1>8, <2>1 DEF TurnInv
  <2>3. PICK b \in BOOLEAN : b = (w.kind = "handoff")
    OBVIOUS
  <2>4. PICK h : h = IF Succeeded(w) THEN [g EXCEPT !.terminal = @ /\ b]
                     ELSE [g EXCEPT !.toolFailed = TRUE, !.terminal = @ /\ FALSE]
    OBVIOUS
  <2>5. /\ h \in Frame /\ h.request = f.request /\ h.timedOut = f.timedOut /\ h.sealed = f.sealed
        /\ h.eligible = f.eligible /\ h.late = f.late /\ h.settled = f.settled /\ h.turns = f.turns
        /\ h.fellBack = f.fellBack /\ h.keys = f.keys /\ h.handoff = f.handoff
        /\ h.escalationRequested = g.escalationRequested
        /\ ~Succeeded(w) => h.toolFailed
        /\ Succeeded(w) => h.toolFailed = f.toolFailed
    <3>1. CASE Succeeded(w)
      <4>1. h = [g EXCEPT !.terminal = @ /\ b]
        BY <2>4, <3>1
      <4> QED  BY <1>7, <3>1, <4>1 DEF Frame
    <3>2. CASE ~Succeeded(w)
      <4>1. h = [g EXCEPT !.toolFailed = TRUE, !.terminal = FALSE]
        BY <2>4, <3>2
      <4> QED  BY <1>7, <3>2, <4>1 DEF Frame
    <3> QED  BY <3>1, <3>2
  <2>6. frame' = [frame EXCEPT ![t] = h] /\ agent' = [agent EXCEPT ![t] = "between"]
    <3>1. CASE Succeeded(w)
      <4>1. h = [g EXCEPT !.terminal = @ /\ (w.kind = "handoff")]
        BY <2>3, <2>4, <3>1
      <4> QED  BY <1>12, <3>1, <4>1 DEF EndTool, Update, AgentGoto
    <3>2. CASE ~Succeeded(w)
      <4>1. h = [[g EXCEPT !.toolFailed = TRUE] EXCEPT !.terminal = @ /\ FALSE]
        BY <1>7, <2>4, <3>2 DEF Frame
      <4> QED  BY <1>12, <3>2, <4>1 DEF Block, EndTool, Update, AgentGoto
    <3> QED  BY <3>1, <3>2
  <2>7. run' = [run EXCEPT ![t] = run[t]]
    BY <1>1, <1>12 DEF TypeOK
  <2>8. ASSUME handoffs \subseteq handoffs' PROVE TurnInv(t)'
    <3>1. Working(t, h)'
      BY <1>5, <1>7, <2>2, <2>5 DEF Working, Requested, database
    <3>2. Held(h)'
      BY <1>6, <1>11, <2>2, <2>5, <2>8 DEF Held
    <3>3. frame'[t] = h /\ agent'[t] = "between" /\ run'[t] = "prompt"
      BY <1>1, <1>10, <1>12, <2>1, <2>6 DEF TypeOK
    <3> QED  BY <1>5, <2>2, <3>1, <3>2, <3>3 DEF TurnInv, Looking
  <2> QED  BY <1>9, <2>5, <2>6, <2>7, <2>8
<1>13. CASE /\ run[t] = "handoff" /\ w.kind = "handoff"
            /\ Goto(t, IF Succeeded(w) THEN "escalate" ELSE "apologize")
            /\ UNCHANGED <<agent, frame>>
  <2>1. frame' = [frame EXCEPT ![t] = f] /\ agent' = [agent EXCEPT ![t] = agent[t]]
    BY <1>1, <1>3, <1>13 DEF TypeOK
  <2>2. PICK l \in {"escalate", "apologize"} :
          run' = [run EXCEPT ![t] = l] /\ (l = "escalate" => Succeeded(w))
    BY <1>13 DEF Goto
  <2>3. ASSUME handoffs \subseteq handoffs' PROVE TurnInv(t)'
    <3>1. Closed(t, f) => Closed(t, f)'
      BY <1>5, <1>13 DEF Closed, Requested, database
    <3>2. frame'[t] = f /\ run'[t] = l
      BY <1>1, <1>10, <2>1, <2>2 DEF TypeOK
    <3>3. l = "escalate" => f.request.conversation \in handoffs'
      BY <1>11, <1>13, <2>2
    <3>4. /\ Closed(t, f) /\ ~f.sealed /\ result[t] = NoResult /\ f.request.risk /\ f.handoff /\ ~f.timedOut
          /\ agent[t] \notin {"model", "tool", "between"} /\ agent[t] \notin Looking
      BY <1>8, <1>13 DEF TurnInv
    <3> QED  BY <1>5, <1>13, <3>1, <3>2, <3>3, <3>4 DEF TurnInv, Looking
  <2> QED  BY <1>9, <2>1, <2>2, <2>3
<1>14. CASE /\ ~Awaited(w) /\ ~(run[t] = "handoff" /\ w.kind = "handoff")
            /\ Update(t, g) /\ UNCHANGED <<run, agent>>
  <2>1. /\ frame' = [frame EXCEPT ![t] = g] /\ agent' = [agent EXCEPT ![t] = agent[t]]
        /\ run' = [run EXCEPT ![t] = run[t]]
    BY <1>1, <1>14 DEF TypeOK, Update
  <2>2. ASSUME handoffs \subseteq handoffs' PROVE TurnInv(t)'
    <3>1. Working(t, f) => Working(t, g)'
      BY <1>5, <1>7 DEF Working, Requested, database
    <3>2. Closed(t, f) => Closed(t, g)'
      BY <1>5, <1>7, <1>14 DEF Closed, Requested, Eligible, SnapshotCurrent, Verified, database
    <3>3. Done(t) => Done(t)'
      BY <1>5, <1>7, <1>8, <1>10, <2>1, <3>2 DEF Done, Judged, database
    <3>4. Held(f) => Held(g)'
      BY <1>7, <2>2 DEF Held
    <3>5. run[t] # "idle" /\ (run[t] = "precheck" => g = f)
      <4>1. run[t] = "precheck" => ~f.handoff
        BY <1>8 DEF TurnInv
      <4> QED  BY <1>4, <1>6, <1>8, <4>1 DEF TurnInv
    <3>6. frame'[t] = g
      BY <1>10, <2>1
    <3> QED  BY <1>5, <1>7, <1>8, <1>14, <2>2, <3>1, <3>2, <3>3, <3>4, <3>5, <3>6 DEF TurnInv, Looking
  <2> QED  BY <1>7, <1>9, <2>1, <2>2
<1> QED  BY <1>5, <1>12, <1>13, <1>14

-----------------------------------------------------------------------------
(* The verdict.                                                            *)

\* A safety risk without approved evidence reserves a handoff before its verdict.
LEMMA ProfessionalStep ==
  ASSUME Inv, NEW t \in Turn, Decide(t), NeedsProfessional(frame[t]),
         ConversationOf(t) \notin handoffs \cup handoffReservations
  PROVE  Inv'
<1>1. TypeOK /\ TurnInv(t) /\ run[t] = "decide"
  BY DEF Inv, Decide
<1>2. PICK f \in Frame : f = frame[t]
  BY <1>1 DEF TypeOK
<1>3. /\ Closed(t, f) /\ ~f.sealed /\ result[t] = NoResult /\ Held(f)
      /\ agent[t] \notin {"model", "tool", "between"}
      /\ f.request.risk /\ ~f.timedOut /\ ~f.eligible /\ f.request \in Request
  BY <1>1, <1>2 DEF TurnInv, Closed, NeedsProfessional
<1>4. agent[t] \notin Looking
  BY <1>1, <1>2, <1>3 DEF TurnInv
<1>5. PICK c \in Conversation : c = f.request.conversation
  BY <1>3, TurnAssumption DEF RequestType
<1>6. c \notin handoffs /\ c \notin handoffReservations
  BY <1>2, <1>5 DEF ConversationOf
<1>7. PICK g \in Frame : g = [f EXCEPT !.handoff = TRUE]
  BY DEF Frame
<1>8. PICK x : x = [turn |-> t, kind |-> "handoff", arg |-> c, stage |-> "sent"]
  OBVIOUS
<1>9. /\ frame' = [frame EXCEPT ![t] = g] /\ handoffReservations' = handoffReservations \cup {c}
      /\ writes' = writes \cup {x} /\ run' = [run EXCEPT ![t] = "handoff"]
      /\ UNCHANGED <<sessions, tickets, ticketReservations, handoffs, database, agent, call, expired, result>>
  BY <1>2, <1>5, <1>6, <1>7, <1>8 DEF Decide, Update, Goto
<1>10. x \in Write
  BY <1>8 DEF Write
<1>11. TypeOK'
  BY <1>1, <1>9, <1>10 DEF TypeOK, database
<1>12. TicketInv' /\ HandoffInv' /\ WriteInv'
  <2>1. PICK W \in SUBSET {x} : writes' = writes \cup W
    BY <1>9
  <2> QED  BY <1>2, <1>3, <1>5, <1>6, <1>7, <1>8, <1>9, <2>1, HandoffReserved
<1>13. /\ frame'[t] = g /\ run'[t] = "handoff" /\ \A s \in Turn \ {t} : Same(s)
  BY <1>1, <1>9 DEF TypeOK, Same
<1>14. TurnInv(t)'
  <2>1. /\ g.request = f.request /\ g.timedOut = f.timedOut /\ g.sealed = f.sealed
        /\ g.eligible = f.eligible /\ g.late = f.late /\ g.settled = f.settled
        /\ g.escalationRequested = f.escalationRequested /\ g.handoff
    BY <1>7 DEF Frame
  <2>2. Closed(t, g)'
    BY <1>3, <1>9, <2>1 DEF Closed, Requested, database
  <2> QED  BY <1>3, <1>4, <1>9, <1>13, <2>1, <2>2 DEF TurnInv
<1>15. ASSUME NEW s \in Turn PROVE TurnInv(s)'
  BY <1>9, <1>13, <1>14, OthersStay DEF Inv, database
<1> QED  BY <1>11, <1>12, <1>15 DEF Inv

\* What finish does: seal, give back, and judge.
LEMMA FinishShape ==
  ASSUME Inv, NEW t \in Turn, NEW f \in Frame, NEW r \in {Grounded, FellBack, Answered, Escalation},
         Finish(t, f, r)
  PROVE  \E g \in Frame, res \in Result :
           /\ g = [f EXCEPT !.sealed = TRUE] /\ frame' = [frame EXCEPT ![t] = g]
           /\ res = (IF RealPolicy THEN Governed(f, r) ELSE r) /\ result' = [result EXCEPT ![t] = res]
           /\ run' = [run EXCEPT ![t] = "audit"]
<1>1. PICK g \in Frame : g = [f EXCEPT !.sealed = TRUE]
  BY DEF Frame
<1>2. f.timedOut \in BOOLEAN
  BY DEF Frame
<1>3. (IF RealPolicy THEN Governed(f, r) ELSE r) \in Result
  <2>1. Governed(f, r) \in Result
    BY <1>2, GovernedShape
  <2>2. r \in Result
    BY DEF Result, Grounded, FellBack, Answered, Escalation, NoResult
  <2> QED  BY <2>1, <2>2
<1> QED  BY <1>1, <1>3 DEF Finish, Update, Goto

\* A verdict that says what is so leaves everything sound.
LEMMA FinishStep ==
  ASSUME Inv, NEW t \in Turn, run[t] \in {"decide", "escalate", "apologize"},
         NEW f \in Frame, Closed(t, f), f.keys = frame[t].keys, f.handoff = frame[t].handoff,
         f.request = frame[t].request, f.timedOut = frame[t].timedOut, ~f.sealed,
         NEW r \in {Grounded, FellBack, Answered, Escalation}, Finish(t, f, r),
         UNCHANGED <<sessions, tickets, handoffs, database, writes, agent, call, expired>>,
         r = Grounded => /\ SnapshotCurrent(f) /\ ~f.late /\ ~f.toolFailed /\ ~f.request.risk
                         /\ f.timedOut => f.eligible,
         r = Escalation => f.request.risk \/ f.request.conversation \in dbHandoffs
  PROVE  Inv'
<1>1. TypeOK /\ TurnInv(t) /\ ~frame[t].sealed
  BY DEF Inv, TurnInv
<1>2. PICK g \in Frame, res \in Result :
        /\ g = [f EXCEPT !.sealed = TRUE] /\ frame' = [frame EXCEPT ![t] = g]
        /\ res = (IF RealPolicy THEN Governed(f, r) ELSE r) /\ result' = [result EXCEPT ![t] = res]
        /\ run' = [run EXCEPT ![t] = "audit"]
  BY FinishShape
<1>3. /\ ticketReservations' = ticketReservations \ (f.keys \ tickets)
      /\ handoffReservations' = IF f.handoff /\ f.request.conversation \notin handoffs
                                  THEN handoffReservations \ {f.request.conversation}
                                  ELSE handoffReservations
  BY DEF Finish, Unused
<1>4. /\ g.request = f.request /\ g.timedOut = f.timedOut /\ g.sealed /\ g.eligible = f.eligible
      /\ g.late = f.late /\ g.settled = f.settled /\ g.toolFailed = f.toolFailed
      /\ g.keys = f.keys /\ g.handoff = f.handoff /\ g.ground = f.ground /\ g.changed = f.changed
      /\ g.escalationRequested = f.escalationRequested
      /\ g.limitReached = f.limitReached
  BY <1>2 DEF Frame
<1>5. TypeOK'
  BY <1>1, <1>2, <1>3 DEF TypeOK, database
<1>6. frame'[t] = g /\ result'[t] = res /\ run'[t] = "audit" /\ \A s \in Turn \ {t} : Same(s)
  BY <1>1, <1>2 DEF TypeOK, Same
<1>7. TurnInv(t)'
  <2>1. tickets \subseteq dbTickets /\ handoffs \subseteq dbHandoffs
    BY DEF Inv, WriteInv
  <2>2. Judged(f, res)
    <3>1. CASE RealPolicy
      <4>1. f.timedOut \in BOOLEAN
        BY DEF Frame
      <4>2. /\ res.evidence => r = Grounded
            /\ res.policy = "WORKFLOW" => f.keys \cap tickets # {}
            /\ res.type = "escalation" => \/ f.request.risk /\ r = Escalation
                                          \/ f.handoff /\ f.request.conversation \in handoffs
        BY <1>2, <3>1, <4>1, GovernedShape
      <4> QED  BY <2>1, <4>2 DEF Judged
    <3>2. CASE ~RealPolicy
      <4>1. res = r
        BY <1>2, <3>2
      <4>2. /\ r.evidence => r = Grounded
            /\ r.policy # "WORKFLOW" /\ r.type = "escalation" => r = Escalation
        BY DEF Grounded, FellBack, Answered, Escalation, NoResult
      <4>3. r.policy # "WORKFLOW"
        BY DEF Grounded, FellBack, Answered, Escalation, NoResult
      <4> QED  BY <4>1, <4>2, <4>3 DEF Judged
    <3> QED  BY <3>1, <3>2
  <2>3. Judged(g, res)'
    BY <1>4, <2>2 DEF Judged, SnapshotCurrent, Verified, database
  <2>4. Closed(t, g)'
    BY <1>4 DEF Closed, Requested, Eligible, SnapshotCurrent, Verified, database
  <2>5. Done(t)'
    BY <1>4, <1>6, <2>3, <2>4 DEF Done
  <2>6. /\ agent[t] \notin {"model", "tool", "between"}
        /\ agent[t] \in Looking => call[t].tool \in SideEffect /\ f.timedOut
    BY <1>1 DEF TurnInv
  <2> QED  BY <1>4, <1>6, <2>5, <2>6 DEF TurnInv, Looking
<1>8. ASSUME NEW s \in Turn PROVE TurnInv(s)'
  BY <1>6, <1>7, OthersStay DEF Inv, database
<1>9. \A s \in Turn : /\ frame'[s].keys = frame[s].keys /\ frame'[s].handoff = frame[s].handoff
                      /\ frame'[s].request = frame[s].request /\ frame'[s].timedOut = frame[s].timedOut
                      /\ s # t => frame'[s].sealed = frame[s].sealed
  BY <1>4, <1>6 DEF Same
<1>10. ~Open(t)' /\ Open(t) /\ \A s \in Turn : Open(s)' => Open(s) /\ s # t
  BY <1>1, <1>4, <1>6, <1>9 DEF Open
<1>11. TicketInv'
  <2>1. (tickets \cap ticketReservations = {})'
    BY <1>3 DEF Inv, TicketInv
  <2>2. ASSUME NEW s \in Turn, Open(s)' PROVE frame'[s].keys \subseteq tickets' \cup ticketReservations'
    <3>1. Open(s) /\ s # t /\ frame[s].keys \subseteq tickets \cup ticketReservations
      BY <1>10, <2>2 DEF Inv, TicketInv
    <3>2. frame[s].keys \cap f.keys = {}
      BY <1>10, <3>1 DEF Inv, TicketInv
    <3> QED  BY <1>3, <1>9, <3>1, <3>2
  <2>3. \A s, u \in Turn : Open(s)' /\ Open(u)' /\ frame'[s].keys \cap frame'[u].keys # {} => s = u
    BY <1>9, <1>10 DEF Inv, TicketInv
  <2>4. ASSUME NEW k \in ticketReservations'
        PROVE  \E s \in Turn : k \in frame'[s].keys /\ (Open(s)' \/ frame'[s].timedOut)
    <3>1. k \in ticketReservations /\ k \notin tickets /\ k \notin f.keys
      BY <1>3, <2>4 DEF Inv, TicketInv
    <3>2. PICK s \in Turn : k \in frame[s].keys /\ (Open(s) \/ frame[s].timedOut)
      BY <3>1 DEF Inv, TicketInv
    <3> QED  BY <1>9, <3>1, <3>2 DEF Open
  <2> QED  BY <2>1, <2>2, <2>3, <2>4 DEF TicketInv
<1>12. HandoffInv'
  <2>1. (handoffs \cap handoffReservations = {})'
    BY <1>3 DEF Inv, HandoffInv
  <2>2. ASSUME NEW s \in Turn, Open(s)', frame'[s].handoff
        PROVE  ConversationOf(s)' \in handoffs' \cup handoffReservations'
    <3>1. /\ Open(s) /\ s # t /\ frame[s].handoff
          /\ frame[s].request.conversation \in handoffs \cup handoffReservations
      BY <1>9, <1>10, <2>2 DEF Inv, HandoffInv, ConversationOf
    <3>2. f.handoff => frame[s].request.conversation # f.request.conversation
      BY <1>10, <3>1 DEF Inv, HandoffInv, Hands, ConversationOf
    <3> QED  BY <1>3, <1>9, <3>1, <3>2 DEF ConversationOf
  <2>3. \A s, u \in Turn : Open(s)' /\ Open(u)' /\ frame'[s].handoff /\ Hands(u, ConversationOf(s))' => s = u
    BY <1>9, <1>10 DEF Inv, HandoffInv, Hands, ConversationOf
  <2>4. ASSUME NEW c \in handoffReservations'
        PROVE  \E s \in Turn : Hands(s, c)' /\ (Open(s)' \/ frame'[s].timedOut)
    <3>1. /\ c \in handoffReservations /\ c \notin handoffs
          /\ ~(f.handoff /\ f.request.conversation = c)
      BY <1>3, <2>4 DEF Inv, HandoffInv
    <3>2. PICK s \in Turn : Hands(s, c) /\ (Open(s) \/ frame[s].timedOut)
      BY <3>1 DEF Inv, HandoffInv
    <3>3. s # t
      BY <3>1, <3>2 DEF Hands, ConversationOf
    <3> QED  BY <1>9, <3>2, <3>3 DEF Open, Hands, ConversationOf
  <2> QED  BY <2>1, <2>2, <2>3, <2>4 DEF HandoffInv
<1>13. WriteInv'
  <2>1. \A w \in writes : w.turn \in Turn
    BY <1>1 DEF TypeOK, Write
  <2>2. \A w \in writes :
       /\ w.kind = "ticket" => w.arg \in frame'[w.turn].keys /\ (Succeeded(w) => w.arg \in dbTickets')
       /\ w.kind = "handoff" => Hands(w.turn, w.arg)' /\ (Succeeded(w) => w.arg \in dbHandoffs')
    BY <1>9, <2>1 DEF Inv, WriteInv, Hands, ConversationOf, database
  <2>3. \A v, w \in writes : v.turn = w.turn /\ v.kind = w.kind /\ v.arg = w.arg /\ Open(v.turn)' => v = w
    BY <1>10, <2>1 DEF Inv, WriteInv
  <2> QED  BY <2>2, <2>3 DEF Inv, WriteInv, database, Succeeded
<1> QED  BY <1>5, <1>8, <1>11, <1>12, <1>13 DEF Inv

\* The verdict of a turn, and what it says.
LEMMA DecideShape ==
  ASSUME Inv, NEW t \in Turn, Decide(t),
         ~(NeedsProfessional(frame[t]) /\ ConversationOf(t) \notin handoffs \cup handoffReservations)
  PROVE  \E f \in Frame, r \in {Grounded, FellBack, Answered, Escalation} :
           /\ r = Verdict(frame[t]) /\ Finish(t, f, r) /\ Closed(t, f) /\ ~f.sealed
           /\ f.keys = frame[t].keys /\ f.handoff = frame[t].handoff /\ f.request = frame[t].request
           /\ f.timedOut = frame[t].timedOut /\ f.toolFailed = frame[t].toolFailed
           /\ r = Grounded => /\ SnapshotCurrent(f) /\ ~f.late /\ ~f.toolFailed /\ ~f.request.risk
                              /\ f.timedOut => f.eligible
           /\ r = Escalation => f.request.risk \/ f.request.conversation \in dbHandoffs
<1>1. TypeOK /\ TurnInv(t) /\ run[t] = "decide"
  BY DEF Inv, Decide
<1>2. PICK e \in Frame : e = frame[t]
  BY <1>1 DEF TypeOK
<1>3. PICK f : f = IF NeedsProfessional(e) THEN [e EXCEPT !.escalationRequested = TRUE] ELSE e
  OBVIOUS
<1>4. PICK r \in {Grounded, FellBack, Answered, Escalation} : r = Verdict(e)
  BY VerdictShape
<1>5. Finish(t, f, r)
  BY <1>2, <1>3, <1>4 DEF Decide, ConversationOf
<1>6. Closed(t, e) /\ ~e.sealed
  BY <1>1, <1>2 DEF TurnInv
<1>7. /\ f \in Frame /\ f.keys = e.keys /\ f.handoff = e.handoff /\ f.request = e.request
      /\ f.timedOut = e.timedOut /\ f.toolFailed = e.toolFailed /\ f.sealed = e.sealed
      /\ f.eligible = e.eligible /\ f.late = e.late /\ f.settled = e.settled
      /\ f.ground = e.ground /\ f.changed = e.changed
      /\ f.escalationRequested => e.escalationRequested \/ e.request.risk
      /\ ~e.request.risk => f = e
  <2>1. CASE NeedsProfessional(e)
    <3>1. f = [e EXCEPT !.escalationRequested = TRUE] /\ e.request.risk
      BY <1>3, <2>1 DEF NeedsProfessional
    <3> QED  BY <3>1 DEF Frame
  <2>2. CASE ~NeedsProfessional(e)
    BY <1>3, <2>2
  <2> QED  BY <2>1, <2>2
<1>8. Closed(t, f)
  BY <1>6, <1>7 DEF Closed, Requested, Eligible
<1>9. r = Grounded => \/ e.timedOut /\ e.eligible
                      \/ /\ ~e.timedOut /\ ~e.request.risk /\ ~e.toolFailed
                         /\ SnapshotCurrent(e)
  BY <1>4, VerdictShape
<1>10. r = Grounded => /\ SnapshotCurrent(f) /\ ~f.late /\ ~f.toolFailed /\ ~f.request.risk
                       /\ f.timedOut => f.eligible
  BY <1>6, <1>7, <1>9 DEF Closed, Eligible, SnapshotCurrent, Verified
<1>11. r = Escalation => e.request.risk \/ e.escalationRequested
  BY <1>4, VerdictShape
<1>12. r = Escalation => f.request.risk \/ f.request.conversation \in dbHandoffs
  BY <1>6, <1>7, <1>11 DEF Closed, Requested
<1> QED  BY <1>2, <1>4, <1>5, <1>6, <1>7, <1>8, <1>10, <1>12

LEMMA DecideStep ==
  ASSUME Inv, NEW t \in Turn, Decide(t)
  PROVE  Inv'
<1>1. CASE NeedsProfessional(frame[t]) /\ ConversationOf(t) \notin handoffs \cup handoffReservations
  BY <1>1, ProfessionalStep
<1>2. CASE ~(NeedsProfessional(frame[t]) /\ ConversationOf(t) \notin handoffs \cup handoffReservations)
  <2>1. PICK f \in Frame, r \in {Grounded, FellBack, Answered, Escalation} :
           /\ Finish(t, f, r) /\ Closed(t, f) /\ ~f.sealed
           /\ f.keys = frame[t].keys /\ f.handoff = frame[t].handoff /\ f.request = frame[t].request
           /\ f.timedOut = frame[t].timedOut
           /\ r = Grounded => /\ SnapshotCurrent(f) /\ ~f.late /\ ~f.toolFailed /\ ~f.request.risk
                              /\ f.timedOut => f.eligible
           /\ r = Escalation => f.request.risk \/ f.request.conversation \in dbHandoffs
    BY <1>2, DecideShape
  <2>2. /\ run[t] = "decide"
        /\ UNCHANGED <<sessions, tickets, handoffs, database, writes, agent, call, expired>>
    BY <1>2 DEF Decide, ConversationOf
  <2> QED  BY <2>1, <2>2, FinishStep
<1> QED  BY <1>1, <1>2

\* The end of a turn that awaited its safety handoff.
LEMMA SafetyShape ==
  ASSUME Inv, NEW t \in Turn, FinishSafety(t)
  PROVE  \E f \in Frame, r \in {FellBack, Escalation} :
           /\ Finish(t, f, r) /\ Closed(t, f) /\ ~f.sealed
           /\ f.keys = frame[t].keys /\ f.handoff = frame[t].handoff /\ f.request = frame[t].request
           /\ f.timedOut = frame[t].timedOut /\ f.request.risk
           /\ r = Escalation => f.request.conversation \in handoffs
<1>1. TypeOK /\ TurnInv(t) /\ run[t] \in {"escalate", "apologize"}
  BY DEF Inv, FinishSafety
<1>2. PICK e \in Frame : e = frame[t]
  BY <1>1 DEF TypeOK
<1>3. /\ Closed(t, e) /\ ~e.sealed /\ e.request.risk /\ ~e.timedOut
      /\ run[t] = "escalate" => e.request.conversation \in handoffs
  BY <1>1, <1>2 DEF TurnInv
<1>4. CASE run[t] = "escalate"
  <2>1. PICK f \in Frame : f = [e EXCEPT !.escalationRequested = TRUE]
    BY DEF Frame
  <2>2. /\ f.keys = e.keys /\ f.handoff = e.handoff /\ f.request = e.request
        /\ f.timedOut = e.timedOut /\ f.sealed = e.sealed
        /\ f.eligible = e.eligible /\ f.late = e.late /\ f.settled = e.settled
    BY <2>1 DEF Frame
  <2>3. Closed(t, f)
    BY <1>3, <2>2 DEF Closed, Requested
  <2>4. Finish(t, f, Escalation)
    BY <1>2, <1>4, <2>1 DEF FinishSafety
  <2> QED  BY <1>2, <1>3, <1>4, <2>2, <2>3, <2>4
<1>5. CASE run[t] = "apologize"
  <2>1. Finish(t, e, FellBack)
    BY <1>2, <1>5 DEF FinishSafety
  <2>2. FellBack # Escalation
    BY DEF FellBack, Escalation, NoResult
  <2> QED  BY <1>2, <1>3, <2>1, <2>2
<1> QED  BY <1>1, <1>4, <1>5

LEMMA SafetyStep ==
  ASSUME Inv, NEW t \in Turn, FinishSafety(t)
  PROVE  Inv'
<1>1. PICK f \in Frame, r \in {FellBack, Escalation} :
           /\ Finish(t, f, r) /\ Closed(t, f) /\ ~f.sealed
           /\ f.keys = frame[t].keys /\ f.handoff = frame[t].handoff /\ f.request = frame[t].request
           /\ f.timedOut = frame[t].timedOut /\ f.request.risk
  BY SafetyShape
<1>2. /\ run[t] \in {"escalate", "apologize"}
      /\ UNCHANGED <<sessions, tickets, handoffs, database, writes, agent, call, expired>>
  BY DEF FinishSafety
<1>3. Grounded # FellBack /\ Grounded # Escalation
  BY DEF Grounded, FellBack, Answered, Escalation, NoResult
<1> QED  BY <1>1, <1>2, <1>3, FinishStep

-----------------------------------------------------------------------------
(* The specification.                                                      *)

\* The steps that concern one turn only, one by one.
LEMMA LocalSteps ==
  ASSUME Inv, NEW t \in Turn,
         \/ \E r \in Request : Start(t, r)
         \/ \E routing \in Routing : PrecheckEnds(t, routing)
         \/ PrecheckFails(t) \/ Clock(t) \/ TimerFires(t)
         \/ \E reply \in ModelReply : ModelReplies(t, reply)
         \/ \E c \in Call : UseTool(t, c)
         \/ LookupReads(t) \/ LookupFails(t)
         \/ \E match \in BOOLEAN : FaqEnds(t, match)
         \/ SearchCached(t)
         \/ \E routing \in Routing, covered \in BOOLEAN : SearchEnds(t, routing, covered)
         \/ ToolFails(t) \/ NextTurn(t)
         \/ \E q \in Query : SourceChanges(t, q)
         \/ AuditAnswers(t)
  PROVE  Local(t)
BY StartLocal, PrecheckEndsLocal, PrecheckFailsLocal, ClockLocal, TimerFiresLocal, ModelRepliesLocal,
   UseToolLocal, LookupReadsLocal, LookupFailsLocal, FaqEndsLocal, SearchCachedLocal, SearchEndsLocal,
   ToolFailsLocal, NextTurnLocal, SourceChangesLocal, AuditAnswersLocal

\* A step is of one turn only, an answer of a lookup, an end, or a durable write's.
LEMMA StepCases ==
  ASSUME Inv, Next
  PROVE  \/ \E t \in Turn : Local(t) \/ LookupAnswers(t) \/ Decide(t) \/ FinishSafety(t)
         \/ \E w \in writes : DatabaseWrites(w) \/ WriteReturns(w)
BY LocalSteps DEF Next, LoopStep, RunStep

LEMMA InitInv == Init => Inv
<1> SUFFICES ASSUME Init PROVE Inv
  OBVIOUS
<1>1. NewFrame \in Frame
  <2>1. TurnBudget \in Nat
    BY TurnAssumption DEF TurnBudget
  <2>2. NoGround \in [source : Query \cup {"faq", None}, routing : Routing \cup {"faq", "none"}]
    BY DEF NoGround
  <2>3. [q \in Query |-> "none"] \in [Query -> Routing \cup {"none"}]
    OBVIOUS
  <2>4. 0 \in 0..TurnBudget + 1 /\ 0 \in 0..MaxToolCalls + 1
    BY <2>1, TurnAssumption
  <2> QED  BY <2>2, <2>3, <2>4 DEF NewFrame, Frame, Reply
<1>2. NoResult \in Result
  BY DEF NoResult, Result
<1>3. TypeOK
  BY <1>1, <1>2, TurnAssumption DEF Init, TypeOK
<1>4. \A t \in Turn : TurnInv(t)
  BY DEF Init, TurnInv, Unbegun, Looking
<1>5. NewFrame.keys = {} /\ ~NewFrame.handoff
  BY DEF NewFrame
<1>6. TicketInv /\ HandoffInv /\ WriteInv
  BY <1>5 DEF Init, TicketInv, HandoffInv, WriteInv, Hands
<1> QED  BY <1>3, <1>4, <1>6 DEF Inv

LEMMA StutterInv ==
  ASSUME Inv, UNCHANGED vars
  PROVE  Inv'
<1>1. ASSUME NEW t \in Turn PROVE TurnInv(t)'
  BY OthersStay DEF Inv, Same, vars, store, database
<1>2. TypeOK'
  BY DEF Inv, TypeOK, vars, store, database
<1>3. TicketInv' /\ HandoffInv' /\ WriteInv'
  BY DEF Inv, TicketInv, HandoffInv, WriteInv, Open, Hands, ConversationOf, Succeeded, vars, store, database
<1> QED  BY <1>1, <1>2, <1>3 DEF Inv

LEMMA StepInv == Inv /\ [Next]_vars => Inv'
<1>1. ASSUME Inv, Next PROVE Inv'
  BY <1>1, StepCases, LocalStep, LookupAnswersStep, DecideStep, SafetyStep, PersistStep, WriteReturnsStep
<1> QED  BY <1>1, StutterInv

LEMMA AlwaysInv == Spec => []Inv
BY InitInv, StepInv, PTL DEF Spec

\* Every variable stays well typed; in particular the counters of turns and tool
\* calls stay within one of their limits whatever the model asks for.
THEOREM TurnTypeCorrect == Spec => []TypeOK
<1>1. Inv => TypeOK
  BY DEF Inv
<1> QED  BY <1>1, AlwaysInv, PTL

\* A result other than none is of a turn that was judged.
LEMMA ResultIsJudged ==
  ASSUME Inv, NEW t \in Turn, result[t] # NoResult
  PROVE  Done(t)
BY DEF Inv, TurnInv, Unbegun, TypeOK

\* Evidence in a result is current: neither a delayed timer, nor a cached check, nor a
\* revoked entry brings an outdated answer to the customer (src/index.ts).
THEOREM EvidenceIsCurrentHolds == Spec => []EvidenceIsCurrent
<1>1. ASSUME Inv, NEW t \in Turn, result[t].evidence
      PROVE  /\ SnapshotCurrent(frame[t]) /\ ~frame[t].late
             /\ ~frame[t].toolFailed /\ ~frame[t].request.risk
  <2>1. result[t] # NoResult
    BY <1>1 DEF NoResult
  <2> QED  BY <1>1, <2>1, ResultIsJudged DEF Done, Judged
<1>2. Inv => EvidenceIsCurrent
  BY <1>1 DEF EvidenceIsCurrent
<1> QED  BY <1>2, AlwaysInv, PTL

\* A turn whose evidence became its answer at the deadline leaves nothing behind: it
\* has no lookup, reservation or write, and gets none later.
THEOREM DeadlineAnswerIsQuietHolds == Spec => []DeadlineAnswerIsQuiet
<1>1. ASSUME Inv, NEW t \in Turn, result[t].evidence, frame[t].timedOut
      PROVE  /\ frame[t].keys = {} /\ ~frame[t].handoff
             /\ agent[t] = "off"
             /\ \A w \in writes : w.turn # t
  <2>1. result[t] # NoResult
    BY <1>1 DEF NoResult
  <2>2. /\ frame[t].keys = {} /\ ~frame[t].handoff /\ agent[t] = "off"
    BY <1>1, <2>1, ResultIsJudged DEF Done, Judged, Closed, Eligible
  <2>3. ASSUME NEW w \in writes PROVE w.turn # t
    <3>1. w.kind \in {"ticket", "handoff"}
      BY <1>1 DEF Inv, TypeOK, Write
    <3> QED  BY <1>1, <2>2, <3>1 DEF Inv, WriteInv, Hands
  <2> QED  BY <2>2, <2>3
<1>2. Inv => DeadlineAnswerIsQuiet
  BY <1>1 DEF DeadlineAnswerIsQuiet
<1> QED  BY <1>2, AlwaysInv, PTL

\* What is announced is durable: a ticket or an ordinary escalation is in the database
\* when the customer reads of it, whatever timed out, failed or raced before.
THEOREM ClaimsAreDurableHolds == Spec => []ClaimsAreDurable
<1>1. ASSUME Inv, NEW t \in Turn
      PROVE  /\ result[t].policy = "WORKFLOW" => frame[t].keys \cap dbTickets # {}
             /\ result[t].type = "escalation" /\ ~frame[t].request.risk => ConversationOf(t) \in dbHandoffs
  <2>1. CASE result[t] = NoResult
    BY <2>1 DEF NoResult
  <2>2. CASE result[t] # NoResult
    BY <1>1, <2>2, ResultIsJudged DEF Done, Judged, ConversationOf
  <2> QED  BY <2>1, <2>2
<1>2. Inv => ClaimsAreDurable
  BY <1>1 DEF ClaimsAreDurable
<1> QED  BY <1>2, AlwaysInv, PTL

\* No two open turns write the same side effect, and when everything has ended and no
\* turn ran out of time, every reservation was used or given back.
THEOREM ReservationsAreSoundHolds == Spec => []ReservationsAreSound
<1>1. ASSUME Inv, NEW v \in writes, NEW w \in writes, v.kind = w.kind, v.arg = w.arg, v # w,
             ~frame[v.turn].sealed, ~frame[w.turn].sealed
      PROVE  FALSE
  <2>1. v.turn \in Turn /\ w.turn \in Turn /\ v.kind \in {"ticket", "handoff"}
    BY <1>1 DEF Inv, TypeOK, Write
  <2>2. v.turn = w.turn
    <3>1. CASE v.kind = "ticket"
      <4>1. v.arg \in frame[v.turn].keys /\ v.arg \in frame[w.turn].keys
        BY <1>1, <3>1 DEF Inv, WriteInv
      <4> QED  BY <1>1, <2>1, <4>1 DEF Inv, TicketInv, Open
    <3>2. CASE v.kind = "handoff"
      <4>1. Hands(v.turn, v.arg) /\ Hands(w.turn, v.arg)
        BY <1>1, <3>2 DEF Inv, WriteInv
      <4> QED  BY <1>1, <2>1, <4>1 DEF Inv, HandoffInv, Open, Hands
    <3> QED  BY <2>1, <3>1, <3>2
  <2> QED  BY <1>1, <2>2 DEF Inv, WriteInv, Open
<1>2. ASSUME Inv, Quiet, \A t \in Turn : ~frame[t].timedOut
      PROVE  ticketReservations = {} /\ handoffReservations = {}
  <2>1. ASSUME NEW t \in Turn, ~frame[t].sealed PROVE frame[t].keys = {} /\ ~frame[t].handoff
    <3>1. Unbegun(t)
      BY <1>2, <2>1 DEF Inv, TurnInv, Quiet, Done
    <3> QED  BY <3>1 DEF Unbegun, NewFrame
  <2>2. ticketReservations = {}
    BY <1>2, <2>1 DEF Inv, TicketInv, Open
  <2>3. handoffReservations = {}
    BY <1>2, <2>1 DEF Inv, HandoffInv, Open, Hands
  <2> QED  BY <2>2, <2>3
<1>3. Inv => ReservationsAreSound
  BY <1>1, <1>2 DEF ReservationsAreSound
<1> QED  BY <1>3, AlwaysInv, PTL

\* Within a verdict, an escalation is of a handoff that is recorded or still reserved:
\* under the real policy, a turn that lost its own handoff does not announce one.
LEMMA FinishCovers ==
  ASSUME Inv, RealPolicy, NEW t \in Turn, Decide(t) \/ FinishSafety(t),
         result'[t].type = "escalation", result[t].type # "escalation"
  PROVE  ConversationOf(t) \in dbHandoffs \cup handoffReservations'
<1>1. TypeOK /\ TurnInv(t) /\ handoffs \subseteq dbHandoffs
  BY DEF Inv, WriteInv
<1>2. CASE FinishSafety(t)
  <2>1. PICK f \in Frame, r \in {FellBack, Escalation} :
           /\ Finish(t, f, r) /\ f.handoff = frame[t].handoff /\ f.request = frame[t].request
           /\ r = Escalation => f.request.conversation \in handoffs
    BY <1>2, SafetyShape
  <2>2. r \in {Grounded, FellBack, Answered, Escalation}
    OBVIOUS
  <2>3. PICK res \in Result : res = Governed(f, r) /\ result' = [result EXCEPT ![t] = res]
    BY <2>1, <2>2, FinishShape
  <2>4. result'[t] = res /\ f.timedOut \in BOOLEAN
    BY <1>1, <2>3 DEF TypeOK, Frame
  <2>5. r = Escalation \/ f.request.conversation \in handoffs
    BY <2>2, <2>3, <2>4, GovernedShape
  <2> QED  BY <1>1, <2>1, <2>5 DEF ConversationOf
<1>3. CASE Decide(t)
  <2>1. ~(NeedsProfessional(frame[t]) /\ ConversationOf(t) \notin handoffs \cup handoffReservations)
    BY <1>3 DEF Decide, ConversationOf
  <2>2. PICK f \in Frame, r \in {Grounded, FellBack, Answered, Escalation} :
           /\ r = Verdict(frame[t]) /\ Finish(t, f, r)
           /\ f.handoff = frame[t].handoff /\ f.request = frame[t].request
           /\ f.timedOut = frame[t].timedOut /\ f.toolFailed = frame[t].toolFailed
    BY <1>3, <2>1, DecideShape
  <2>3. PICK res \in Result : res = Governed(f, r) /\ result' = [result EXCEPT ![t] = res]
    BY <2>2, FinishShape
  <2>4. result'[t] = res /\ f.timedOut \in BOOLEAN
    BY <1>1, <2>3 DEF TypeOK, Frame
  <2>5. /\ ~f.toolFailed
        /\ \/ f.request.risk /\ r = Escalation
           \/ f.handoff /\ f.request.conversation \in handoffs
    BY <2>3, <2>4, GovernedShape
  <2>6. CASE f.request.conversation \in handoffs
    BY <1>1, <2>2, <2>6 DEF ConversationOf
  <2>7. CASE f.request.conversation \notin handoffs
    <3>1. f.request.risk /\ r = Escalation
      BY <2>5, <2>7
    <3>2. NeedsProfessional(frame[t]) /\ ~frame[t].timedOut
      BY <2>2, <3>1, VerdictShape DEF NeedsProfessional
    <3>3. f.request.conversation \in handoffReservations
      BY <2>1, <2>2, <2>7, <3>2 DEF ConversationOf
    <3>4. Held(frame[t])
      BY <1>1, <1>3 DEF TurnInv, Decide
    <3>5. ~f.handoff
      BY <2>2, <2>5, <2>7, <3>2, <3>4 DEF Held
    <3>6. handoffReservations' = handoffReservations
      BY <2>2, <3>5 DEF Finish
    <3> QED  BY <2>2, <3>3, <3>6 DEF ConversationOf
  <2> QED  BY <2>6, <2>7
<1> QED  BY <1>2, <1>3

\* Which steps decide a result.
LEMMA ResultsStay ==
  ASSUME Inv, Next, NEW t \in Turn, result'[t] # result[t]
  PROVE  Decide(t) \/ FinishSafety(t)
<1>1. ASSUME NEW s \in Turn, Local(s) PROVE FALSE
  BY <1>1 DEF Local
<1>2. ASSUME NEW s \in Turn, LookupAnswers(s) PROVE FALSE
  BY <1>2 DEF LookupAnswers
<1>3. ASSUME NEW w \in writes, DatabaseWrites(w) \/ WriteReturns(w) PROVE FALSE
  BY <1>3 DEF DatabaseWrites, Persist, WriteReturns
<1>4. ASSUME NEW s \in Turn, s # t, Decide(s) \/ FinishSafety(s) PROVE FALSE
  BY <1>4 DEF Decide, FinishSafety, Finish, Inv, TypeOK
<1> QED  BY <1>1, <1>2, <1>3, <1>4, StepCases

\* Under the real policy, which the live runtime sets, a customer is told of a handoff
\* when it is in the database or while a turn holds its reservation.
THEOREM EscalationIsCoveredHolds == RealPolicy => (Spec => EscalationIsCovered)
<1> SUFFICES ASSUME RealPolicy PROVE Spec => EscalationIsCovered
  OBVIOUS
<1>1. ASSUME Inv, [Next]_vars, NEW t \in Turn, result'[t].type = "escalation", result[t].type # "escalation"
      PROVE  ConversationOf(t) \in dbHandoffs \cup handoffReservations'
  <2>1. result'[t] # result[t]
    BY <1>1
  <2>2. Next
    BY <1>1, <2>1 DEF vars
  <2>3. Decide(t) \/ FinishSafety(t)
    BY <1>1, <2>1, <2>2, ResultsStay
  <2> QED  BY <1>1, <2>3, FinishCovers
<1>2. Inv /\ [Next]_vars =>
        [\A t \in Turn : result'[t].type = "escalation" /\ result[t].type # "escalation" =>
           ConversationOf(t) \in dbHandoffs \cup handoffReservations']_vars
  BY <1>1
<1> QED  BY <1>2, AlwaysInv, PTL DEF Spec, EscalationIsCovered

LEMMA KeptShape ==
  ASSUME NEW f \in Frame, NEW K, NEW h, NEW g, g \in {f, [f EXCEPT !.keys = K], [f EXCEPT !.handoff = h]}
  PROVE  g = [f EXCEPT !.keys = g.keys, !.handoff = g.handoff]
BY DEF Frame

\* A sealed turn stays as it was audited: only what it reserves may still change, when a
\* lookup that outlived the deadline answers.
THEOREM SealedIsFinalHolds == Spec => SealedIsFinal
<1>1. ASSUME Inv, Next, NEW t \in Turn, frame[t].sealed
      PROVE  /\ result'[t] = result[t]
             /\ frame'[t] = [frame[t] EXCEPT !.keys = frame'[t].keys, !.handoff = frame'[t].handoff]
  <2>1. TypeOK /\ TurnInv(t) /\ frame[t] \in Frame
    BY <1>1 DEF Inv, TypeOK
  <2>2. run[t] \notin {"precheck", "prompt", "decide", "handoff", "escalate", "apologize"}
    BY <1>1, <2>1 DEF TurnInv, Working
  <2>3. result'[t] = result[t]
    BY <1>1, <2>2, ResultsStay DEF Decide, FinishSafety
  <2>4. \E K, h : frame'[t] \in {frame[t], [frame[t] EXCEPT !.keys = K], [frame[t] EXCEPT !.handoff = h]}
    <3>1. ASSUME NEW s \in Turn, Local(s) PROVE frame'[t] = frame[t]
      BY <1>1, <3>1 DEF Local, Same
    <3>2. ASSUME NEW s \in Turn, LookupAnswers(s)
          PROVE \E K, h : frame'[t] \in {frame[t], [frame[t] EXCEPT !.keys = K], [frame[t] EXCEPT !.handoff = h]}
      <4>1. CASE s # t
        <5>1. UNCHANGED frame \/ \E e : frame' = [frame EXCEPT ![s] = e]
          BY <3>2 DEF LookupAnswers, Reserve, Update, Block, EndTool
        <5>2. frame'[t] = frame[t]
          BY <2>1, <4>1, <5>1 DEF TypeOK
        <5> QED  BY <5>2
      <4>2. CASE s = t
        <5>1. run[t] # "prompt"
          BY <2>2
        <5>2. \/ UNCHANGED frame
              \/ frame' = [frame EXCEPT ![t] = [frame[t] EXCEPT !.keys = @ \cup {call[t].arg}]]
              \/ frame' = [frame EXCEPT ![t] = [frame[t] EXCEPT !.handoff = TRUE]]
          BY <3>2, <4>2, <5>1 DEF LookupAnswers, Reserve, Update
        <5>3. \A e : frame' = [frame EXCEPT ![t] = e] => frame'[t] = e
          BY <2>1 DEF TypeOK
        <5>4. \/ frame'[t] = frame[t]
              \/ frame'[t] = [frame[t] EXCEPT !.keys = @ \cup {call[t].arg}]
              \/ frame'[t] = [frame[t] EXCEPT !.handoff = TRUE]
          BY <5>2, <5>3
        <5> QED  BY <5>4
      <4> QED  BY <4>1, <4>2
    <3>3. ASSUME NEW s \in Turn, Decide(s) \/ FinishSafety(s) PROVE frame'[t] = frame[t]
      <4>1. s # t
        BY <2>2, <3>3 DEF Decide, FinishSafety
      <4> QED  BY <2>1, <3>3, <4>1 DEF Decide, FinishSafety, Finish, Update, TypeOK
    <3>4. ASSUME NEW w \in writes, DatabaseWrites(w) PROVE frame'[t] = frame[t]
      BY <3>4 DEF DatabaseWrites, Persist
    <3>5. ASSUME NEW w \in writes, WriteReturns(w) PROVE frame'[t] = frame[t]
      <4>1. CASE w.turn # t
        BY <2>1, <3>5, <4>1 DEF WriteReturns, EndTool, Block, Update, TypeOK
      <4>2. CASE w.turn = t
        <5>1. ~Awaited(w)
          BY <2>2, <4>2 DEF Awaited
        <5>2. Escalates(frame[t]) = frame[t]
          BY <1>1 DEF Escalates
        <5> QED  BY <2>1, <2>2, <3>5, <4>2, <5>1, <5>2 DEF WriteReturns, Update, TypeOK
      <4> QED  BY <4>1, <4>2
    <3> QED  BY <1>1, <3>1, <3>2, <3>3, <3>4, <3>5, StepCases
  <2> QED  BY <2>1, <2>3, <2>4, KeptShape
<1>2. Inv /\ [Next]_vars =>
        [\A t \in Turn : frame[t].sealed =>
           /\ result'[t] = result[t]
           /\ frame'[t] = [frame[t] EXCEPT !.keys = frame'[t].keys, !.handoff = frame'[t].handoff]]_vars
  BY <1>1
<1> QED  BY <1>2, AlwaysInv, PTL DEF Spec, SealedIsFinal

=============================================================================
