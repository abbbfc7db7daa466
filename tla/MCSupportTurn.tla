--------------------------- MODULE MCSupportTurn ---------------------------
(* Small instances of SupportTurn: one turn with every tool and every kind  *)
(* of request, and two turns of one conversation racing for a ticket and a  *)
(* handoff.                                                                 *)
EXTENDS SupportTurn, TLC

CONSTANTS t1, t2, c1, alice, mallory, k1, own, other

OneTurn == {t1}
TwoTurns == {t1, t2}
Conversations == {c1}
OneCustomer == {alice}
TwoCustomers == {alice, mallory}
Keys == {k1}
Queries == {own, other}
Nothing == {}

Ordinary ==
  [conversation |-> c1, customer |-> alice, risk |-> FALSE, faq |-> FALSE, mayTicket |-> TRUE,
   mayHandoff |-> TRUE, requiresEscalation |-> FALSE, needsHuman |-> FALSE, greeting |-> FALSE]
Faq == [Ordinary EXCEPT !.faq = TRUE]
Risky == [Ordinary EXCEPT !.risk = TRUE]

EveryReply == Texts \cup {"error", "aborted"}
SomeReplies == {"plain", "claim", "error"}
PlainReplies == {"plain"}

\* One turn: each kind of request the verdict tells apart.
Requests ==
  {Ordinary, Faq, Risky, [Ordinary EXCEPT !.requiresEscalation = TRUE],
   [Ordinary EXCEPT !.mayTicket = FALSE, !.mayHandoff = FALSE]}
Calls ==
  {[tool |-> "search_faq", arg |-> None], [tool |-> "search_knowledge", arg |-> own],
   [tool |-> "search_knowledge", arg |-> other], [tool |-> "create_ticket", arg |-> k1],
   [tool |-> "handoff_to_human", arg |-> None]}

LookupCalls == Calls \ {[tool |-> "create_ticket", arg |-> k1]}

\* Two turns: side effects only, of one customer or of two that claim the conversation.
RacingRequests == {Faq, Risky, [Risky EXCEPT !.customer = mallory]}
RacingCalls ==
  {[tool |-> "create_ticket", arg |-> k1], [tool |-> "handoff_to_human", arg |-> None]}
Symmetric == Permutations(TwoTurns)
=============================================================================
