-------------------------- MODULE MCWeComContracts --------------------------
(* What the two WeCom channels promise, checked to the end: small instances *)
(* of WeComCore (three messages of two senders, handled two at a time for   *)
(* one conversation) and of StaffBooking (one booking, its card and two     *)
(* clicks).  The two share no state: a behaviour picks a channel and the    *)
(* other stays where it starts, where none of its fair actions is enabled.  *)
EXTENDS WeComCore, Sequences, TLC

CONSTANTS
  m1, m2, m3, s1, s2, v1, h1, h2, agent,  \* WeComCore
  ann, sue, b1, k1, i1, r1, r2, c1, c2, n1, u1  \* StaffBooking

VARIABLES
  channel,
  role, extra, intents, availability, request, decisions, bindings, sending, cards, inbound, click, posts, shown

staffVars == <<role, extra, intents, availability, request, decisions,
               bindings, sending, cards, inbound, click, posts, shown>>

Messages == {m1, m2, m3}
Subjects == {s1, s2}
Senders == m1 :> s1 @@ m2 :> s1 @@ m3 :> s2
Conversations == {v1}
Handlers == {h1, h2}
Identities == {agent}
Changed == {agent, None}
AllStatements == {"claim", "read", "attach", "mark", "finish", "process"}

-----------------------------------------------------------------------------
Draft1 == [requested |-> i1, preferred |-> None]
Creation == [kind |-> "create", key |-> k1, draft |-> Draft1]
Transition(action, expected, interval) ==
  [kind |-> "transition", booking |-> b1, action |-> action, expected |-> expected, interval |-> interval]

Staff == INSTANCE StaffBooking WITH
  Member <- {ann, sue}, InitialRole <- (ann :> "agent") @@ (sue :> "supervisor"),
  StaffUser <- {u1}, Provisions <- {[user |-> u1, member |-> sue]},
  Booking <- {b1}, Interval <- {i1}, Slot <- {}, Key <- {k1}, Draft <- {Draft1},
  Command <- {Creation, Transition("propose_alternative", 1, i1)},
  Request <- {r1, r2}, Task <- {n1}, Callback <- {c1, c2}, NewRole <- {}, Mover <- {},
  Faulty <- {"card", "feedback"}, StaffEnabled <- TRUE, outbox <- posts

BothInit == channel \in {"customer", "staff"} /\ Init /\ Staff!StaffInit

BothNext ==
  /\ UNCHANGED channel
  /\ \/ channel = "customer" /\ Next /\ UNCHANGED staffVars
     \/ channel = "staff" /\ Staff!StaffNext /\ UNCHANGED vars

BothSpec == BothInit /\ [][BothNext]_<<channel, vars, staffVars>> /\ Fairness /\ Staff!StaffFairness

-----------------------------------------------------------------------------
\* A card decided by a click leads to an attempt to tell the customer, unless the
\* process dies, whether or not the feedback on the card could be recorded.
DecisionIsReported == Staff!DecisionIsReported

\* Cards, feedback on them and messages to the customer reach people at most once,
\* and what their rows say of the outcome is true.
CardDeliverySpec == Staff!DeliverySpec
=============================================================================
