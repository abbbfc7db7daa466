--------------------------- MODULE MCStaffBooking ---------------------------
(* Small instances of StaffBooking: one booking, its cards, clicks on them  *)
(* and the API requests that race with the clicks.                          *)
EXTENDS StaffBooking, TLC

CONSTANTS ann, sue, b1, k1, i1, r1, r2, h1, h2, n1, n2, u1

Members == {ann, sue}
Roles == (ann :> "agent") @@ (sue :> "supervisor")
OneBooking == {b1}
OneInterval == {i1}
Keys == {k1}
Draft1 == [requested |-> i1, preferred |-> None]
Drafts == {Draft1}
TwoRequests == {r1, r2}
TwoCallbacks == {h1, h2}
TwoTasks == {n1, n2}
StaffUsers == {u1}
\* The user may be bound to the wrong member first.
Pairs == [user : {u1}, member : {ann, sue}]
Nothing == {}
Demoted == {"agent"}
Transferred == {sue}

Creation == [kind |-> "create", key |-> k1, draft |-> Draft1]
Change(action, expected, interval) ==
  [kind |-> "transition", booking |-> b1, action |-> action, expected |-> expected, interval |-> interval]
ApiCommands == {Creation, Change("propose_alternative", 1, i1), Change("cancel", 1, None), Change("cancel", 2, None)}

AllStatements == {"commit", "card", "feedback", "customer", "process"}
Symmetric == Permutations(TwoRequests) \cup Permutations(TwoCallbacks) \cup Permutations(TwoTasks)
=============================================================================
