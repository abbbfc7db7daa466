-------------------------- MODULE MCBookingIntents --------------------------
(* A small instance of StoreOps: an agent and a supervisor race over one    *)
(* booking and one availability row with stale versions, and use consoles.  *)
(* The two sides share no state: a behaviour picks one of them and the      *)
(* other stays where it starts, so TLC explores the sum of the two state    *)
(* spaces.                                                                  *)
EXTENDS StoreOps, TLC

CONSTANTS ann, sue, b1, b2, k1, i1, i2, s1, r1, r2, r3,  \* BookingIntents
          d1, d2, k2, k3                                 \* ConsoleStoreOps

VARIABLES side

Members == {ann, sue}
Roles == (ann :> "agent") @@ (sue :> "supervisor")
Bookings == {b1, b2}
Intervals == {i1, i2}
Slots == {s1}
Keys == {k1}
Open == [requested |-> None, preferred |-> None]
Timed == [requested |-> i1, preferred |-> sue]
Drafts == {Open, Timed}
ThreeRequests == {r1, r2, r3}

Creations == [kind : {"create"}, key : Keys, draft : Drafts]
Change(action, expected, interval) ==
  [kind |-> "transition", booking |-> b1, action |-> action, expected |-> expected, interval |-> interval]
Changes == {Change("confirm", 1, i1), Change("confirm", 1, None), Change("confirm", 2, None), Change("confirm", 2, i1),
            Change("propose_alternative", 1, i2), Change("cancel", 1, None), Change("cancel", 2, None)}
Writes == [kind : {"availability"}, slot : Slots, expected : {0, 1}]

Commands == Creations \cup Changes \cup Writes
Demoted == {"agent"}
Transferred == {sue}
AllStatements == {"commit", "process"}
Symmetric == Permutations(ThreeRequests)

-----------------------------------------------------------------------------
\* The creator of a booking and a supervisor, each at a console; a behaviour uses
\* one kind of control.
ConsoleDrafts == {d1, d2}
ConsoleKeys == {k1, k2, k3}
OneControl == {{"row"}, {"form"}, {"editor"}}
EitherRole == {(ann :> r) @@ (sue :> "supervisor") : r \in {"agent", "supervisor"}}

BothInit ==
  /\ side \in {"server", "console"}
  /\ Init /\ Console!Init
  /\ side = "server" => roleOf[ann] = "agent" /\ focus = {"row"}

BothNext ==
  /\ UNCHANGED side
  /\ \/ side = "server" /\ Next /\ UNCHANGED consoleVars
     \/ side = "console" /\ Console!Next /\ UNCHANGED bvars

BothSpec == BothInit /\ [][BothNext]_<<side, bvars, consoleVars>>
=============================================================================
