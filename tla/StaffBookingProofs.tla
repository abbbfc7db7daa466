------------------------- MODULE StaffBookingProofs -------------------------
(* Proofs about BookingIntents, what the server does alone (Spec), and     *)
(* then about StaffBooking, where staff also act by card (StaffSpec), for  *)
(* every set of members, bookings, keys, requests, cards and callbacks,    *)
(* and whatever statements and calls of WeCom fail.                        *)
EXTENDS StaffBooking, TLAPS, FiniteSetTheorems

-----------------------------------------------------------------------------
(* What a step does to the rows.                                           *)

\* A transaction in its body.
InBody(r, kind) == request[r].phase = "authorized" /\ request[r].command.kind = kind

NewIntent(m, c) ==
  [key |-> c.key, draft |-> c.draft, creator |-> m, status |-> "pending_confirmation",
   version |-> 1, alternative |-> None, confirmed |-> None]

Opens(r, b) ==
  /\ InBody(r, "create")
  /\ Keyed(request[r].command.key) = {} /\ intents[b] = NoIntent
  /\ intents' = [intents EXCEPT ![b] = NewIntent(request[r].member, request[r].command)]
  /\ UNCHANGED <<role, extra, availability, decisions>>

\* A transition takes effect, whichever channel asks for it.
Moved(m, c, via) ==
  /\ Transitionable(m, c)
  /\ ApplyTransition(m, c, via)
  /\ UNCHANGED <<role, extra, availability>>

Moves(r) == InBody(r, "transition") /\ Moved(request[r].member, request[r].command, "api")

Writes(r) ==
  LET c == request[r].command
  IN  /\ InBody(r, "availability")
      /\ availability[c.slot] = c.expected
      /\ availability' = [availability EXCEPT ![c.slot] = availability[c.slot] + 1]
      /\ Decided(c.slot, c.expected, availability[c.slot] + 1, "write", request[r].member, "api")
      /\ UNCHANGED <<role, extra, intents>>

RowsKept == UNCHANGED <<intents, availability, decisions>>

LEMMA StepShapes ==
  ASSUME [Next]_bvars
  PROVE  RowsKept \/ \E r \in Request : (\E b \in Booking : Opens(r, b)) \/ Moves(r) \/ Writes(r)
<1> USE DEF RowsKept
<1>1. ASSUME NEW r \in Request, NEW m \in Member, NEW c \in Command, Resolve(r, m, c) PROVE RowsKept
  BY <1>1 DEF Resolve
<1>2. ASSUME NEW r \in Request, Authorize(r) PROVE RowsKept
  BY <1>2 DEF Authorize
<1>3. ASSUME NEW r \in Request, NEW o \in Outcome("commit"), Create(r, o)
      PROVE  RowsKept \/ \E b \in Booking : Opens(r, b)
  <2>1. PICK b \in Booking : CreateNew(r, b, o) \/ CreateAgain(r, b, o)
    BY <1>3 DEF Create
  <2>2. CASE CreateNew(r, b, o)
    BY <1>3, <2>1, <2>2 DEF Create, CreateNew, Opens, InBody, NewIntent
  <2>3. CASE CreateAgain(r, b, o)
    BY <2>3 DEF CreateAgain
  <2> QED  BY <2>1, <2>2, <2>3
<1>4. ASSUME NEW r \in Request, NEW o \in Outcome("commit"), Transition(r, o)
      PROVE  RowsKept \/ Moves(r)
  BY <1>4 DEF Transition, Refuse, Moves, Moved, InBody
<1>5. ASSUME NEW r \in Request, NEW o \in Outcome("commit"), PutAvailability(r, o)
      PROVE  RowsKept \/ Writes(r)
  BY <1>5 DEF PutAvailability, Refuse, Writes, InBody
<1>6. ASSUME NEW m \in Member, NEW ro \in NewRole, SetRole(m, ro) PROVE RowsKept
  BY <1>6 DEF SetRole
<1>7. CASE Crash
  BY <1>7 DEF Crash
<1>9. ASSUME NEW m \in Mover, AddMembership(m) PROVE RowsKept
  BY <1>9 DEF AddMembership
<1>8. CASE UNCHANGED bvars
  BY <1>8 DEF bvars
<1> QED  BY <1>1, <1>2, <1>3, <1>4, <1>5, <1>6, <1>7, <1>8, <1>9 DEF Next, RequestStep

-----------------------------------------------------------------------------
(* Type correctness.                                                       *)

LEMMA CommandShapes ==
  ASSUME NEW c \in Command
  PROVE  /\ c.kind \in {"create", "transition", "availability"}
         /\ c.kind = "create" => c.key \in Key /\ c.draft \in Draft
         /\ c.kind = "transition" =>
              /\ c.booking \in Booking /\ c.expected \in Nat /\ c.interval \in Interval \cup {None}
              /\ c.action \in {"confirm", "propose_alternative", "cancel"}
              /\ c.action = "propose_alternative" => c.interval # None
         /\ c.kind = "availability" => c.slot \in Slot /\ c.expected \in Nat
<1>1. c \in CommandType
  BY BookingAssumption
<1>2. CASE c \in [kind : {"create"}, key : Key, draft : Draft]
  BY <1>2
<1>3. CASE c \in [kind : {"transition"}, booking : Booking,
                  action : {"confirm", "propose_alternative", "cancel"},
                  expected : Nat \ {0}, interval : Interval \cup {None}]
  BY <1>3, BookingAssumption
<1>4. CASE c \in [kind : {"availability"}, slot : Slot, expected : Nat]
  BY <1>4
<1> QED  BY <1>1, <1>2, <1>3, <1>4 DEF CommandType

\* What a transition asks, over the API or by a card.
Asking(c) ==
  /\ c.booking \in Booking /\ c.expected \in Nat /\ c.interval \in Interval \cup {None}
  /\ c.action \in {"confirm", "propose_alternative", "cancel"}
  /\ c.action = "propose_alternative" => c.interval # None

LEMMA RequestShapes ==
  ASSUME TypeOK, NEW r \in Request, request[r].phase # "idle"
  PROVE  /\ request[r] \in RequestRecord
         /\ request[r].member \in Member /\ request[r].role \in Role
         /\ request[r].command \in Command
<1>1. request[r] \in RequestRecord \cup {Idle}
  BY DEF TypeOK
<1>2. request[r] # Idle
  BY DEF Idle
<1> QED  BY <1>1, <1>2 DEF RequestRecord

\* An existing intent is a row of booking_intents.
LEMMA IntentShapes ==
  ASSUME TypeOK, NEW b \in Booking, intents[b] # NoIntent
  PROVE  /\ intents[b] \in Intent
         /\ intents[b].version \in Nat \ {0} /\ intents[b].status \in Status
         /\ intents[b].alternative \in Interval \cup {None}
         /\ intents[b].confirmed \in Interval \cup {None}
BY DEF TypeOK, Intent

LEMMA VersionsAreNat ==
  ASSUME TypeOK, NEW b \in Booking
  PROVE  intents[b].version \in Nat
<1>1. CASE intents[b] = NoIntent
  BY <1>1 DEF NoIntent
<1>2. CASE intents[b] # NoIntent
  BY <1>2, IntentShapes
<1> QED  BY <1>1, <1>2

\* A transition makes a row from a row and keeps the CHECK constraints.
LEMMA TransitionedShapes ==
  ASSUME TypeOK, NEW m, NEW c, Asking(c), Transitionable(m, c)
  PROVE  LET old == intents[c.booking]
             new == Transitioned(old, c)
         IN  /\ old # NoIntent /\ old \in Intent
             /\ new \in Intent /\ new # NoIntent
             /\ new.version = old.version + 1 /\ old.version = c.expected
             /\ new.key = old.key /\ new.draft = old.draft /\ new.creator = old.creator
             /\ new.status = StatusAfter[c.action]
             /\ new.alternative = IF c.action = "propose_alternative" THEN c.interval ELSE old.alternative
             /\ new.confirmed = IF c.action # "confirm" THEN old.confirmed
                                ELSE IF old.status = "alternative_proposed" THEN old.alternative ELSE c.interval
             /\ new.status = "alternative_proposed" => new.alternative # None
             /\ new.status = "confirmed" => new.confirmed # None
<1> DEFINE old == intents[c.booking]
<1>1. /\ c.booking \in Booking /\ c.interval \in Interval \cup {None}
      /\ c.action \in {"confirm", "propose_alternative", "cancel"}
      /\ c.action = "propose_alternative" => c.interval # None
  BY DEF Asking
<1>2. old # NoIntent /\ old.version = c.expected /\ Resolvable(old, c)
  BY DEF Transitionable
<1>3. /\ old \in Intent
      /\ old.status = "alternative_proposed" => old.alternative # None
      /\ old.status = "confirmed" => old.confirmed # None
  BY <1>1, <1>2 DEF TypeOK
<1> DEFINE new == Transitioned(old, c)
<1> HIDE DEF old
<1>4. old.version \in Nat /\ old.confirmed \in Interval \cup {None}
      /\ old.alternative \in Interval \cup {None}
  BY <1>3 DEF Intent
<1>5. /\ new = [old EXCEPT !.version = new.version, !.status = new.status,
                          !.alternative = new.alternative, !.confirmed = new.confirmed]
      /\ new.version = old.version + 1
      /\ new.status = StatusAfter[c.action]
      /\ new.alternative = IF c.action = "propose_alternative" THEN c.interval ELSE old.alternative
      /\ new.confirmed = IF c.action # "confirm" THEN old.confirmed
                         ELSE IF old.status = "alternative_proposed" THEN old.alternative ELSE c.interval
      /\ new.key = old.key /\ new.draft = old.draft /\ new.creator = old.creator
  BY <1>3 DEF Transitioned, Intent
<1> HIDE DEF new
<1>6. new.status \in Status
  BY <1>1, <1>5 DEF StatusAfter, Status
<1>7. new.alternative \in Interval \cup {None} /\ new.confirmed \in Interval \cup {None}
  BY <1>1, <1>4, <1>5
<1>8. new \in Intent
  BY <1>3, <1>4, <1>5, <1>6, <1>7 DEF Intent
<1>9. /\ new.status = "alternative_proposed" => new.alternative # None
      /\ new.status = "confirmed" => new.confirmed # None
  BY <1>1, <1>2, <1>3, <1>5 DEF StatusAfter, Resolvable
<1>10. new # NoIntent
  BY <1>6 DEF NoIntent, Status
<1> QED  BY <1>1, <1>2, <1>3, <1>5, <1>8, <1>9, <1>10 DEF old, new

\* The rows after a transition.
LEMMA MovedRow ==
  ASSUME TypeOK, NEW m, NEW c, NEW via, Asking(c), Moved(m, c, via)
  PROVE  /\ intents' = [intents EXCEPT ![c.booking] = Transitioned(intents[c.booking], c)]
         /\ intents'[c.booking] = Transitioned(intents[c.booking], c)
         /\ \A a \in Booking : a # c.booking => intents'[a] = intents[a]
<1> DEFINE new == Transitioned(intents[c.booking], c)
<1>1. intents' = [intents EXCEPT ![c.booking] = new] /\ c.booking \in Booking
  BY DEF Moved, ApplyTransition, Asking
<1> HIDE DEF new
<1>2. intents'[c.booking] = new /\ \A a \in Booking : a # c.booking => intents'[a] = intents[a]
  BY <1>1 DEF TypeOK
<1> QED  BY <1>1, <1>2 DEF new

\* The history after a transition.
LEMMA MovedHistory ==
  ASSUME TypeOK, NEW m \in Member, NEW c, NEW via \in {"api", "card"}, Asking(c), Moved(m, c, via)
  PROVE  LET d == [of |-> c.booking, expected |-> c.expected, version |-> intents[c.booking].version + 1,
                   action |-> c.action, by |-> m, via |-> via]
         IN  decisions' = decisions \cup {d} /\ d \in Decision
<1>1. intents[c.booking].version \in Nat /\ c.booking \in Booking
  BY VersionsAreNat DEF Asking
<1> QED  BY <1>1 DEF Moved, ApplyTransition, Decided, Decision, Asking

\* A request in its body asks with a parsed command.
LEMMA MovesAsks ==
  ASSUME TypeOK, NEW r \in Request, Moves(r)
  PROVE  /\ request[r].command \in Command /\ Asking(request[r].command)
         /\ request[r].member \in Member
         /\ Moved(request[r].member, request[r].command, "api")
<1>1. request[r].command \in Command /\ request[r].member \in Member
  BY RequestShapes DEF Moves, InBody
<1> QED  BY <1>1, CommandShapes DEF Moves, InBody, Asking

LEMMA TypeInit == Init => TypeOK
BY BookingAssumption DEF Init, TypeOK, Role, NoIntent

\* A reply to a request that was resolved leaves a well-formed request.
LEMMA ReplyType ==
  ASSUME TypeOK, NEW r \in Request, request[r].phase # "idle",
         NEW phase \in {"authorized", "notify", "send", "done", "dead"},
         NEW reply \in Booking \cup {None, "ok", "refused", "failed"}, Reply(r, phase, reply)
  PROVE  request' \in [Request -> RequestRecord \cup {Idle}]
<1>1. request[r] \in RequestRecord
  BY RequestShapes
<1>2. [request[r] EXCEPT !.phase = phase, !.reply = reply] \in RequestRecord
  BY <1>1 DEF RequestRecord
<1>3. request' = [request EXCEPT ![r] = [request[r] EXCEPT !.phase = phase, !.reply = reply]]
  BY DEF Reply, TypeOK
<1> QED  BY <1>2, <1>3 DEF TypeOK

LEMMA CommitType ==
  ASSUME TypeOK, NEW r \in Request, request[r].phase # "idle", NEW o, NEW phase \in {"notify", "done"},
         NEW reply \in Booking \cup {"ok"}, Commit(r, o, phase, reply)
  PROVE  request' \in [Request -> RequestRecord \cup {Idle}]
BY ReplyType DEF Commit

LEMMA RequestType ==
  ASSUME TypeOK, [Next]_bvars
  PROVE  request' \in [Request -> RequestRecord \cup {Idle}]
<1>1. ASSUME NEW r \in Request, NEW m \in Member, NEW c \in Command, Resolve(r, m, c)
      PROVE  request' \in [Request -> RequestRecord \cup {Idle}]
  <2>1. role[m] \in Role
    BY <1>1 DEF Resolve, TypeOK
  <2> DEFINE new == [phase |-> "resolved", member |-> m, role |-> role[m], command |-> c, reply |-> None]
  <2>2. new \in RequestRecord
    BY <2>1 DEF RequestRecord
  <2>3. request' = [request EXCEPT ![r] = new]
    BY <1>1 DEF Resolve
  <2> QED  BY <2>2, <2>3 DEF TypeOK
<1>2. ASSUME NEW r \in Request, Authorize(r)
      PROVE  request' \in [Request -> RequestRecord \cup {Idle}]
  BY <1>2, ReplyType DEF Authorize
<1>3. ASSUME NEW r \in Request, NEW o \in Outcome("commit"), Create(r, o)
      PROVE  request' \in [Request -> RequestRecord \cup {Idle}]
  <2>1. PICK b \in Booking : CreateNew(r, b, o) \/ CreateAgain(r, b, o)
    BY <1>3 DEF Create
  <2>2. request[r].phase # "idle" /\ AfterCreate \in {"notify", "done"}
    BY <1>3 DEF Create, AfterCreate
  <2>3. CASE CreateNew(r, b, o)
    BY <2>2, <2>3, CommitType DEF CreateNew
  <2>4. CASE CreateAgain(r, b, o)
    BY <2>2, <2>4, CommitType, ReplyType DEF CreateAgain
  <2> QED  BY <2>1, <2>3, <2>4
<1>4. ASSUME NEW r \in Request, NEW o \in Outcome("commit"), Transition(r, o)
      PROVE  request' \in [Request -> RequestRecord \cup {Idle}]
  BY <1>4, CommitType, ReplyType DEF Transition, Refuse
<1>5. ASSUME NEW r \in Request, NEW o \in Outcome("commit"), PutAvailability(r, o)
      PROVE  request' \in [Request -> RequestRecord \cup {Idle}]
  BY <1>5, CommitType, ReplyType DEF PutAvailability, Refuse
<1>6. ASSUME NEW m \in Member, NEW ro \in NewRole, SetRole(m, ro)
      PROVE  request' \in [Request -> RequestRecord \cup {Idle}]
  BY <1>6 DEF SetRole, TypeOK
<1>7. CASE Crash
  <2>1. ASSUME NEW r \in Request, InProcess(r) PROVE [request[r] EXCEPT !.phase = "dead"] \in RequestRecord
    <3>1. request[r] \in RequestRecord  BY <2>1, RequestShapes DEF InProcess
    <3> QED  BY <3>1 DEF RequestRecord
  <2> QED  BY <1>7, <2>1 DEF Crash, KillRequests, TypeOK
<1>9. ASSUME NEW m \in Mover, AddMembership(m)
      PROVE  request' \in [Request -> RequestRecord \cup {Idle}]
  BY <1>9 DEF AddMembership, TypeOK
<1>8. CASE UNCHANGED bvars
  BY <1>8 DEF bvars, TypeOK
<1> QED  BY <1>1, <1>2, <1>3, <1>4, <1>5, <1>6, <1>7, <1>8, <1>9 DEF Next, RequestStep

\* The part of TypeOK about the rows and the history.
RowsOK ==
  /\ intents \in [Booking -> Intent \cup {NoIntent}]
  /\ \A b \in Booking :
       /\ intents[b].status = "alternative_proposed" => intents[b].alternative # None
       /\ intents[b].status = "confirmed" => intents[b].confirmed # None
  /\ availability \in [Slot -> Nat]
  /\ decisions \subseteq Decision

LEMMA MovedType ==
  ASSUME TypeOK, NEW m \in Member, NEW c, Asking(c), NEW via \in {"api", "card"}, Moved(m, c, via)
  PROVE  RowsOK'
<1> DEFINE new == Transitioned(intents[c.booking], c)
           d == [of |-> c.booking, expected |-> c.expected, version |-> intents[c.booking].version + 1,
                 action |-> c.action, by |-> m, via |-> via]
<1>1. /\ new \in Intent
      /\ new.status = "alternative_proposed" => new.alternative # None
      /\ new.status = "confirmed" => new.confirmed # None
  BY TransitionedShapes DEF Moved
<1>2. /\ intents' = [intents EXCEPT ![c.booking] = new] /\ c.booking \in Booking
      /\ decisions' = decisions \cup {d} /\ d \in Decision /\ UNCHANGED availability
  BY MovedRow, MovedHistory DEF Moved, Asking
<1> HIDE DEF new, d
<1> QED  BY <1>1, <1>2 DEF TypeOK, RowsOK

LEMMA TypeStep == TypeOK /\ [Next]_bvars => TypeOK'
<1> SUFFICES ASSUME TypeOK, [Next]_bvars PROVE TypeOK'
  OBVIOUS
<1>1. request' \in [Request -> RequestRecord \cup {Idle}]
  BY RequestType
<1>2. role' \in [Member -> Role] /\ extra' \subseteq Member
  <2>1. ASSUME NEW m \in Member, NEW ro \in NewRole, SetRole(m, ro)
        PROVE  role' \in [Member -> Role] /\ extra' \subseteq Member
    BY <2>1, BookingAssumption DEF SetRole, TypeOK, Role
  <2>2. ASSUME NEW m \in Mover, AddMembership(m)
        PROVE  role' \in [Member -> Role] /\ extra' \subseteq Member
    BY <2>2, BookingAssumption DEF AddMembership, TypeOK
  <2>3. \/ \E m \in Member, ro \in NewRole : SetRole(m, ro)
        \/ \E m \in Mover : AddMembership(m)
        \/ UNCHANGED <<role, extra>>
    BY DEF Next, RequestStep, Resolve, Authorize, Create, CreateNew, CreateAgain, Transition,
           PutAvailability, Refuse, Crash, bvars
  <2> QED  BY <2>1, <2>2, <2>3 DEF TypeOK
<1>3. CASE RowsKept
  BY <1>1, <1>2, <1>3 DEF RowsKept, TypeOK
<1>4. ASSUME NEW r \in Request, NEW b \in Booking, Opens(r, b) PROVE TypeOK'
  <2>1. request[r].phase # "idle" /\ request[r].command.kind = "create"
    BY <1>4 DEF Opens, InBody
  <2> DEFINE new == NewIntent(request[r].member, request[r].command)
  <2>2. new \in Intent /\ new.status = "pending_confirmation"
    BY <2>1, RequestShapes, CommandShapes DEF NewIntent, Intent, Status
  <2>3. intents' = [intents EXCEPT ![b] = new] /\ UNCHANGED <<availability, decisions>>
    BY <1>4 DEF Opens
  <2> HIDE DEF new
  <2> QED  BY <1>1, <1>2, <2>2, <2>3 DEF TypeOK
<1>5. ASSUME NEW r \in Request, Moves(r) PROVE TypeOK'
  BY <1>1, <1>2, <1>5, MovesAsks, MovedType DEF TypeOK, RowsOK
<1>6. ASSUME NEW r \in Request, Writes(r) PROVE TypeOK'
  <2>1. PICK c \in Command, m \in Member :
           c = request[r].command /\ m = request[r].member /\ c.kind = "availability"
    BY <1>6, RequestShapes DEF Writes, InBody
  <2> DEFINE d == [of |-> c.slot, expected |-> c.expected, version |-> availability[c.slot] + 1,
                   action |-> "write", by |-> m, via |-> "api"]
  <2>2. c.slot \in Slot /\ c.expected \in Nat /\ availability[c.slot] \in Nat
    BY <2>1, CommandShapes DEF TypeOK
  <2>3. d \in Decision
    BY <2>1, <2>2 DEF Decision
  <2>4. /\ availability' = [availability EXCEPT ![c.slot] = availability[c.slot] + 1]
        /\ decisions' = decisions \cup {d} /\ UNCHANGED intents
    BY <1>6, <2>1 DEF Writes, Decided
  <2> HIDE DEF d
  <2> QED  BY <1>1, <1>2, <2>2, <2>3, <2>4 DEF TypeOK
<1> QED  BY <1>3, <1>4, <1>5, <1>6, StepShapes

\* BookingIntents is type correct, and the constraints of booking_intents are
\* never violated, for any constants that satisfy BookingAssumption.
THEOREM TypeCorrect == Spec => []TypeOK
BY TypeInit, TypeStep, PTL DEF Spec

-----------------------------------------------------------------------------
(* No lost update.  A decision on version v leaves v + 1, and no row is     *)
(* older than the decisions on it: that is what makes two decisions on one  *)
(* version impossible.                                                      *)

VersionInv ==
  /\ \A d \in decisions :
       /\ d.version = d.expected + 1
       /\ d.of \in Booking => d.version <= intents[d.of].version
       /\ d.of \in Slot => d.version <= availability[d.of]
  /\ NoLostUpdate

LEMMA DecisionShapes ==
  ASSUME TypeOK, NEW d \in decisions
  PROVE  d.of \in Booking \cup Slot /\ d.expected \in Nat /\ d.version \in Nat /\ d.by \in Member
BY DEF TypeOK, Decision

LEMMA VersionInit == Init => VersionInv
BY DEF Init, VersionInv, NoLostUpdate, NoIntent

LEMMA MovedVersions ==
  ASSUME TypeOK, VersionInv, NEW m \in Member, NEW c, Asking(c), NEW via \in {"api", "card"},
         Moved(m, c, via)
  PROVE  VersionInv'
<1> DEFINE b == c.booking
           v == intents[b].version
           new == Transitioned(intents[b], c)
           d0 == [of |-> b, expected |-> c.expected, version |-> v + 1,
                  action |-> c.action, by |-> m, via |-> via]
<1>2. b \in Booking /\ new.version = v + 1 /\ v = c.expected
  BY TransitionedShapes DEF Asking, Moved
<1>3. v \in Nat
  BY <1>2, VersionsAreNat
<1>4. /\ intents' = [intents EXCEPT ![b] = new]
      /\ decisions' = decisions \cup {d0} /\ UNCHANGED availability
  BY MovedRow, MovedHistory DEF Moved
<1>5. d0.of = b /\ d0.expected = v /\ d0.version = v + 1
  BY <1>2
<1> HIDE DEF b, v, new, d0
<1>6. /\ intents'[b].version = v + 1
      /\ \A a \in Booking : a # b => intents'[a] = intents[a]
  BY <1>2, <1>4 DEF TypeOK
<1>7. b \notin Slot
  BY <1>2, BookingAssumption
<1>8. \A d \in decisions : d.of = b => d.version <= v /\ d.expected < v
  <2> SUFFICES ASSUME NEW d \in decisions, d.of = b PROVE d.version <= v /\ d.expected < v
    OBVIOUS
  <2>1. d.version \in Nat /\ d.expected \in Nat /\ d.version = d.expected + 1 /\ d.version <= v
    BY <1>2, DecisionShapes DEF VersionInv, v
  <2> QED  BY <1>3, <2>1
<1>9. \A d, e \in decisions' : d.of = e.of /\ d.expected = e.expected => d = e
  BY <1>3, <1>4, <1>5, <1>8 DEF VersionInv, NoLostUpdate
<1>10. \A d \in decisions' : d.version = d.expected + 1
  BY <1>4, <1>5 DEF VersionInv
<1>11. \A d \in decisions' : d.of \in Booking => d.version <= intents'[d.of].version
  <2> SUFFICES ASSUME NEW d \in decisions', d.of \in Booking
               PROVE  d.version <= intents'[d.of].version
    OBVIOUS
  <2>1. CASE d.of = b
    <3>1. d.version <= v + 1
      BY <1>3, <1>4, <1>5, <1>8, <2>1, DecisionShapes
    <3> QED  BY <1>6, <2>1, <3>1
  <2>2. CASE d.of # b
    <3>1. d \in decisions  BY <1>4, <1>5, <2>2
    <3> QED  BY <1>6, <2>2, <3>1 DEF VersionInv
  <2> QED  BY <2>1, <2>2
<1>12. \A d \in decisions' : d.of \in Slot => d.version <= availability'[d.of]
  BY <1>4, <1>5, <1>7 DEF VersionInv
<1>13. \A a \in Booking : \A w \in 2..intents'[a].version :
         \E d \in decisions' : d.of = a /\ d.version = w /\ d.expected = w - 1
  <2> SUFFICES ASSUME NEW a \in Booking, NEW w \in 2..intents'[a].version
               PROVE  \E d \in decisions' : d.of = a /\ d.version = w /\ d.expected = w - 1
    OBVIOUS
  <2>1. CASE a = b /\ w = v + 1
    <3>1. d0 \in decisions' /\ d0.expected = w - 1  BY <1>3, <1>4, <1>5, <2>1
    <3> QED  BY <1>5, <2>1, <3>1
  <2>2. CASE ~(a = b /\ w = v + 1)
    <3>1. w \in 2..intents[a].version
      BY <1>3, <1>6, <2>2 DEF v
    <3> QED  BY <1>4, <3>1 DEF VersionInv, NoLostUpdate
  <2> QED  BY <2>1, <2>2
<1>14. \A s \in Slot : \A w \in 1..availability'[s] :
         \E d \in decisions' : d.of = s /\ d.version = w /\ d.expected = w - 1
  BY <1>4 DEF VersionInv, NoLostUpdate
<1> QED  BY <1>9, <1>10, <1>11, <1>12, <1>13, <1>14 DEF VersionInv, NoLostUpdate

LEMMA VersionStep == TypeOK /\ VersionInv /\ [Next]_bvars => VersionInv'
<1> SUFFICES ASSUME TypeOK, VersionInv, [Next]_bvars PROVE VersionInv'
  OBVIOUS
<1>1. CASE RowsKept
  BY <1>1 DEF RowsKept, VersionInv, NoLostUpdate
<1>2. ASSUME NEW r \in Request, NEW b \in Booking, Opens(r, b) PROVE VersionInv'
  <2> DEFINE new == NewIntent(request[r].member, request[r].command)
  <2>1. /\ intents' = [intents EXCEPT ![b] = new] /\ new.version = 1
        /\ intents[b].version = 0 /\ UNCHANGED <<availability, decisions>>
    BY <1>2 DEF Opens, NewIntent, NoIntent
  <2> HIDE DEF new
  <2>2. /\ intents'[b].version = 1
        /\ \A c \in Booking : c # b => intents'[c] = intents[c]
    BY <2>1 DEF TypeOK
  <2>3. \A d \in decisions : d.of \in Booking => d.version <= intents'[d.of].version
    <3> SUFFICES ASSUME NEW d \in decisions, d.of \in Booking
                 PROVE  d.version <= intents'[d.of].version
      OBVIOUS
    <3>1. d.version \in Nat /\ d.version <= intents[d.of].version
      BY DecisionShapes DEF VersionInv
    <3> QED  BY <2>1, <2>2, <3>1
  <2>4. \A c \in Booking : \A v \in 2..intents'[c].version :
          \E d \in decisions : d.of = c /\ d.version = v /\ d.expected = v - 1
    BY <2>2 DEF VersionInv, NoLostUpdate
  <2> QED  BY <2>1, <2>3, <2>4 DEF VersionInv, NoLostUpdate
<1>3. ASSUME NEW r \in Request, Moves(r) PROVE VersionInv'
  BY <1>3, MovesAsks, MovedVersions
<1>4. ASSUME NEW r \in Request, Writes(r) PROVE VersionInv'
  <2>1. PICK c \in Command, m \in Member :
           c = request[r].command /\ m = request[r].member /\ c.kind = "availability"
    BY <1>4, RequestShapes DEF Writes, InBody
  <2> DEFINE s == c.slot
             v == availability[s]
             d0 == [of |-> s, expected |-> c.expected, version |-> v + 1,
                    action |-> "write", by |-> m, via |-> "api"]
  <2>2. s \in Slot /\ v = c.expected
    BY <1>4, <2>1, CommandShapes DEF Writes
  <2>3. v \in Nat
    BY <2>2 DEF TypeOK
  <2>4. /\ availability' = [availability EXCEPT ![s] = v + 1]
        /\ decisions' = decisions \cup {d0} /\ UNCHANGED intents
    BY <1>4, <2>1 DEF Writes, Decided
  <2>5. d0.of = s /\ d0.expected = v /\ d0.version = v + 1
    BY <2>2
  <2> HIDE DEF s, v, d0
  <2>6. /\ availability'[s] = v + 1
        /\ \A a \in Slot : a # s => availability'[a] = availability[a]
    BY <2>2, <2>4 DEF TypeOK
  <2>7. s \notin Booking
    BY <2>2, BookingAssumption
  <2>8. \A d \in decisions : d.of = s => d.version <= v /\ d.expected < v
    <3> SUFFICES ASSUME NEW d \in decisions, d.of = s PROVE d.version <= v /\ d.expected < v
      OBVIOUS
    <3>1. d.version \in Nat /\ d.expected \in Nat /\ d.version = d.expected + 1 /\ d.version <= v
      BY <2>2, DecisionShapes DEF VersionInv, v
    <3> QED  BY <2>3, <3>1
  <2>9. \A d, e \in decisions' : d.of = e.of /\ d.expected = e.expected => d = e
    BY <2>3, <2>4, <2>5, <2>8 DEF VersionInv, NoLostUpdate
  <2>10. \A d \in decisions' : d.version = d.expected + 1
    BY <2>4, <2>5 DEF VersionInv
  <2>11. \A d \in decisions' : d.of \in Slot => d.version <= availability'[d.of]
    <3> SUFFICES ASSUME NEW d \in decisions', d.of \in Slot
                 PROVE  d.version <= availability'[d.of]
      OBVIOUS
    <3>1. CASE d.of = s
      <4>1. d.version <= v + 1
        BY <2>3, <2>4, <2>5, <2>8, <3>1, DecisionShapes
      <4> QED  BY <2>6, <3>1, <4>1
    <3>2. CASE d.of # s
      <4>1. d \in decisions  BY <2>4, <2>5, <3>2
      <4> QED  BY <2>6, <3>2, <4>1 DEF VersionInv
    <3> QED  BY <3>1, <3>2
  <2>12. \A d \in decisions' : d.of \in Booking => d.version <= intents'[d.of].version
    BY <2>4, <2>5, <2>7 DEF VersionInv
  <2>13. \A a \in Slot : \A w \in 1..availability'[a] :
           \E d \in decisions' : d.of = a /\ d.version = w /\ d.expected = w - 1
    <3> SUFFICES ASSUME NEW a \in Slot, NEW w \in 1..availability'[a]
                 PROVE  \E d \in decisions' : d.of = a /\ d.version = w /\ d.expected = w - 1
      OBVIOUS
    <3>1. CASE a = s /\ w = v + 1
      <4>1. d0 \in decisions' /\ d0.expected = w - 1  BY <2>3, <2>4, <2>5, <3>1
      <4> QED  BY <2>5, <3>1, <4>1
    <3>2. CASE ~(a = s /\ w = v + 1)
      <4>1. w \in 1..availability[a]
        BY <2>3, <2>6, <3>2 DEF v
      <4> QED  BY <2>4, <4>1 DEF VersionInv, NoLostUpdate
    <3> QED  BY <3>1, <3>2
  <2>14. \A a \in Booking : \A w \in 2..intents'[a].version :
           \E d \in decisions' : d.of = a /\ d.version = w /\ d.expected = w - 1
    BY <2>4 DEF VersionInv, NoLostUpdate
  <2> QED  BY <2>9, <2>10, <2>11, <2>12, <2>13, <2>14 DEF VersionInv, NoLostUpdate
<1> QED  BY <1>1, <1>2, <1>3, <1>4, StepShapes

\* Of two decisions on one version of a booking or an availability row, only
\* one commits, and every version has the decision that made it.
THEOREM NoLostUpdateHolds == Spec => []NoLostUpdate
<1>1. VersionInv => NoLostUpdate
  BY DEF VersionInv
<1> QED  BY <1>1, TypeInit, TypeStep, VersionInit, VersionStep, PTL DEF Spec

-----------------------------------------------------------------------------
(* Authority.  The lock that "authorized" takes keeps the role it has seen. *)

AuthorityInv ==
  \A r \in Request : request[r].phase = "authorized" =>
    Capability(request[r].command) \in Capabilities(role[request[r].member])

LEMMA AuthorityInit == Init => AuthorityInv
BY DEF Init, AuthorityInv, Idle

\* A request that leaves its phase for a later one is not in its body.
LEMMA ReplyAuthority ==
  ASSUME TypeOK, AuthorityInv, NEW r \in Request, NEW phase, NEW reply,
         phase # "authorized", Reply(r, phase, reply), UNCHANGED role
  PROVE  AuthorityInv'
BY DEF TypeOK, AuthorityInv, Reply

LEMMA AuthorityStep == TypeOK /\ AuthorityInv /\ [Next]_bvars => AuthorityInv'
<1> SUFFICES ASSUME TypeOK, AuthorityInv, [Next]_bvars PROVE AuthorityInv'
  OBVIOUS
<1>1. ASSUME NEW r \in Request, NEW m \in Member, NEW c \in Command, Resolve(r, m, c)
      PROVE  AuthorityInv'
  BY <1>1 DEF Resolve, AuthorityInv, TypeOK
<1>2. ASSUME NEW r \in Request, Authorize(r) PROVE AuthorityInv'
  <2>1. CASE Current(request[r].member, request[r].role, Capability(request[r].command))
    <3>1. /\ request' = [request EXCEPT ![r] = [request[r] EXCEPT !.phase = "authorized", !.reply = None]]
          /\ UNCHANGED role
      BY <1>2, <2>1 DEF Authorize, Reply, TypeOK
    <3>2. request[r] \in RequestRecord
      BY <1>2, RequestShapes DEF Authorize
    <3>3. /\ request'[r].command = request[r].command /\ request'[r].member = request[r].member
          /\ \A q \in Request : q # r => request'[q] = request[q]
      BY <3>1, <3>2 DEF TypeOK, RequestRecord
    <3> QED  BY <2>1, <3>1, <3>3 DEF AuthorityInv, Current
  <2>2. CASE ~Current(request[r].member, request[r].role, Capability(request[r].command))
    BY <1>2, <2>2, ReplyAuthority DEF Authorize
  <2> QED  BY <2>1, <2>2
<1>3. ASSUME NEW r \in Request, NEW o \in Outcome("commit"), Create(r, o) PROVE AuthorityInv'
  <2>1. PICK b \in Booking : CreateNew(r, b, o) \/ CreateAgain(r, b, o)
    BY <1>3 DEF Create
  <2> QED  BY <2>1, ReplyAuthority DEF CreateNew, CreateAgain, Commit, AfterCreate
<1>4. ASSUME NEW r \in Request, NEW o \in Outcome("commit"), Transition(r, o) PROVE AuthorityInv'
  BY <1>4, ReplyAuthority DEF Transition, Refuse, Commit
<1>5. ASSUME NEW r \in Request, NEW o \in Outcome("commit"), PutAvailability(r, o) PROVE AuthorityInv'
  BY <1>5, ReplyAuthority DEF PutAvailability, Refuse, Commit
<1>6. ASSUME NEW m \in Member, NEW ro \in NewRole, SetRole(m, ro) PROVE AuthorityInv'
  \* The lock: no request of m is in its body.
  <2>1. \A r \in Request : request[r].phase = "authorized" => request[r].member # m
    BY <1>6 DEF SetRole, Holders
  <2> QED  BY <1>6, <2>1 DEF SetRole, AuthorityInv, TypeOK
<1>7. ASSUME NEW m \in Mover, AddMembership(m) PROVE AuthorityInv'
  BY <1>7 DEF AddMembership, AuthorityInv
<1>8. CASE Crash
  <2>1. UNCHANGED role /\ \A r \in Request :
          request'[r] = request[r] \/ request'[r] = [request[r] EXCEPT !.phase = "dead"]
    BY <1>8 DEF Crash, KillRequests
  <2>2. \A r \in Request : [request[r] EXCEPT !.phase = "dead"].phase # "authorized"
    BY DEF TypeOK, RequestRecord, Idle
  <2> QED  BY <2>1, <2>2 DEF AuthorityInv
<1>9. CASE UNCHANGED bvars
  BY <1>9 DEF bvars, AuthorityInv
<1> QED  BY <1>1, <1>2, <1>3, <1>4, <1>5, <1>6, <1>7, <1>8, <1>9 DEF Next, RequestStep

LEMMA DecisionAuthority ==
  ASSUME TypeOK, AuthorityInv, [Next]_bvars, NEW d \in decisions' \ decisions
  PROVE  Entitled(d)
<1>1. CASE RowsKept
  BY <1>1 DEF RowsKept
<1>2. ASSUME NEW r \in Request, NEW b \in Booking, Opens(r, b) PROVE Entitled(d)
  BY <1>2 DEF Opens
<1>3. ASSUME NEW r \in Request, Moves(r) PROVE Entitled(d)
  <2>1. PICK c \in Command, m \in Member :
           /\ c = request[r].command /\ m = request[r].member
           /\ c.kind = "transition" /\ Asking(c) /\ Moved(m, c, "api")
           /\ Capability(c) \in Capabilities(role[m])
    BY <1>3, MovesAsks DEF Moves, InBody, AuthorityInv
  <2>2. d.of = c.booking /\ d.action = c.action /\ d.by = m /\ c.booking \in Booking
    BY <2>1 DEF Asking, Moved, ApplyTransition, Decided
  <2>3. CASE c.action = "cancel"
    BY <2>1, <2>2, <2>3 DEF Moved, Transitionable, MayCancel, Entitled
  <2>4. CASE c.action # "cancel"
    BY <2>1, <2>2, <2>4 DEF Capability, Managers, Entitled
  <2> QED  BY <2>3, <2>4
<1>4. ASSUME NEW r \in Request, Writes(r) PROVE Entitled(d)
  <2>1. PICK c \in Command, m \in Member :
           /\ c = request[r].command /\ m = request[r].member /\ c.kind = "availability"
           /\ "availability:write" \in Capabilities(role[m])
    BY <1>4, RequestShapes DEF Writes, InBody, AuthorityInv, Capability
  <2>2. d.by = m
    BY <1>4, <2>1 DEF Writes, Decided
  <2> QED  BY <2>1, <2>2 DEF Capabilities, Managers, Entitled
<1> QED  BY <1>1, <1>2, <1>3, <1>4, StepShapes

\* A decision commits only while its author's role still allows it, for any
\* number of requests and however operators change the roles meanwhile.
THEOREM AuthorityHolds == Spec => DecisionsHaveAuthority
<1>1. TypeOK /\ AuthorityInv /\ [Next]_bvars => [\A d \in decisions' \ decisions : Entitled(d)]_bvars
  BY DecisionAuthority
<1> QED  BY <1>1, TypeInit, TypeStep, AuthorityInit, AuthorityStep, PTL DEF Spec, DecisionsHaveAuthority

-----------------------------------------------------------------------------
(* Idempotent creation.  Rows are never removed and keep their key, draft   *)
(* and creator, so what a reply names stays the booking of its request.     *)

KeysDiffer ==
  \A b, c \in Booking : intents[b] # NoIntent /\ intents[c] # NoIntent
                          /\ intents[b].key = intents[c].key => b = c

LEMMA MovedLives ==
  ASSUME TypeOK, NEW m \in Member, NEW c, Asking(c), NEW via \in {"api", "card"}, Moved(m, c, via),
         NEW b \in Booking
  PROVE  /\ intents'[b] = NoIntent <=> intents[b] = NoIntent
         /\ intents[b] # NoIntent =>
              /\ intents'[b].key = intents[b].key
              /\ intents'[b].draft = intents[b].draft /\ intents'[b].creator = intents[b].creator
<1>1. /\ c.booking \in Booking /\ intents[c.booking] # NoIntent /\ intents'[c.booking] # NoIntent
      /\ intents'[c.booking].key = intents[c.booking].key
      /\ intents'[c.booking].draft = intents[c.booking].draft
      /\ intents'[c.booking].creator = intents[c.booking].creator
      /\ \A a \in Booking : a # c.booking => intents'[a] = intents[a]
  <2>1. c.booking \in Booking /\ Transitionable(m, c)
    BY DEF Asking, Moved
  <2>2. /\ intents'[c.booking] = Transitioned(intents[c.booking], c)
        /\ \A a \in Booking : a # c.booking => intents'[a] = intents[a]
    BY MovedRow
  <2> QED  BY <2>1, <2>2, TransitionedShapes
<1> QED  BY <1>1

LEMMA RowsLive ==
  ASSUME TypeOK, [Next]_bvars, NEW b \in Booking, intents[b] # NoIntent
  PROVE  /\ intents'[b] # NoIntent /\ intents'[b].key = intents[b].key
         /\ intents'[b].draft = intents[b].draft /\ intents'[b].creator = intents[b].creator
<1>1. CASE UNCHANGED intents
  BY <1>1
<1>2. ASSUME NEW r \in Request, NEW a \in Booking, Opens(r, a)
      PROVE  intents'[b] = intents[b]
  BY <1>2 DEF Opens, TypeOK
<1>3. ASSUME NEW r \in Request, Moves(r)
      PROVE  /\ intents'[b] # NoIntent /\ intents'[b].key = intents[b].key
             /\ intents'[b].draft = intents[b].draft /\ intents'[b].creator = intents[b].creator
  BY <1>3, MovesAsks, MovedLives
<1> QED  BY <1>1, <1>2, <1>3, StepShapes DEF RowsKept, Writes

LEMMA KeysDifferStep == TypeOK /\ KeysDiffer /\ [Next]_bvars => KeysDiffer'
<1> SUFFICES ASSUME TypeOK, KeysDiffer, [Next]_bvars,
                    NEW b \in Booking, NEW c \in Booking, intents'[b] # NoIntent, intents'[c] # NoIntent,
                    intents'[b].key = intents'[c].key
             PROVE  b = c
  BY DEF KeysDiffer
<1>1. CASE intents[b] # NoIntent /\ intents[c] # NoIntent
  BY <1>1, RowsLive DEF KeysDiffer
<1>2. CASE intents[b] = NoIntent \/ intents[c] = NoIntent
  <2>1. ASSUME NEW r \in Request, Moves(r) PROVE FALSE
    BY <1>2, <2>1, MovesAsks, MovedLives
  <2>2. PICK r \in Request, a \in Booking : Opens(r, a)
    BY <1>2, <2>1, StepShapes DEF RowsKept, Writes
  <2> DEFINE new == NewIntent(request[r].member, request[r].command)
             k == request[r].command.key
  <2>3. /\ new.key = k /\ intents' = [intents EXCEPT ![a] = new]
        /\ \A e \in Booking : intents[e] # NoIntent => intents[e].key # k
    BY <2>2 DEF Opens, NewIntent, Keyed
  <2> HIDE DEF new, k
  <2>4. \A e \in Booking : e # a => intents'[e] = intents[e]
    BY <2>3 DEF TypeOK
  <2>5. intents'[a] = new
    BY <2>3 DEF TypeOK
  <2> QED  BY <1>2, <2>3, <2>4, <2>5
<1> QED  BY <1>1, <1>2

LEMMA ReplyEffect ==
  ASSUME TypeOK, NEW r \in Request, request[r].phase # "idle", NEW phase, NEW reply, Reply(r, phase, reply)
  PROVE  /\ \A q \in Request : q # r => request'[q] = request[q]
         /\ request'[r].reply = reply
         /\ request'[r].command = request[r].command /\ request'[r].member = request[r].member
<1>1. request[r] \in RequestRecord
  BY RequestShapes
<1>2. request' = [request EXCEPT ![r] = [request[r] EXCEPT !.phase = phase, !.reply = reply]]
  BY DEF Reply, TypeOK
<1> QED  BY <1>1, <1>2 DEF TypeOK, RequestRecord

\* The reply of q names no booking, or the one it named before.
OldReply(q) ==
  request'[q].reply \in Booking =>
    /\ request'[q].reply = request[q].reply
    /\ request'[q].command = request[q].command /\ request'[q].member = request[q].member

LEMMA PlainReply ==
  ASSUME TypeOK, NEW r \in Request, request[r].phase # "idle", NEW phase,
         NEW reply \in {None, "ok", "refused", "failed"}, Reply(r, phase, reply), NEW q \in Request
  PROVE  OldReply(q)
BY ReplyEffect, BookingAssumption DEF OldReply

\* A reply that names a booking is an old one, or the one Create just gave.
LEMMA RepliesFit ==
  ASSUME TypeOK, [Next]_bvars, NEW q \in Request, request'[q].reply \in Booking
  PROVE  \/ OldReply(q)
         \/ /\ intents'[request'[q].reply] # NoIntent
            /\ intents'[request'[q].reply].key = request'[q].command.key
            /\ intents'[request'[q].reply].draft = request'[q].command.draft
            /\ intents'[request'[q].reply].creator = request'[q].member
<1> DEFINE Named == /\ intents'[request'[q].reply] # NoIntent
                    /\ intents'[request'[q].reply].key = request'[q].command.key
                    /\ intents'[request'[q].reply].draft = request'[q].command.draft
                    /\ intents'[request'[q].reply].creator = request'[q].member
<1>1. ASSUME NEW r \in Request, NEW m \in Member, NEW c \in Command, Resolve(r, m, c) PROVE OldReply(q)
  BY <1>1, BookingAssumption DEF Resolve, TypeOK, OldReply
<1>2. ASSUME NEW r \in Request, Authorize(r) PROVE OldReply(q)
  BY <1>2, PlainReply DEF Authorize
<1>3. ASSUME NEW r \in Request, NEW o \in Outcome("commit"), Create(r, o) PROVE OldReply(q) \/ Named
  <2>1. PICK b \in Booking : CreateNew(r, b, o) \/ CreateAgain(r, b, o)
    BY <1>3 DEF Create
  <2>2. request[r].phase # "idle"
    BY <1>3 DEF Create
  <2>3. CASE o # "answers" \/ ~Reply(r, AfterCreate, b)
    <3>1. Reply(r, "done", "failed") \/ Reply(r, "done", "refused")
      BY <2>1, <2>3 DEF CreateNew, CreateAgain, Commit
    <3> QED  BY <2>2, <3>1, PlainReply
  <2>4. CASE o = "answers" /\ Reply(r, AfterCreate, b)
    <3>1. /\ \A p \in Request : p # r => request'[p] = request[p]
          /\ request'[r].reply = b
          /\ request'[r].command = request[r].command /\ request'[r].member = request[r].member
      BY <2>2, <2>4, ReplyEffect
    <3> DEFINE row == intents'[b]
    <3>2. CASE CreateNew(r, b, o)
      <4> DEFINE new == NewIntent(request[r].member, request[r].command)
      <4>1. intents' = [intents EXCEPT ![b] = new]
        BY <2>4, <3>2 DEF CreateNew, NewIntent
      <4>2. /\ new # NoIntent /\ new.key = request[r].command.key
            /\ new.draft = request[r].command.draft /\ new.creator = request[r].member
        <5>1. new.version = 1 /\ NoIntent.version = 0  BY DEF NewIntent, NoIntent
        <5> QED  BY <5>1 DEF NewIntent
      <4> HIDE DEF new
      <4>3. row = new  BY <4>1 DEF TypeOK
      <4> QED  BY <3>1, <4>2, <4>3 DEF OldReply
    <3>3. CASE CreateAgain(r, b, o)
      <4>1. ~Reply(r, "done", "refused")
        BY <2>2, <3>1, ReplyEffect, BookingAssumption
      <4>2. /\ row = intents[b] /\ row # NoIntent /\ row.key = request[r].command.key
            /\ SameRequest(row, request[r].member, request[r].command)
        BY <3>3, <4>1 DEF CreateAgain, Keyed
      <4> QED  BY <3>1, <4>2 DEF OldReply, SameRequest
    <3> QED  BY <2>1, <3>2, <3>3
  <2> QED  BY <2>3, <2>4
<1>4. ASSUME NEW r \in Request, NEW o \in Outcome("commit"), Transition(r, o) PROVE OldReply(q)
  BY <1>4, PlainReply DEF Transition, Refuse, Commit
<1>5. ASSUME NEW r \in Request, NEW o \in Outcome("commit"), PutAvailability(r, o) PROVE OldReply(q)
  BY <1>5, PlainReply DEF PutAvailability, Refuse, Commit
<1>6. CASE UNCHANGED request
  BY <1>6 DEF OldReply
<1>7. CASE Crash
  <2>1. request'[q] = request[q] \/ request'[q] = [request[q] EXCEPT !.phase = "dead"]
    BY <1>7 DEF Crash, KillRequests
  <2>2. request[q] \in RequestRecord \/ request[q] = Idle
    BY DEF TypeOK
  <2> QED  BY <2>1, <2>2 DEF OldReply, RequestRecord, Idle
<1> QED  BY <1>1, <1>2, <1>3, <1>4, <1>5, <1>6, <1>7
         DEF Next, RequestStep, SetRole, AddMembership, bvars

LEMMA KeyInit == Init => KeyOpensOneBooking
BY BookingAssumption DEF Init, KeyOpensOneBooking, Idle, NoIntent

LEMMA KeyStep == TypeOK /\ KeyOpensOneBooking /\ [Next]_bvars => KeyOpensOneBooking'
<1> SUFFICES ASSUME TypeOK, KeyOpensOneBooking, [Next]_bvars PROVE KeyOpensOneBooking'
  OBVIOUS
<1>1. KeysDiffer'
  BY KeysDifferStep DEF KeyOpensOneBooking, KeysDiffer
<1>2. ASSUME NEW q \in Request, request'[q].reply \in Booking
      PROVE  /\ intents'[request'[q].reply] # NoIntent
             /\ intents'[request'[q].reply].key = request'[q].command.key
             /\ intents'[request'[q].reply].draft = request'[q].command.draft
             /\ intents'[request'[q].reply].creator = request'[q].member
  <2>1. CASE OldReply(q)
    <3>1. /\ request'[q].reply = request[q].reply
          /\ request'[q].command = request[q].command /\ request'[q].member = request[q].member
      BY <1>2, <2>1 DEF OldReply
    <3> QED  BY <1>2, <3>1, RowsLive DEF KeyOpensOneBooking
  <2> QED  BY <1>2, <2>1, RepliesFit
<1> QED  BY <1>1, <1>2 DEF KeyOpensOneBooking, KeysDiffer

\* A key opens at most one booking, and every reply names the booking of its
\* own request, for any number of racing, retried and failing creations.
THEOREM KeyOpensOneBookingHolds == Spec => []KeyOpensOneBooking
BY TypeInit, TypeStep, KeyInit, KeyStep, PTL DEF Spec

-----------------------------------------------------------------------------
(* Refinement of the contract's lifecycle.                                  *)

Life == [b \in Booking |-> [status |-> intents[b].status, version |-> intents[b].version,
                            offered |-> intents[b].alternative, agreed |-> intents[b].confirmed]]

LEMMA LifeInit == Init => Lifecycle!Init
BY DEF Init, NoIntent, Lifecycle!Init, Lifecycle!Absent

\* One row changes: the others live on as they were.
LEMMA LifeChanges ==
  ASSUME TypeOK, NEW b \in Booking, NEW new, intents' = [intents EXCEPT ![b] = new]
  PROVE  Life' = [Life EXCEPT ![b] = [status |-> new.status, version |-> new.version,
                                      offered |-> new.alternative, agreed |-> new.confirmed]]
BY DEF Life, TypeOK

LEMMA LifeRows ==
  ASSUME NEW b \in Booking
  PROVE  /\ Life[b].status = intents[b].status /\ Life[b].version = intents[b].version
         /\ Life[b].offered = intents[b].alternative /\ Life[b].agreed = intents[b].confirmed
BY DEF Life

\* Nothing is agreed before a confirmation.
UnagreedInv ==
  \A b \in Booking : intents[b].status \in {"pending_confirmation", "alternative_proposed"} =>
    intents[b].confirmed = None

LEMMA UnagreedInit == Init => UnagreedInv
BY DEF Init, UnagreedInv, NoIntent

LEMMA MovedUnagreed ==
  ASSUME TypeOK, UnagreedInv, NEW m \in Member, NEW c, Asking(c), NEW via \in {"api", "card"},
         Moved(m, c, via)
  PROVE  UnagreedInv'
<1> DEFINE old == intents[c.booking]
           new == Transitioned(old, c)
<1>1. /\ c.booking \in Booking /\ c.action \in {"confirm", "propose_alternative", "cancel"}
      /\ old \in Intent /\ Resolvable(old, c)
      /\ new.status = StatusAfter[c.action]
      /\ c.action = "propose_alternative" => new.confirmed = old.confirmed
  <2>1. /\ c.booking \in Booking /\ c.action \in {"confirm", "propose_alternative", "cancel"}
        /\ Transitionable(m, c) /\ Resolvable(old, c)
    BY DEF Asking, Moved, Transitionable
  <2>2. /\ old \in Intent /\ new.status = StatusAfter[c.action]
        /\ new.confirmed = IF c.action # "confirm" THEN old.confirmed
                           ELSE IF old.status = "alternative_proposed" THEN old.alternative ELSE c.interval
    BY <2>1, TransitionedShapes
  <2> HIDE DEF old, new
  <2> QED  BY <2>1, <2>2
<1>2. /\ intents'[c.booking] = new
      /\ \A a \in Booking : a # c.booking => intents'[a] = intents[a]
  BY MovedRow
<1>3. new.status \in {"pending_confirmation", "alternative_proposed"} => new.confirmed = None
  BY <1>1 DEF StatusAfter, Resolvable, UnagreedInv
<1> HIDE DEF new
<1> QED  BY <1>2, <1>3 DEF UnagreedInv

LEMMA UnagreedStep == TypeOK /\ UnagreedInv /\ [Next]_bvars => UnagreedInv'
<1> SUFFICES ASSUME TypeOK, UnagreedInv, [Next]_bvars PROVE UnagreedInv'
  OBVIOUS
<1>1. CASE UNCHANGED intents
  BY <1>1 DEF UnagreedInv
<1>2. ASSUME NEW r \in Request, NEW b \in Booking, Opens(r, b) PROVE UnagreedInv'
  BY <1>2 DEF Opens, NewIntent, UnagreedInv, TypeOK
<1>3. ASSUME NEW r \in Request, Moves(r) PROVE UnagreedInv'
  BY <1>3, MovesAsks, MovedUnagreed
<1> QED  BY <1>1, <1>2, <1>3, StepShapes DEF RowsKept, Writes

LEMMA MovedLife ==
  ASSUME TypeOK, UnagreedInv, NEW m \in Member, NEW c, Asking(c), NEW via \in {"api", "card"},
         Moved(m, c, via)
  PROVE  Lifecycle!Next
<1> DEFINE b == c.booking
           old == intents[b]
           new == Transitioned(old, c)
<1>2. /\ b \in Booking /\ c.interval \in Interval \cup {None}
      /\ c.action \in {"confirm", "propose_alternative", "cancel"}
      /\ c.action = "propose_alternative" => c.interval # None
  BY DEF Asking
<1>3. /\ old \in Intent /\ old.status \in Status /\ old.alternative \in Interval \cup {None}
      /\ old.status = "alternative_proposed" => old.alternative # None
      /\ Resolvable(old, c) /\ intents' = [intents EXCEPT ![b] = new]
  <2>1. Transitionable(m, c) /\ Resolvable(old, c)
    BY DEF Moved, Transitionable
  <2>2. old # NoIntent /\ intents' = [intents EXCEPT ![b] = new]
    BY <2>1, TransitionedShapes, MovedRow
  <2> QED  BY <1>2, <2>1, <2>2, IntentShapes DEF TypeOK
<1>4. Life' = [Life EXCEPT ![b] = [status |-> StatusAfter[c.action], version |-> old.version + 1,
                                   offered |-> new.alternative, agreed |-> new.confirmed]]
  <2>1. new.status = StatusAfter[c.action] /\ new.version = old.version + 1
    BY <1>3 DEF Transitioned, Intent
  <2> HIDE DEF b, old, new
  <2>2. b \in Booking /\ intents' = [intents EXCEPT ![b] = new]
    BY <1>2, <1>3
  <2>3. Life' = [Life EXCEPT ![b] = [status |-> new.status, version |-> new.version,
                                     offered |-> new.alternative, agreed |-> new.confirmed]]
    BY <2>2, LifeChanges
  <2> QED  BY <2>1, <2>3
<1>5. /\ new.alternative = IF c.action = "propose_alternative" THEN c.interval ELSE old.alternative
      /\ new.confirmed = IF c.action # "confirm" THEN old.confirmed
                         ELSE IF old.status = "alternative_proposed" THEN old.alternative ELSE c.interval
  BY <1>3 DEF Transitioned, Intent
<1>6. /\ Life[b].status = old.status /\ Life[b].version = old.version
      /\ Life[b].offered = old.alternative /\ Life[b].agreed = old.confirmed
  BY <1>2, LifeRows
<1>7. c.action = "propose_alternative" => old.confirmed = None
  BY <1>2, <1>3 DEF Resolvable, UnagreedInv
<1> HIDE DEF b, old, new
<1>8. CASE c.action = "cancel"
  <2>1. Lifecycle!Become(b, "cancelled", Life[b].offered, Life[b].agreed)
    <3>1. Life' = [Life EXCEPT ![b] = [status |-> "cancelled", version |-> Life[b].version + 1,
                                       offered |-> Life[b].offered, agreed |-> Life[b].agreed]]
      BY <1>4, <1>5, <1>6, <1>8 DEF StatusAfter
    <3> QED  BY <3>1 DEF Lifecycle!Become, Life
  <2>2. Lifecycle!Cancel(b)
    BY <1>3, <1>6, <1>8, <2>1 DEF Lifecycle!Cancel, Life, Resolvable, Status
  <2> QED  BY <1>2, <2>2 DEF Lifecycle!Next
<1>9. CASE c.action = "propose_alternative"
  <2>1. Lifecycle!Become(b, "alternative_proposed", c.interval, None)
    <3>1. Life' = [Life EXCEPT ![b] = [status |-> "alternative_proposed", version |-> Life[b].version + 1,
                                       offered |-> c.interval, agreed |-> None]]
      <4>1. /\ StatusAfter[c.action] = "alternative_proposed" /\ new.alternative = c.interval
            /\ new.confirmed = None /\ Life[b].version = old.version
        BY <1>5, <1>6, <1>7, <1>9 DEF StatusAfter
      <4> QED  BY <1>4, <4>1
    <3> QED  BY <3>1 DEF Lifecycle!Become, Life
  <2>2. Lifecycle!Offer(b, c.interval)
    BY <1>3, <1>6, <1>9, <2>1 DEF Lifecycle!Offer, Life, Resolvable
  <2> QED  BY <1>2, <1>9, <2>2 DEF Lifecycle!Next
<1>10. CASE c.action = "confirm"
  <2>1. new.confirmed \in Interval
    BY <1>2, <1>3, <1>5, <1>10 DEF Resolvable
  <2>2. Lifecycle!Become(b, "confirmed", Life[b].offered, new.confirmed)
    <3>1. Life' = [Life EXCEPT ![b] = [status |-> "confirmed", version |-> Life[b].version + 1,
                                       offered |-> Life[b].offered, agreed |-> new.confirmed]]
      BY <1>4, <1>5, <1>6, <1>10 DEF StatusAfter
    <3> QED  BY <3>1 DEF Lifecycle!Become, Life
  <2>3. \/ Life[b].status = "pending_confirmation"
        \/ Life[b].status = "alternative_proposed" /\ Life[b].offered = new.confirmed
    BY <1>3, <1>5, <1>6, <1>10 DEF Resolvable
  <2>4. Lifecycle!Agree(b, new.confirmed)
    BY <2>2, <2>3 DEF Lifecycle!Agree, Life
  <2> QED  BY <1>2, <2>1, <2>4 DEF Lifecycle!Next
<1> QED  BY <1>2, <1>8, <1>9, <1>10

LEMMA LifeStep == TypeOK /\ UnagreedInv /\ [Next]_bvars => [Lifecycle!Next]_Life
<1> SUFFICES ASSUME TypeOK, UnagreedInv, [Next]_bvars PROVE [Lifecycle!Next]_Life
  OBVIOUS
<1>1. CASE RowsKept
  BY <1>1 DEF RowsKept, Life
<1>2. ASSUME NEW r \in Request, NEW b \in Booking, Opens(r, b) PROVE Lifecycle!Open(b)
  <2> DEFINE new == NewIntent(request[r].member, request[r].command)
  <2>1. intents' = [intents EXCEPT ![b] = new] /\ intents[b] = NoIntent
    BY <1>2 DEF Opens
  <2>2. /\ new.status = "pending_confirmation" /\ new.version = 1
        /\ new.alternative = None /\ new.confirmed = None
    BY DEF NewIntent
  <2> HIDE DEF new
  <2>3. Life' = [Life EXCEPT ![b] = [status |-> "pending_confirmation", version |-> 1,
                                     offered |-> None, agreed |-> None]]
    BY <2>1, <2>2, LifeChanges
  <2>4. intents[b].status = "absent" /\ intents[b].version = 0
    BY <2>1 DEF NoIntent
  <2>5. Lifecycle!Become(b, "pending_confirmation", None, None)
    <3>1. Life[b].version + 1 = 1  BY <2>4, LifeRows
    <3> QED  BY <2>3, <3>1 DEF Lifecycle!Become, Life
  <2> QED  BY <2>4, <2>5 DEF Lifecycle!Open
<1>3. ASSUME NEW r \in Request, Moves(r) PROVE Lifecycle!Next
  BY <1>3, MovesAsks, MovedLife
<1>4. ASSUME NEW r \in Request, Writes(r) PROVE UNCHANGED Life
  BY <1>4 DEF Writes, Life
<1> QED  BY <1>1, <1>2, <1>3, <1>4, StepShapes DEF Lifecycle!Next, Life

\* Booking intents implement the contract's transition table, step by step, for
\* any constants that satisfy BookingAssumption.
THEOREM BookingRefinesLifecycle == Spec => LifecycleSpec
BY TypeInit, TypeStep, UnagreedInit, UnagreedStep, LifeInit, LifeStep, PTL
   DEF Spec, LifecycleSpec, Lifecycle!Spec, Life
-----------------------------------------------------------------------------
(* The inductive invariants.                                               *)

\* The rows, callbacks and posts are well formed.
StaffTypeOK ==
  /\ TypeOK
  /\ bindings \in [StaffUser -> Member \cup {None}]
  /\ sending \in [Request -> Task \cup {None}]
  /\ cards \in [Task -> Card \cup {NoCard}]
  /\ inbound \in [Task -> Inbound \cup {NoInbound}]
  /\ click \in [Callback -> Click \cup {NoClick}]
  /\ outbox \subseteq Post
  /\ shown \in [Task -> [Kind -> Seq(Text)]]
  /\ \A h \in Callback : click[h].kind # "card"
  /\ \A r \in Request : request[r].phase = "notify" => request[r].reply \in Booking

\* Whatever refers to a card refers to one that exists.
RefersInv ==
  /\ \A r \in Request : request[r].phase = "send" => sending[r] \in Task /\ Exists(sending[r])
  /\ \A h \in Callback : click[h].phase # "idle" => Exists(click[h].task)
  /\ \A p \in outbox : Exists(p.task)
  /\ \A t \in Task, k \in Kind : shown[t][k] # <<>> => Exists(t)
  /\ \A t \in Task : inbound[t] # NoInbound => Exists(t)

\* A card is about the first version of a live booking, the only one of its
\* booking, and its user is bound.
CardInv ==
  /\ \A b \in Booking : intents[b].status = "pending_confirmation" => intents[b].version = 1
  /\ \A t \in Task : Exists(t) =>
       /\ cards[t].expected = 1
       /\ intents[cards[t].booking] # NoIntent
       /\ MemberOf(t) \in Member
  /\ \A t, s \in Task : Exists(t) /\ Exists(s) /\ cards[t].booking = cards[s].booking => t = s

\* The decision d came by card t, whose claim is completed.
CameBy(d, t) ==
  /\ Exists(t) /\ cards[t].booking = d.of /\ d.expected = 1
  /\ inbound[t].state = "completed" /\ d.by = MemberOf(t)
  /\ (d.action = "confirm") = (inbound[t].button = "booking_confirm")

DecideInv ==
  /\ \A d \in decisions : d.via = "card" => \E t \in Task : CameBy(d, t)
  /\ \A t \in Task : inbound[t].state = "completed" => ByCard(t) # {}

\* The lock on the membership keeps the author of a click a manager.
ClickAuthorityInv ==
  \A h \in Callback : click[h].phase = "locked" => MemberOf(click[h].task) \in Managers

\* What is about to be said is as true as what was said.
Telling(h) == click[h].phase \in {"mark", "await", "record", "read"}

TruthInv ==
  /\ \A h \in Callback : click[h].phase = "locked" => click[h].kind = "feedback"
  /\ \A h \in Callback : Telling(h) => Truthful(click[h].task, click[h].kind, click[h].text)
  /\ \A p \in outbox : Truthful(p.task, p.kind, p.text)
  /\ PeopleAreToldTheTruth

CardPost(t) == [task |-> t, kind |-> "card", text |-> CardText]

\* The senders of a delivery, and what WeCom knows of it.
SendsCard(r, t, k) == request[r].phase = "send" /\ sending[r] = t /\ k = "card"
SendsPost(h, t, k) == click[h].phase \in {"await", "record"} /\ click[h].task = t /\ click[h].kind = k
Posted(p, t, k) == p \in outbox /\ p.task = t /\ p.kind = k
Shown(t, k) == Len(shown[t][k])

\* A delivery has one post and one sender, which WeCom acts on at most once; a
\* sender that was told "accepted" or "rejected" was told the truth.
CellInv(t, k) ==
  /\ cards[t].state[k] = "not_sent" => Shown(t, k) = 0
  /\ \A p \in outbox : Posted(p, t, k) => cards[t].state[k] = "indeterminate" /\ Shown(t, k) = 0
  /\ \A p, q \in outbox : Posted(p, t, k) /\ Posted(q, t, k) => p = q
  /\ \A r \in Request : SendsCard(r, t, k) =>
       cards[t].state[k] = "indeterminate" /\ (CardPost(t) \in outbox \/ Shown(t, k) = 1)
  /\ \A r, q \in Request : SendsCard(r, t, k) /\ SendsCard(q, t, k) => r = q
  /\ \A h \in Callback : SendsPost(h, t, k) => cards[t].state[k] = "indeterminate"
  /\ \A h \in Callback : SendsPost(h, t, k) /\ click[h].phase = "await" =>
       [task |-> t, kind |-> k, text |-> click[h].text] \in outbox \/ Shown(t, k) = 1
  /\ \A h \in Callback : SendsPost(h, t, k) /\ click[h].phase = "record" =>
       /\ click[h].status = "accepted" => Shown(t, k) = 1
       /\ click[h].status = "rejected" => Shown(t, k) = 0 /\ \A p \in outbox : ~Posted(p, t, k)
  /\ \A g, h \in Callback : SendsPost(g, t, k) /\ SendsPost(h, t, k) => g = h

SendInv == \A t \in Task, k \in Kind : CellInv(t, k)

-----------------------------------------------------------------------------
(* The shapes of cards and clicks, and what the assignments to them do.     *)

LEMMA CardShapes ==
  ASSUME StaffTypeOK, NEW t \in Task
  PROVE  /\ Exists(t) <=> cards[t].booking # None
         /\ Exists(t) => /\ cards[t] \in Card /\ cards[t].booking \in Booking
                         /\ cards[t].binding \in StaffUser /\ cards[t].expected \in Nat
<1>1. CASE cards[t] = NoCard
  BY <1>1 DEF Exists, NoCard
<1>2. CASE cards[t] \in Card
  <2>1. cards[t].booking \in Booking /\ None \notin Booking
    BY <1>2, BookingAssumption DEF Card
  <2>2. cards[t].booking # None /\ cards[t] # NoCard
    BY <2>1 DEF NoCard
  <2> QED  BY <1>2, <2>1, <2>2 DEF Exists, Card
<1> QED  BY <1>1, <1>2 DEF StaffTypeOK

LEMMA ClickShapes ==
  ASSUME StaffTypeOK, NEW h \in Callback, click[h].phase # "idle"
  PROVE  /\ click[h] \in Click
         /\ click[h].task \in Task /\ click[h].button \in Button /\ click[h].text \in Text
         /\ click[h].kind \in {"feedback", "customer"} /\ click[h].status \in Sent
<1>1. click[h] \in Click
  BY DEF StaffTypeOK, NoClick
<1> QED  BY <1>1 DEF Click, StaffTypeOK, Kind

\* The state of one delivery of one card is written.
Written(t, k, v) == cards' = [cards EXCEPT ![t].state[k] = v]

\* The cards are about what they were about.
SameCards ==
  /\ cards' \in [Task -> Card \cup {NoCard}]
  /\ \A t \in Task :
       /\ Exists(t)' <=> Exists(t)
       /\ cards'[t].booking = cards[t].booking
       /\ Exists(t) => cards'[t].binding = cards[t].binding /\ cards'[t].expected = cards[t].expected

LEMMA WrittenCards ==
  ASSUME StaffTypeOK, NEW t \in Task, NEW k \in Kind, NEW v \in Sent \cup {"not_sent", "unavailable"},
         Exists(t), Written(t, k, v)
  PROVE  /\ SameCards
         /\ \A s \in Task, j \in Kind :
              cards'[s].state[j] = IF s = t /\ j = k THEN v ELSE cards[s].state[j]
<1> DEFINE new == [cards[t] EXCEPT !.state = [cards[t].state EXCEPT ![k] = v]]
<1>1. cards[t] \in Card
  BY CardShapes
<1>2. /\ new \in Card /\ new.booking = cards[t].booking
      /\ new.binding = cards[t].binding /\ new.expected = cards[t].expected
      /\ new.state = [cards[t].state EXCEPT ![k] = v]
      /\ cards[t].state \in [Kind -> Sent \cup {"not_sent", "unavailable"}]
  BY <1>1 DEF Card
<1>3. cards' = [cards EXCEPT ![t] = new]
  BY DEF Written
<1>4. new # NoCard
  <2>1. new.booking \in Booking /\ NoCard.booking = None  BY <1>2 DEF Card, NoCard
  <2> QED  BY <2>1, BookingAssumption
<1> HIDE DEF new
<1>5. /\ cards' \in [Task -> Card \cup {NoCard}] /\ cards'[t] = new
      /\ \A s \in Task : s # t => cards'[s] = cards[s]
  BY <1>2, <1>3 DEF StaffTypeOK
<1>6. SameCards
  BY <1>2, <1>4, <1>5 DEF SameCards, Exists
<1>7. \A j \in Kind : new.state[j] = IF j = k THEN v ELSE cards[t].state[j]
  BY <1>2
<1> QED  BY <1>5, <1>6, <1>7

LEMMA KeptCards ==
  ASSUME StaffTypeOK, UNCHANGED cards
  PROVE  SameCards /\ \A s \in Task, j \in Kind : cards'[s].state[j] = cards[s].state[j]
BY DEF StaffTypeOK, SameCards, Exists

\* One callback changes, the others are where they were.
LEMMA PhaseEffect ==
  ASSUME StaffTypeOK, NEW h \in Callback, click[h].phase # "idle",
         NEW phase \in {"locked", "mark", "await", "record", "read", "done", "dead"},
         ClickPhase(h, phase)
  PROVE  /\ click' \in [Callback -> Click \cup {NoClick}]
         /\ \A g \in Callback : g # h => click'[g] = click[g]
         /\ click'[h].phase = phase /\ click'[h].task = click[h].task /\ click'[h].kind = click[h].kind
         /\ click'[h].text = click[h].text /\ click'[h].status = click[h].status
         /\ click'[h].button = click[h].button
<1>1. click[h] \in Click
  BY ClickShapes
<1>2. click' = [click EXCEPT ![h] = [click[h] EXCEPT !.phase = phase]]
  BY DEF ClickPhase, StaffTypeOK
<1> QED  BY <1>1, <1>2 DEF StaffTypeOK, Click

LEMMA AnswerEffect ==
  ASSUME StaffTypeOK, NEW h \in Callback, click[h].phase # "idle", NEW o,
         NEW status \in Status \cup {"booking_intent_conflict"}, Answer(h, o, status)
  PROVE  /\ click' \in [Callback -> Click \cup {NoClick}]
         /\ \A g \in Callback : g # h => click'[g] = click[g]
         /\ click'[h].phase = IF o = "answers" THEN "mark" ELSE "done"
         /\ click'[h].text = [status |-> status, interval |-> None]
         /\ click'[h].task = click[h].task /\ click'[h].kind = click[h].kind
<1> DEFINE text == [status |-> status, interval |-> None]
           new == [click[h] EXCEPT !.phase = IF o = "answers" THEN "mark" ELSE "done", !.text = text]
<1>1. click[h] \in Click
  BY ClickShapes
<1>2. click' = [click EXCEPT ![h] = new]
  BY DEF Answer, StaffTypeOK
<1>3. text \in Text
  BY DEF Text
<1> HIDE DEF text
<1>4. new \in Click /\ new.phase = (IF o = "answers" THEN "mark" ELSE "done") /\ new.text = text
      /\ new.task = click[h].task /\ new.kind = click[h].kind
  BY <1>1, <1>3 DEF Click
<1> HIDE DEF new
<1> QED  BY <1>2, <1>4 DEF StaffTypeOK, text

-----------------------------------------------------------------------------
(* What a step does to the rows and the cards.                             *)

BaseInv == StaffTypeOK /\ RefersInv /\ CardInv

\* A click decides its booking.
Decides(h) ==
  LET t == click[h].task
  IN  /\ click[h].phase = "locked"
      /\ inbound[t] = NoInbound /\ UpToDate(t)
      /\ Moved(MemberOf(t), Asked(t, click[h].button), "card")
      /\ ClaimAs(t, click[h].button, "completed")
      /\ UNCHANGED <<request, bindings, sending, cards, outbox, shown>>

\* A card is made for a booking.
Prepares(t, b, u) ==
  /\ ~Exists(t) /\ ~Notified(b)
  /\ intents[b].status = "pending_confirmation" /\ u \in Recipients(b)
  /\ cards' = [cards EXCEPT ![t] = NewCard(b, u)]
  /\ UNCHANGED <<role, extra, intents, availability, decisions, bindings, inbound, click, shown>>

LEMMA RecipientShapes ==
  ASSUME NEW b, NEW u \in Recipients(b)
  PROVE  u \in StaffUser /\ bindings[u] \in Member /\ bindings[u] \in Managers \ extra
BY DEF Recipients, Eligible, Managers

LEMMA PreparesCard ==
  ASSUME StaffTypeOK, CardInv, NEW t \in Task, NEW b \in Booking, NEW u, Prepares(t, b, u)
  PROVE  /\ cards' \in [Task -> Card \cup {NoCard}]
         /\ NewCard(b, u) \in Card /\ cards'[t] = NewCard(b, u) /\ Exists(t)'
         /\ \A s \in Task : s # t => cards'[s] = cards[s]
         /\ cards[t] = NoCard /\ intents[b] # NoIntent /\ intents[b].version = 1
         /\ \A s \in Task : Exists(s) => cards[s].booking # b
<1> DEFINE new == NewCard(b, u)
<1>1. intents[b] # NoIntent
  BY DEF Prepares, NoIntent
<1>2. intents[b].version = 1 /\ u \in StaffUser
  BY RecipientShapes DEF Prepares, CardInv
<1>3. new \in Card
  BY <1>2 DEF NewCard, Card, Sent, Kind
<1>4. new # NoCard
  <2>1. new.booking = b /\ NoCard.booking = None  BY DEF NewCard, NoCard
  <2> QED  BY <2>1, BookingAssumption
<1>5. cards[t] = NoCard /\ cards' = [cards EXCEPT ![t] = new]
  BY DEF Prepares, Exists
<1>6. \A s \in Task : Exists(s) => cards[s].booking # b
  BY <1>2 DEF Prepares, Notified, CardInv
<1> HIDE DEF new
<1>7. /\ cards' \in [Task -> Card \cup {NoCard}] /\ cards'[t] = new
      /\ \A s \in Task : s # t => cards'[s] = cards[s]
  BY <1>3, <1>5 DEF StaffTypeOK
<1> QED  BY <1>1, <1>2, <1>3, <1>4, <1>5, <1>6, <1>7 DEF Exists, new

\* What a click asks is a transition its author may ask for.
LEMMA AskedShapes ==
  ASSUME StaffTypeOK, RefersInv, CardInv, NEW h \in Callback, click[h].phase = "locked"
  PROVE  LET t == click[h].task
             c == Asked(t, click[h].button)
         IN  /\ t \in Task /\ Exists(t) /\ MemberOf(t) \in Member
             /\ Asking(c) /\ c.booking = cards[t].booking /\ c.expected = 1
             /\ c.action = IF click[h].button = "booking_confirm" THEN "confirm" ELSE "cancel"
<1> DEFINE t == click[h].task
           c == Asked(t, click[h].button)
<1>1. t \in Task /\ Exists(t) /\ click[h].button \in Button
  BY ClickShapes DEF RefersInv
<1>2. cards[t].booking \in Booking /\ cards[t].expected = 1 /\ MemberOf(t) \in Member
  BY <1>1, CardShapes DEF CardInv
<1>3. intents[cards[t].booking].draft.requested \in Interval \cup {None}
  <2>1. intents[cards[t].booking] \in Intent
    BY <1>1, <1>2, IntentShapes DEF CardInv, StaffTypeOK
  <2>2. intents[cards[t].booking].draft \in DraftType
    BY <2>1, BookingAssumption DEF Intent
  <2> QED  BY <2>2 DEF DraftType
<1>4. Asking(c) /\ c.booking = cards[t].booking /\ c.expected = 1
      /\ c.action = IF click[h].button = "booking_confirm" THEN "confirm" ELSE "cancel"
  BY <1>2, <1>3 DEF Asking, Asked
<1> QED  BY <1>1, <1>2, <1>4

\* A transition that a click asks for: the action decides the status.
LEMMA DecideStatus ==
  ASSUME StaffTypeOK, RefersInv, CardInv, NEW h \in Callback, NEW o, ClickDecide(h, o)
  PROVE  LET c == Asked(click[h].task, click[h].button)
         IN  Transitioned(intents[c.booking], c).status \in Status
<1> DEFINE c == Asked(click[h].task, click[h].button)
<1>1. Asking(c) /\ Transitionable(MemberOf(click[h].task), c)
  BY AskedShapes DEF ClickDecide
<1> HIDE DEF c
<1>2. Transitioned(intents[c.booking], c) \in Intent
  BY <1>1, TransitionedShapes DEF StaffTypeOK
<1> QED  BY <1>2 DEF Intent, c

LEMMA BookingPart ==
  ASSUME [StaffNext]_vars
  PROVE  \/ [Next]_bvars
         \/ UNCHANGED <<role, extra, intents, availability, decisions>>
         \/ \E h \in Callback : Decides(h)
<1> DEFINE Kept == UNCHANGED <<role, extra, intents, availability, decisions>>
<1>1. ASSUME NEW r \in Request, RequestStep(r) PROVE [Next]_bvars
  BY <1>1 DEF Next
<1>2. ASSUME NEW r \in Request, NotifyStep(r) PROVE Kept
  BY <1>2 DEF NotifyStep, NotifyNothing, NotifyPrepare, NotifyRecord
<1>3. ASSUME NEW h \in Callback, NEW t \in Task, NEW button \in Button, ClickLock(h, t, button)
      PROVE  Kept
  BY <1>3 DEF ClickLock, bvars
<1>4. ASSUME NEW h \in Callback, NEW o, ClickDecide(h, o) PROVE Kept \/ Decides(h)
  BY <1>4 DEF ClickDecide, Committed, Decides, Moved
<1>5. ASSUME NEW h \in Callback, NEW o, ClickConflict(h, o) PROVE Kept
  BY <1>5 DEF ClickConflict, Committed
<1>6. ASSUME NEW h \in Callback, ClickStep(h), ~\E o : ClickDecide(h, o) \/ ClickConflict(h, o)
      PROVE  Kept
  BY <1>6 DEF ClickStep, ClickNothing, Mark, Record, Await, ReadCustomer, NoCustomer, bvars
<1>7. ASSUME NEW m \in Member, NEW ro \in NewRole, SetRole(m, ro) PROVE [Next]_bvars
  BY <1>7 DEF Next
<1>8. ASSUME NEW m \in Mover, AddMembership(m) PROVE [Next]_bvars
  BY <1>8 DEF Next
<1>9. CASE \/ \E p \in Provisions : ProvisionStaffBinding(p.user, p.member)
           \/ WeComDelivers \/ StaffCrash \/ UNCHANGED vars
  BY <1>9 DEF ProvisionStaffBinding, WeComDelivers, StaffCrash, vars, bvars
<1> QED  BY <1>1, <1>2, <1>3, <1>4, <1>5, <1>6, <1>7, <1>8, <1>9 DEF StaffNext

\* The user of a card is bound, and stays bound to the same member.
LEMMA BindingsStay ==
  ASSUME StaffTypeOK, [StaffNext]_vars
  PROVE  /\ bindings' \in [StaffUser -> Member \cup {None}]
         /\ \A u \in StaffUser : bindings[u] # None => bindings'[u] = bindings[u]
<1>1. CASE UNCHANGED bindings
  BY <1>1 DEF StaffTypeOK
<1>2. ASSUME NEW p \in Provisions, ProvisionStaffBinding(p.user, p.member)
      PROVE  /\ bindings' \in [StaffUser -> Member \cup {None}]
             /\ \A u \in StaffUser : bindings[u] # None => bindings'[u] = bindings[u]
  <2>1. p.user \in StaffUser /\ p.member \in Member
    BY StaffAssumption
  <2> QED  BY <1>2, <2>1 DEF ProvisionStaffBinding, StaffTypeOK
<1>3. CASE ~\E p \in Provisions : ProvisionStaffBinding(p.user, p.member)
  <2>1. ASSUME NEW r \in Request, NotifyStep(r) PROVE UNCHANGED bindings
    BY <2>1 DEF NotifyStep, NotifyNothing, NotifyPrepare, NotifyRecord, svars
  <2>2. ASSUME NEW h \in Callback, ClickStep(h) PROVE UNCHANGED bindings
    BY <2>2 DEF ClickStep, ClickNothing, ClickDecide, ClickConflict, Mark, Record, Await, ReadCustomer,
                NoCustomer
  <2> QED  BY <1>1, <1>3, <2>1, <2>2 DEF StaffNext, ClickLock, WeComDelivers, StaffCrash, vars, svars
<1> QED  BY <1>2, <1>3

\* A card is made, or the cards stay and at most a delivery state is written.
LEMMA CardsStep ==
  ASSUME StaffTypeOK, RefersInv, [StaffNext]_vars
  PROVE  SameCards \/ \E t \in Task, b \in Booking, u \in StaffUser : Prepares(t, b, u)
<1>1. ASSUME NEW r \in Request, NEW o, NotifyPrepare(r, o)
      PROVE  SameCards \/ \E t \in Task, b \in Booking, u \in StaffUser : Prepares(t, b, u)
  <2> DEFINE b == request[r].reply
  <2>1. b \in Booking
    BY <1>1 DEF NotifyPrepare, StaffTypeOK
  <2>2. CASE o = "fails"
    BY <1>1, <2>2, KeptCards DEF NotifyPrepare
  <2>3. CASE o # "fails"
    <3>1. PICK t \in Task, u \in Recipients(b) : ~Exists(t) /\ cards' = [cards EXCEPT ![t] = NewCard(b, u)]
      BY <1>1, <2>3 DEF NotifyPrepare
    <3>2. Prepares(t, b, u)
      BY <1>1, <3>1 DEF NotifyPrepare, Notifiable, Prepares
    <3> QED  BY <2>1, <3>2, RecipientShapes
  <2> QED  BY <2>2, <2>3
<1>2. ASSUME NEW r \in Request, NEW status \in Sent, NEW o, NotifyRecord(r, status, o) PROVE SameCards
  <2>1. sending[r] \in Task /\ Exists(sending[r])
    BY <1>2 DEF NotifyRecord, RefersInv
  <2>2. UNCHANGED cards \/ Written(sending[r], "card", status)
    BY <1>2 DEF NotifyRecord, Written
  <2> QED  BY <2>1, <2>2, WrittenCards, KeptCards DEF Kind
<1>3. ASSUME NEW h \in Callback, NEW o, Mark(h, o) \/ Record(h, o) \/ NoCustomer(h, o) PROVE SameCards
  <2> DEFINE t == click[h].task
  <2>1. click[h].phase # "idle"
    BY <1>3 DEF Mark, Record, NoCustomer
  <2>2. t \in Task /\ Exists(t) /\ click[h].kind \in Kind /\ click[h].status \in Sent
    BY <2>1, ClickShapes DEF RefersInv, Kind
  <2>3. \/ UNCHANGED cards
        \/ Written(t, click[h].kind, "indeterminate")
        \/ Written(t, click[h].kind, click[h].status)
        \/ Written(t, "customer", "unavailable")
    BY <1>3 DEF Mark, Record, NoCustomer, SetState, Written
  <2> QED  BY <2>2, <2>3, WrittenCards, KeptCards DEF Kind, Sent
<1>4. ASSUME NEW h \in Callback, ClickStep(h), ~\E o : Mark(h, o) \/ Record(h, o) \/ NoCustomer(h, o)
      PROVE  SameCards
  BY <1>4, KeptCards DEF ClickStep, ClickNothing, ClickDecide, ClickConflict, Await, ReadCustomer
<1>5. ASSUME NEW r \in Request, NotifyStep(r)
      PROVE  SameCards \/ \E t \in Task, b \in Booking, u \in StaffUser : Prepares(t, b, u)
  BY <1>1, <1>2, <1>5, KeptCards DEF NotifyStep, NotifyNothing, svars
<1>6. CASE ~(\E r \in Request : NotifyStep(r)) /\ ~(\E h \in Callback : ClickStep(h))
  <2>1. UNCHANGED cards
    BY <1>6 DEF StaffNext, ClickLock, ProvisionStaffBinding, WeComDelivers, StaffCrash, vars, svars
  <2> QED  BY <2>1, KeptCards
<1>7. ASSUME NEW h \in Callback, ClickStep(h) PROVE SameCards
  BY <1>3, <1>4, <1>7
<1> QED  BY <1>5, <1>6, <1>7

\* A click finds its booking changed.
Conflicts(h) ==
  LET t == click[h].task
  IN  /\ click[h].phase = "locked"
      /\ inbound[t] = NoInbound /\ ~UpToDate(t)
      /\ ClaimAs(t, click[h].button, "failed")
      /\ UNCHANGED <<bvars, bindings, sending, cards, outbox, shown>>

LEMMA InboundStep ==
  ASSUME [StaffNext]_vars
  PROVE  UNCHANGED inbound \/ \E h \in Callback : Decides(h) \/ Conflicts(h)
<1>1. ASSUME NEW h \in Callback, NEW o, ClickDecide(h, o) PROVE UNCHANGED inbound \/ Decides(h)
  BY <1>1 DEF ClickDecide, Committed, Decides, Moved
<1>2. ASSUME NEW h \in Callback, NEW o, ClickConflict(h, o) PROVE UNCHANGED inbound \/ Conflicts(h)
  BY <1>2 DEF ClickConflict, Committed, Conflicts, bvars
<1>3. ASSUME NEW h \in Callback, ClickStep(h), ~\E o : ClickDecide(h, o) \/ ClickConflict(h, o)
      PROVE  UNCHANGED inbound
  BY <1>3 DEF ClickStep, ClickNothing, Mark, Record, Await, ReadCustomer, NoCustomer
<1>4. ASSUME NEW r \in Request, NotifyStep(r) PROVE UNCHANGED inbound
  BY <1>4 DEF NotifyStep, NotifyNothing, NotifyPrepare, NotifyRecord, svars
<1>5. CASE ~(\E r \in Request : NotifyStep(r)) /\ ~(\E h \in Callback : ClickStep(h))
  BY <1>5 DEF StaffNext, ClickLock, ProvisionStaffBinding, WeComDelivers, StaffCrash, vars, svars
<1> QED  BY <1>1, <1>2, <1>3, <1>4, <1>5

\* A claim is final, and only a card that exists is claimed.
LEMMA ClaimsStay ==
  ASSUME StaffTypeOK, RefersInv, [StaffNext]_vars
  PROVE  /\ inbound' \in [Task -> Inbound \cup {NoInbound}]
         /\ \A t \in Task : inbound[t] # NoInbound => inbound'[t] = inbound[t]
         /\ \A t \in Task : inbound'[t] # inbound[t] => Exists(t)
<1>1. CASE UNCHANGED inbound
  BY <1>1 DEF StaffTypeOK
<1>2. ASSUME NEW h \in Callback, NEW state \in {"completed", "failed"},
             click[h].phase = "locked", inbound[click[h].task] = NoInbound,
             ClaimAs(click[h].task, click[h].button, state)
      PROVE  /\ inbound' \in [Task -> Inbound \cup {NoInbound}]
             /\ \A t \in Task : inbound[t] # NoInbound => inbound'[t] = inbound[t]
             /\ \A t \in Task : inbound'[t] # inbound[t] => Exists(t)
  <2>1. click[h].task \in Task /\ click[h].button \in Button /\ Exists(click[h].task)
    BY <1>2, ClickShapes DEF RefersInv
  <2>2. [state |-> state, button |-> click[h].button] \in Inbound
    BY <2>1 DEF Inbound
  <2> QED  BY <1>2, <2>1, <2>2 DEF ClaimAs, StaffTypeOK
<1> QED  BY <1>1, <1>2, InboundStep DEF Decides, Conflicts

-----------------------------------------------------------------------------
(* Type correctness.                                                       *)

LEMMA FinishType ==
  ASSUME TypeOK, NEW r \in Request, request[r].phase # "idle", NEW phase \in {"send", "done"},
         request' = [request EXCEPT ![r].phase = phase]
  PROVE  /\ request' \in [Request -> RequestRecord \cup {Idle}]
         /\ \A q \in Request : q # r => request'[q] = request[q]
         /\ request'[r].phase = phase
<1>1. request[r] \in RequestRecord
  BY RequestShapes
<1>2. [request[r] EXCEPT !.phase = phase] \in RequestRecord
  BY <1>1 DEF RequestRecord
<1>3. request' = [request EXCEPT ![r] = [request[r] EXCEPT !.phase = phase]]
  BY DEF TypeOK
<1> QED  BY <1>1, <1>2, <1>3 DEF TypeOK, RequestRecord

LEMMA KillType ==
  ASSUME TypeOK, KillRequests
  PROVE  /\ request' \in [Request -> RequestRecord \cup {Idle}]
         /\ \A r \in Request : request'[r] = request[r] \/ request'[r].phase = "dead"
         /\ \A r \in Request : request'[r].phase \in {"idle", "done", "dead"}
<1>1. ASSUME NEW r \in Request, InProcess(r)
      PROVE  /\ [request[r] EXCEPT !.phase = "dead"] \in RequestRecord
             /\ [request[r] EXCEPT !.phase = "dead"].phase = "dead"
  <2>1. request[r] \in RequestRecord  BY <1>1, RequestShapes DEF InProcess
  <2> QED  BY <2>1 DEF RequestRecord
<1> QED  BY <1>1 DEF KillRequests, TypeOK, InProcess

LEMMA NotifyRequests ==
  ASSUME TypeOK, NEW r \in Request, NotifyStep(r)
  PROVE  /\ request' \in [Request -> RequestRecord \cup {Idle}]
         /\ \A q \in Request : q # r => request'[q] = request[q]
         /\ request'[r].phase \in {"send", "done"} /\ request[r].phase \in {"notify", "send"}
<1>1. request[r].phase \in {"notify", "send"}
  BY DEF NotifyStep, NotifyNothing, NotifyPrepare, NotifyRecord
<1>2. \E phase \in {"send", "done"} : request' = [request EXCEPT ![r].phase = phase]
  BY DEF NotifyStep, NotifyNothing, NotifyPrepare, NotifyRecord, Finish
<1> QED  BY <1>1, <1>2, FinishType

LEMMA NotifyNames ==
  ASSUME TypeOK, [Next]_bvars, NEW q \in Request, request'[q].phase = "notify"
  PROVE  request'[q].reply \in Booking \/ request'[q] = request[q]
<1>1. ASSUME NEW r \in Request, NEW phase, NEW reply, request[r].phase # "idle",
             phase # "notify" \/ reply \in Booking, Reply(r, phase, reply)
      PROVE  request'[q].reply \in Booking \/ request'[q] = request[q]
  <2>1. request[r] \in RequestRecord
    BY <1>1, RequestShapes
  <2>2. request' = [request EXCEPT ![r] = [request[r] EXCEPT !.phase = phase, !.reply = reply]]
    BY <1>1 DEF Reply, TypeOK
  <2> QED  BY <1>1, <2>1, <2>2 DEF TypeOK, RequestRecord
<1>2. ASSUME NEW r \in Request, NEW m \in Member, NEW c \in Command, Resolve(r, m, c)
      PROVE  request'[q] = request[q]
  BY <1>2 DEF Resolve, TypeOK
<1>3. ASSUME NEW r \in Request, Authorize(r)
      PROVE  request'[q].reply \in Booking \/ request'[q] = request[q]
  BY <1>1, <1>3 DEF Authorize
<1>4. ASSUME NEW r \in Request, NEW o, Create(r, o)
      PROVE  request'[q].reply \in Booking \/ request'[q] = request[q]
  <2>1. PICK b \in Booking : CreateNew(r, b, o) \/ CreateAgain(r, b, o)
    BY <1>4 DEF Create
  <2> QED  BY <1>1, <1>4, <2>1 DEF Create, CreateNew, CreateAgain, Commit
<1>5. ASSUME NEW r \in Request, NEW o, Transition(r, o) \/ PutAvailability(r, o)
      PROVE  request'[q].reply \in Booking \/ request'[q] = request[q]
  BY <1>1, <1>5 DEF Transition, PutAvailability, Refuse, Commit
<1>6. CASE Crash
  BY <1>6, KillType DEF Crash
<1>7. CASE UNCHANGED request
  BY <1>7
<1> QED  BY <1>2, <1>3, <1>4, <1>5, <1>6, <1>7 DEF Next, RequestStep, SetRole, AddMembership, bvars

\* Only notify sends: the steps of BookingIntents lead elsewhere.
LEMMA NeverSends ==
  ASSUME TypeOK, NEW r \in Request, RequestStep(r), NEW q \in Request, request'[q].phase = "send"
  PROVE  request[q].phase = "send"
<1>1. ASSUME NEW phase, NEW reply, request[r].phase # "idle", phase # "send", Reply(r, phase, reply)
      PROVE  request[q].phase = "send"
  <2>1. request[r] \in RequestRecord
    BY <1>1, RequestShapes
  <2>2. request' = [request EXCEPT ![r] = [request[r] EXCEPT !.phase = phase, !.reply = reply]]
    BY <1>1 DEF Reply, TypeOK
  <2> QED  BY <1>1, <2>1, <2>2 DEF TypeOK, RequestRecord
<1>2. ASSUME NEW m \in Member, NEW c \in Command, Resolve(r, m, c) PROVE request[q].phase = "send"
  BY <1>2 DEF Resolve, TypeOK
<1>3. CASE Authorize(r)
  BY <1>1, <1>3 DEF Authorize
<1>4. ASSUME NEW o, Create(r, o) PROVE request[q].phase = "send"
  <2>1. PICK b \in Booking : CreateNew(r, b, o) \/ CreateAgain(r, b, o)
    BY <1>4 DEF Create
  <2> QED  BY <1>1, <1>4, <2>1 DEF Create, CreateNew, CreateAgain, Commit, AfterCreate
<1>5. ASSUME NEW o, Transition(r, o) \/ PutAvailability(r, o) PROVE request[q].phase = "send"
  BY <1>1, <1>5 DEF Transition, PutAvailability, Refuse, Commit
<1> QED  BY <1>2, <1>3, <1>4, <1>5 DEF RequestStep

\* The requests, with the replies notify needs.
LEMMA RequestsStep ==
  ASSUME StaffTypeOK, [StaffNext]_vars
  PROVE  /\ request' \in [Request -> RequestRecord \cup {Idle}]
         /\ \A q \in Request : request'[q].phase = "notify" => request'[q].reply \in Booking
<1>1. CASE [Next]_bvars
  BY <1>1, RequestType, NotifyNames DEF StaffTypeOK
<1>2. ASSUME NEW r \in Request, NotifyStep(r)
      PROVE  /\ request' \in [Request -> RequestRecord \cup {Idle}]
             /\ \A q \in Request : request'[q].phase = "notify" => request'[q].reply \in Booking
  BY <1>2, NotifyRequests DEF StaffTypeOK
<1>3. CASE StaffCrash
  BY <1>3, KillType DEF StaffCrash, StaffTypeOK
<1>4. CASE UNCHANGED request
  BY <1>4 DEF StaffTypeOK, TypeOK
<1>5. ASSUME NEW h \in Callback, ClickStep(h) PROVE UNCHANGED request
  BY <1>5 DEF ClickStep, ClickNothing, ClickDecide, ClickConflict, Mark, Record, Await, ReadCustomer,
              NoCustomer, bvars
<1>6. ASSUME NEW r \in Request, RequestStep(r) PROVE [Next]_bvars
  BY <1>6 DEF Next
<1> QED  BY <1>1, <1>2, <1>3, <1>4, <1>5, <1>6
         DEF StaffNext, ClickLock, SetRole, AddMembership, ProvisionStaffBinding, WeComDelivers,
             vars, bvars

LEMMA StaffBookingType ==
  ASSUME StaffTypeOK, CardInv, RefersInv, [StaffNext]_vars
  PROVE  TypeOK'
<1>1. CASE [Next]_bvars
  BY <1>1, TypeStep DEF StaffTypeOK
<1>2. CASE UNCHANGED <<role, extra, intents, availability, decisions>>
  BY <1>2, RequestsStep DEF StaffTypeOK, TypeOK
<1>3. ASSUME NEW h \in Callback, Decides(h) PROVE TypeOK'
  <2>1. PICK m \in Member : \E c : Asking(c) /\ Moved(m, c, "card")
    BY <1>3, AskedShapes DEF Decides
  <2>2. RowsOK'
    BY <2>1, MovedType DEF StaffTypeOK
  <2> QED  BY <2>1, <2>2, RequestsStep DEF StaffTypeOK, TypeOK, RowsOK, Moved
<1> QED  BY <1>1, <1>2, <1>3, BookingPart

\* The callbacks: one keeps its card, and starts on a card that was shown.
ClicksOK ==
  /\ click' \in [Callback -> Click \cup {NoClick}]
  /\ \A h \in Callback :
       /\ click'[h].kind # "card"
       /\ click[h].phase # "idle" => click'[h].phase # "idle" /\ click'[h].task = click[h].task
       /\ click[h].phase = "idle" /\ click'[h].phase # "idle" =>
            click'[h].task \in Task /\ shown[click'[h].task]["card"] # <<>>

LEMMA PhaseClicks ==
  ASSUME StaffTypeOK, NEW h \in Callback, click[h].phase # "idle",
         NEW phase \in {"locked", "mark", "await", "record", "read", "done", "dead"},
         ClickPhase(h, phase)
  PROVE  ClicksOK
BY PhaseEffect DEF ClicksOK, StaffTypeOK

LEMMA KeptClicks == ASSUME StaffTypeOK, UNCHANGED click PROVE ClicksOK
BY DEF ClicksOK, StaffTypeOK

LEMMA LockEffect ==
  ASSUME StaffTypeOK, NEW h \in Callback, NEW t \in Task, NEW button \in Button, ClickLock(h, t, button)
  PROVE  /\ click' \in [Callback -> Click \cup {NoClick}]
         /\ \A g \in Callback : g # h => click'[g] = click[g]
         /\ click[h].phase = "idle" /\ click'[h].task = t /\ click'[h].kind = "feedback"
         /\ click'[h].phase = IF cards[t].binding \in Eligible /\ cards[t].state["card"] # "rejected"
                                THEN "locked" ELSE "done"
<1> DEFINE phase == IF cards[t].binding \in Eligible /\ cards[t].state["card"] # "rejected"
                      THEN "locked" ELSE "done"
           new == [phase |-> phase, task |-> t, button |-> button, kind |-> "feedback",
                   text |-> NoText, status |-> "indeterminate"]
<1>1. new \in Click
  <2>1. NoText \in Text  BY DEF NoText, Text, Status
  <2>2. phase \in {"locked", "done"}  OBVIOUS
  <2> HIDE DEF phase
  <2> QED  BY <2>1, <2>2 DEF Click, Kind, Sent
<1>2. click' = [click EXCEPT ![h] = new] /\ click[h] = NoClick
  BY DEF ClickLock
<1>3. new.phase = phase /\ new.task = t /\ new.kind = "feedback"
  OBVIOUS
<1> HIDE DEF new
<1> QED  BY <1>1, <1>2, <1>3 DEF StaffTypeOK, NoClick

LEMMA CrashEffect ==
  ASSUME StaffTypeOK, StaffCrash
  PROVE  /\ click' \in [Callback -> Click \cup {NoClick}]
         /\ \A h \in Callback :
              /\ click'[h].kind = click[h].kind
              /\ click[h].phase # "idle" => click'[h].task = click[h].task
              /\ click'[h] = click[h] \/ click'[h].phase = "dead"
              /\ click'[h].phase \in {"idle", "done", "dead"}
              /\ click'[h].phase = "idle" <=> click[h].phase = "idle"
<1> SUFFICES ASSUME NEW h \in Callback
             PROVE  /\ click'[h] \in Click \cup {NoClick}
                    /\ click'[h].kind = click[h].kind
                    /\ click[h].phase # "idle" => click'[h].task = click[h].task
                    /\ click'[h] = click[h] \/ click'[h].phase = "dead"
                    /\ click'[h].phase \in {"idle", "done", "dead"}
                    /\ click'[h].phase = "idle" <=> click[h].phase = "idle"
  BY DEF StaffCrash
<1>1. CASE click[h].phase \in {"idle", "done", "dead"}
  BY <1>1 DEF StaffCrash, StaffTypeOK
<1>2. CASE click[h].phase \notin {"idle", "done", "dead"}
  <2>1. click'[h] = [click[h] EXCEPT !.phase = "dead"]
    BY <1>2 DEF StaffCrash
  <2>2. click[h] \in Click
    BY <1>2, ClickShapes
  <2> QED  BY <1>2, <2>1, <2>2 DEF Click
<1> QED  BY <1>1, <1>2

LEMMA AwaitEffect ==
  ASSUME StaffTypeOK, NEW h \in Callback, NEW status \in Sent, Await(h, status)
  PROVE  /\ click' \in [Callback -> Click \cup {NoClick}]
         /\ \A g \in Callback : g # h => click'[g] = click[g]
         /\ click'[h].phase = "record" /\ click'[h].status = status
         /\ click'[h].task = click[h].task /\ click'[h].kind = click[h].kind
         /\ click'[h].text = click[h].text
<1>1. click[h] \in Click
  BY ClickShapes DEF Await
<1>2. click' = [click EXCEPT ![h] = [click[h] EXCEPT !.phase = "record", !.status = status]]
  BY DEF Await, StaffTypeOK
<1> QED  BY <1>1, <1>2 DEF StaffTypeOK, Click

LEMMA ReadEffect ==
  ASSUME StaffTypeOK, RefersInv, NEW h \in Callback, ReadCustomer(h)
  PROVE  LET row == intents[cards[click[h].task].booking]
         IN  /\ click' \in [Callback -> Click \cup {NoClick}]
             /\ \A g \in Callback : g # h => click'[g] = click[g]
             /\ click'[h].phase = "mark" /\ click'[h].kind = "customer"
             /\ click'[h].task = click[h].task
             /\ row.status \in {"confirmed", "cancelled"}
             /\ click'[h].text.status = row.status
             /\ row.status = "confirmed" => click'[h].text.interval = row.confirmed
<1> DEFINE row == intents[cards[click[h].task].booking]
           text == [status |-> row.status,
                    interval |-> IF row.status = "confirmed" THEN row.confirmed ELSE None]
           new == [click[h] EXCEPT !.phase = "mark", !.kind = "customer", !.text = text]
<1>1. click[h] \in Click /\ click[h].task \in Task /\ Exists(click[h].task)
  BY ClickShapes DEF ReadCustomer, RefersInv
<1>2. click' = [click EXCEPT ![h] = new] /\ row.status \in {"confirmed", "cancelled"}
  BY DEF ReadCustomer, StaffTypeOK
<1>3. row.confirmed \in Interval \cup {None}
  <2>1. cards[click[h].task].booking \in Booking
    BY <1>1, CardShapes
  <2>2. row # NoIntent
    BY <1>2 DEF NoIntent
  <2> QED  BY <2>1, <2>2, IntentShapes DEF StaffTypeOK
<1>4. text \in Text /\ text.status = row.status
      /\ (row.status = "confirmed" => text.interval = row.confirmed)
  BY <1>2, <1>3 DEF Text, Status
<1> HIDE DEF text, row
<1>5. new \in Click /\ new.phase = "mark" /\ new.kind = "customer" /\ new.text = text
      /\ new.task = click[h].task
  BY <1>1, <1>4 DEF Click, Kind
<1> HIDE DEF new
<1> QED  BY <1>2, <1>4, <1>5 DEF StaffTypeOK, row

LEMMA ClicksStep ==
  ASSUME StaffTypeOK, RefersInv, CardInv, [StaffNext]_vars
  PROVE  ClicksOK
<1>1. ASSUME NEW h \in Callback, NEW t \in Task, NEW button \in Button, ClickLock(h, t, button)
      PROVE  ClicksOK
  BY <1>1, LockEffect DEF ClicksOK, StaffTypeOK, ClickLock
<1>2. ASSUME NEW h \in Callback, ClickNothing(h) PROVE ClicksOK
  BY <1>2, PhaseClicks DEF ClickNothing
<1>3. ASSUME NEW h \in Callback, NEW o, ClickDecide(h, o) PROVE ClicksOK
  <2> DEFINE c == Asked(click[h].task, click[h].button)
             status == Transitioned(intents[c.booking], c).status
  <2>1. status \in Status
    BY <1>3, DecideStatus
  <2>2. Answer(h, o, status) /\ click[h].phase = "locked"
    BY <1>3 DEF ClickDecide
  <2> HIDE DEF status
  <2> QED  BY <2>1, <2>2, AnswerEffect DEF ClicksOK, StaffTypeOK
<1>4. ASSUME NEW h \in Callback, NEW o, ClickConflict(h, o) PROVE ClicksOK
  BY <1>4, AnswerEffect DEF ClicksOK, StaffTypeOK, ClickConflict
<1>5. ASSUME NEW h \in Callback, NEW o, Mark(h, o) \/ Record(h, o) \/ NoCustomer(h, o) PROVE ClicksOK
  <2>1. click[h].phase # "idle" /\ \E phase \in {"await", "read", "done"} : ClickPhase(h, phase)
    BY <1>5 DEF Mark, Record, NoCustomer, AfterDelivery
  <2> QED  BY <2>1, PhaseClicks
<1>6. ASSUME NEW h \in Callback, NEW status \in Sent, Await(h, status) PROVE ClicksOK
  <2>1. /\ click' \in [Callback -> Click \cup {NoClick}]
        /\ \A g \in Callback : g # h => click'[g] = click[g]
        /\ click'[h].phase = "record"
        /\ click'[h].task = click[h].task /\ click'[h].kind = click[h].kind
    BY <1>6, AwaitEffect
  <2>2. click[h].phase = "await"
    BY <1>6 DEF Await
  <2> QED  BY <2>1, <2>2 DEF ClicksOK, StaffTypeOK
<1>7. ASSUME NEW h \in Callback, ReadCustomer(h) PROVE ClicksOK
  BY <1>7, ReadEffect DEF ClicksOK, StaffTypeOK, ReadCustomer
<1>8. CASE StaffCrash
  BY <1>8, CrashEffect DEF ClicksOK, StaffTypeOK
<1>9. CASE UNCHANGED click
  BY <1>9, KeptClicks
<1>10. ASSUME NEW r \in Request, NotifyStep(r) PROVE UNCHANGED click
  BY <1>10 DEF NotifyStep, NotifyNothing, NotifyPrepare, NotifyRecord, svars
<1> QED  BY <1>1, <1>2, <1>3, <1>4, <1>5, <1>6, <1>7, <1>8, <1>9, <1>10
         DEF StaffNext, ClickStep, ProvisionStaffBinding, WeComDelivers, vars, svars

LEMMA PostsAreText ==
  /\ \A t \in Task : CardPost(t) \in Post
  /\ StaffTypeOK => \A h \in Callback : click[h].phase # "idle" => PostOf(h) \in Post
<1>1. CardText \in Text /\ "card" \in Kind
  BY DEF CardText, Text, Status, Kind
<1>2. \A t \in Task : CardPost(t) \in Post
  BY <1>1 DEF CardPost, Post
<1>3. ASSUME StaffTypeOK, NEW h \in Callback, click[h].phase # "idle" PROVE PostOf(h) \in Post
  BY <1>3, ClickShapes DEF PostOf, Post, Kind
<1> QED  BY <1>2, <1>3

\* What WeCom may act on, and the card a request sends.
LEMMA PostsStep ==
  ASSUME StaffTypeOK, RefersInv, [StaffNext]_vars
  PROVE  /\ outbox' \subseteq Post
         /\ sending' \in [Request -> Task \cup {None}]
         /\ \A p \in outbox' : p \in outbox \/ cards'[p.task] # NoCard
         /\ \A r \in Request : request'[r].phase = "send" =>
              \/ request[r].phase = "send" /\ sending'[r] = sending[r]
              \/ sending'[r] \in Task /\ cards'[sending'[r]] # NoCard
<1> DEFINE SendsKept == /\ UNCHANGED sending
                        /\ \A r \in Request : request'[r].phase = "send" => request[r].phase = "send"
           Goal == /\ outbox' \subseteq Post
                   /\ sending' \in [Request -> Task \cup {None}]
                   /\ \A p \in outbox' : p \in outbox \/ cards'[p.task] # NoCard
                   /\ \A r \in Request : request'[r].phase = "send" =>
                        \/ request[r].phase = "send" /\ sending'[r] = sending[r]
                        \/ sending'[r] \in Task /\ cards'[sending'[r]] # NoCard
<1>1. ASSUME SendsKept, outbox' \subseteq outbox PROVE Goal
  BY <1>1 DEF StaffTypeOK
<1>2. ASSUME NEW r \in Request, NEW o, NotifyPrepare(r, o) PROVE Goal
  <2>1. \A q \in Request : q # r => request'[q] = request[q]
    BY <1>2, FinishType DEF NotifyPrepare, Finish, StaffTypeOK
  <2>2. CASE o # "answers"
    <3>1. request'[r].phase = "done" /\ UNCHANGED <<sending, outbox>>
      BY <1>2, <2>2, FinishType DEF NotifyPrepare, Finish, StaffTypeOK
    <3> QED  BY <1>1, <2>1, <3>1
  <2>3. CASE o = "answers"
    <3> DEFINE b == request[r].reply
    <3>1. PICK t \in Task, u \in Recipients(b) :
             /\ cards' = [cards EXCEPT ![t] = NewCard(b, u)]
             /\ sending' = [sending EXCEPT ![r] = t]
             /\ outbox' = outbox \cup {[task |-> t, kind |-> "card", text |-> CardText]}
      BY <1>2, <2>3 DEF NotifyPrepare
    <3>2. cards'[t] # NoCard
      <4>1. cards'[t].booking = b /\ b \in Booking
        BY <1>2, <3>1 DEF StaffTypeOK, NewCard, NotifyPrepare
      <4> QED  BY <4>1, BookingAssumption DEF NoCard
    <3>3. [task |-> t, kind |-> "card", text |-> CardText] = CardPost(t) /\ CardPost(t).task = t
      BY DEF CardPost
    <3>4. /\ sending' \in [Request -> Task \cup {None}] /\ sending'[r] = t
          /\ \A q \in Request : q # r => sending'[q] = sending[q]
      BY <3>1 DEF StaffTypeOK
    <3>5. outbox' = outbox \cup {CardPost(t)} /\ CardPost(t) \in Post /\ outbox \subseteq Post
      BY <3>1, <3>3, PostsAreText DEF StaffTypeOK
    <3> QED  BY <2>1, <3>2, <3>3, <3>4, <3>5
  <2> QED  BY <2>2, <2>3
<1>3. ASSUME NEW r \in Request, NotifyNothing(r) \/ \E o, status : NotifyRecord(r, status, o) PROVE Goal
  <2>1. /\ \A q \in Request : q # r => request'[q] = request[q]
        /\ request'[r].phase = "done" /\ UNCHANGED sending
    BY <1>3, FinishType DEF NotifyNothing, NotifyRecord, Finish, StaffTypeOK, svars
  <2>2. outbox' \subseteq outbox
    BY <1>3 DEF NotifyNothing, NotifyRecord, Answered, svars
  <2> QED  BY <1>1, <2>1, <2>2
<1>4. ASSUME NEW h \in Callback, NEW o, Mark(h, o) PROVE Goal
  <2>1. /\ outbox' = outbox \/ outbox' = outbox \cup {PostOf(h)}
        /\ UNCHANGED <<sending, request>> /\ click[h].phase # "idle"
    BY <1>4 DEF Mark, bvars
  <2>2. PostOf(h) \in Post /\ PostOf(h).task = click[h].task /\ click[h].task \in Task
        /\ Exists(click[h].task)
    BY <2>1, PostsAreText, ClickShapes DEF PostOf, RefersInv
  <2>3. cards'[click[h].task] # NoCard
    <3>1. UNCHANGED cards \/ Written(click[h].task, click[h].kind, "indeterminate")
      BY <1>4 DEF Mark, SetState, Written
    <3>2. click[h].kind \in Kind /\ "indeterminate" \in Sent
      BY <2>1, ClickShapes DEF Kind, Sent
    <3>3. SameCards
      BY <2>2, <3>1, <3>2, WrittenCards, KeptCards
    <3> QED  BY <2>2, <3>3 DEF SameCards, Exists
  <2>4. outbox \subseteq Post /\ sending \in [Request -> Task \cup {None}]
    BY DEF StaffTypeOK
  <2> QED  BY <2>1, <2>2, <2>3, <2>4
<1>5. ASSUME NEW h \in Callback, ClickStep(h), ~\E o : Mark(h, o) PROVE Goal
  <2>1. UNCHANGED <<sending, request>> /\ outbox' \subseteq outbox
    BY <1>5 DEF ClickStep, ClickNothing, ClickDecide, ClickConflict, Record, Await, ReadCustomer,
                NoCustomer, Answered, bvars
  <2> QED  BY <1>1, <2>1
<1>6. CASE StaffCrash
  <2>1. SendsKept /\ outbox' = outbox
    BY <1>6, KillType DEF StaffCrash, StaffTypeOK
  <2> QED  BY <1>1, <2>1
<1>7. ASSUME NEW r \in Request, RequestStep(r), UNCHANGED svars PROVE Goal
  <2>1. \A q \in Request : request'[q].phase = "send" => request[q].phase = "send"
    BY <1>7, NeverSends DEF StaffTypeOK
  <2> QED  BY <1>1, <1>7, <2>1 DEF svars
<1>8. CASE UNCHANGED <<request, sending>> /\ outbox' \subseteq outbox
  BY <1>1, <1>8
<1>9. ASSUME NEW r \in Request, NotifyStep(r) PROVE Goal
  BY <1>2, <1>3, <1>9 DEF NotifyStep
<1>10. ASSUME NEW h \in Callback, ClickStep(h) PROVE Goal
  BY <1>4, <1>5, <1>10
<1>11. CASE \/ \E h \in Callback, t \in Task, button \in Button : ClickLock(h, t, button)
            \/ \E m \in Member, ro \in NewRole : SetRole(m, ro) /\ UNCHANGED svars
            \/ \E m \in Mover : AddMembership(m) /\ UNCHANGED svars
            \/ \E p \in Provisions : ProvisionStaffBinding(p.user, p.member)
            \/ WeComDelivers \/ UNCHANGED vars
  <2>1. UNCHANGED <<request, sending>> /\ outbox' \subseteq outbox
    BY <1>11 DEF ClickLock, SetRole, AddMembership, ProvisionStaffBinding, WeComDelivers,
                 vars, bvars, svars
  <2> QED  BY <1>8, <2>1
<1> QED  BY <1>6, <1>7, <1>9, <1>10, <1>11 DEF StaffNext

\* WeCom acts on one post, or nobody is told anything.
LEMMA ShownStep ==
  ASSUME StaffTypeOK, [StaffNext]_vars
  PROVE  \/ UNCHANGED shown
         \/ \E p \in outbox :
              /\ outbox' = outbox \ {p} /\ UNCHANGED <<bvars, bindings, sending, cards, inbound, click>>
              /\ p.task \in Task /\ p.kind \in Kind /\ p.text \in Text
              /\ shown' \in [Task -> [Kind -> Seq(Text)]]
              /\ \A t \in Task, k \in Kind :
                   shown'[t][k] = IF t = p.task /\ k = p.kind
                                    THEN Append(shown[t][k], p.text) ELSE shown[t][k]
<1>1. ASSUME NEW r \in Request, NotifyStep(r) PROVE UNCHANGED shown
  BY <1>1 DEF NotifyStep, NotifyNothing, NotifyPrepare, NotifyRecord, svars
<1>2. ASSUME NEW h \in Callback, ClickStep(h) PROVE UNCHANGED shown
  BY <1>2 DEF ClickStep, ClickNothing, ClickDecide, ClickConflict, Mark, Record, Await, ReadCustomer,
              NoCustomer
<1>3. CASE WeComDelivers
  <2>1. PICK p \in outbox :
          /\ outbox' = outbox \ {p} /\ UNCHANGED <<bvars, bindings, sending, cards, inbound, click>>
          /\ shown' = [shown EXCEPT ![p.task][p.kind] = Append(shown[p.task][p.kind], p.text)]
    BY <1>3 DEF WeComDelivers
  <2>2. p.task \in Task /\ p.kind \in Kind /\ p.text \in Text
    BY DEF StaffTypeOK, Post
  <2> DEFINE new == Append(shown[p.task][p.kind], p.text)
             row == [shown[p.task] EXCEPT ![p.kind] = new]
  <2>3. shown[p.task] \in [Kind -> Seq(Text)] /\ new \in Seq(Text)
    BY <2>2 DEF StaffTypeOK
  <2> HIDE DEF new
  <2>4. row \in [Kind -> Seq(Text)] /\ \A k \in Kind : row[k] = IF k = p.kind THEN new ELSE shown[p.task][k]
    BY <2>2, <2>3
  <2>5. shown' = [shown EXCEPT ![p.task] = row]
    BY <2>1 DEF new
  <2> HIDE DEF row
  <2>6. /\ shown' \in [Task -> [Kind -> Seq(Text)]]
        /\ \A t \in Task : shown'[t] = IF t = p.task THEN row ELSE shown[t]
    BY <2>2, <2>4, <2>5 DEF StaffTypeOK
  <2>7. \A t \in Task, k \in Kind :
          shown'[t][k] = IF t = p.task /\ k = p.kind THEN Append(shown[t][k], p.text) ELSE shown[t][k]
    BY <2>2, <2>4, <2>6 DEF new
  <2> QED  BY <2>1, <2>2, <2>6, <2>7
<1> QED  BY <1>1, <1>2, <1>3
         DEF StaffNext, ClickLock, ProvisionStaffBinding, StaffCrash, vars, svars

LEMMA StaffTypeStep ==
  ASSUME StaffTypeOK, RefersInv, CardInv, [StaffNext]_vars
  PROVE  StaffTypeOK'
<1>1. TypeOK'
  BY StaffBookingType
<1>2. bindings' \in [StaffUser -> Member \cup {None}]
  BY BindingsStay
<1>3. outbox' \subseteq Post /\ sending' \in [Request -> Task \cup {None}]
  BY PostsStep
<1>4. cards' \in [Task -> Card \cup {NoCard}]
  BY CardsStep, PreparesCard DEF SameCards
<1>5. inbound' \in [Task -> Inbound \cup {NoInbound}]
  BY ClaimsStay
<1>6. click' \in [Callback -> Click \cup {NoClick}] /\ \A h \in Callback : click'[h].kind # "card"
  BY ClicksStep DEF ClicksOK
<1>7. shown' \in [Task -> [Kind -> Seq(Text)]]
  BY ShownStep DEF StaffTypeOK
<1>8. \A r \in Request : request'[r].phase = "notify" => request'[r].reply \in Booking
  BY RequestsStep
<1> QED  BY <1>1, <1>2, <1>3, <1>4, <1>5, <1>6, <1>7, <1>8 DEF StaffTypeOK

\* A card stays.
LEMMA CardsStay ==
  ASSUME StaffTypeOK, RefersInv, CardInv, [StaffNext]_vars, NEW t \in Task, Exists(t)
  PROVE  /\ cards'[t] # NoCard /\ cards'[t].booking = cards[t].booking
         /\ cards'[t].binding = cards[t].binding /\ cards'[t].expected = cards[t].expected
<1>1. CASE SameCards
  BY <1>1 DEF SameCards, Exists
<1>2. ASSUME NEW s \in Task, NEW b \in Booking, NEW u \in StaffUser, Prepares(s, b, u)
      PROVE  cards'[t] = cards[t]
  BY <1>2, PreparesCard DEF Exists
<1> QED  BY <1>1, <1>2, CardsStep DEF Exists

LEMMA RefersStep ==
  ASSUME StaffTypeOK, RefersInv, CardInv, [StaffNext]_vars
  PROVE  RefersInv'
<1>1. ASSUME NEW r \in Request, request'[r].phase = "send"
      PROVE  sending'[r] \in Task /\ cards'[sending'[r]] # NoCard
  BY <1>1, PostsStep, CardsStay DEF RefersInv
<1>2. ASSUME NEW h \in Callback, click'[h].phase # "idle" PROVE cards'[click'[h].task] # NoCard
  <2>1. CASE click[h].phase # "idle"
    BY <2>1, ClickShapes, ClicksStep, CardsStay DEF RefersInv, ClicksOK
  <2>2. CASE click[h].phase = "idle"
    BY <1>2, <2>2, ClicksStep, CardsStay DEF RefersInv, ClicksOK, Kind
  <2> QED  BY <2>1, <2>2
<1>3. ASSUME NEW p \in outbox' PROVE cards'[p.task] # NoCard
  <2>1. CASE p \in outbox
    BY <2>1, CardsStay DEF RefersInv, StaffTypeOK, Post
  <2> QED  BY <2>1, PostsStep
<1>4. ASSUME NEW t \in Task, NEW k \in Kind, shown'[t][k] # <<>> PROVE cards'[t] # NoCard
  <2>1. Exists(t)
    <3>1. CASE UNCHANGED shown
      BY <1>4, <3>1 DEF RefersInv
    <3>2. CASE \E p \in outbox :
                 shown'[t][k] = IF t = p.task /\ k = p.kind THEN Append(shown[t][k], p.text) ELSE shown[t][k]
      BY <1>4, <3>2 DEF RefersInv
    <3> QED  BY <3>1, <3>2, ShownStep
  <2> QED  BY <2>1, CardsStay
<1>5. ASSUME NEW t \in Task, inbound'[t] # NoInbound PROVE cards'[t] # NoCard
  <2>1. Exists(t)
    BY <1>5, ClaimsStay DEF RefersInv
  <2> QED  BY <2>1, CardsStay
<1> QED  BY <1>1, <1>2, <1>3, <1>4, <1>5 DEF RefersInv, Exists

\* A pending booking is at its first version: every transition leaves that status.
PendingIsFirst == \A b \in Booking : intents[b].status = "pending_confirmation" => intents[b].version = 1

LEMMA MovedOn ==
  ASSUME TypeOK, NEW m \in Member, NEW c, Asking(c), NEW via \in {"api", "card"}, Moved(m, c, via),
         NEW b \in Booking
  PROVE  /\ intents'[b] = NoIntent <=> intents[b] = NoIntent
         /\ intents'[b] = intents[b] \/ intents'[b].status # "pending_confirmation"
<1>1. intents'[b] = NoIntent <=> intents[b] = NoIntent
  BY MovedLives
<1>2. /\ intents'[c.booking] = Transitioned(intents[c.booking], c)
      /\ \A a \in Booking : a # c.booking => intents'[a] = intents[a]
  BY MovedRow
<1>3. Transitioned(intents[c.booking], c).status # "pending_confirmation"
  <2>1. c.action \in {"confirm", "propose_alternative", "cancel"} /\ Transitionable(m, c)
    BY DEF Asking, Moved
  <2>2. Transitioned(intents[c.booking], c).status = StatusAfter[c.action]
    BY <2>1, TransitionedShapes
  <2> QED  BY <2>1, <2>2 DEF StatusAfter
<1> QED  BY <1>1, <1>2, <1>3

LEMMA PendingStep ==
  ASSUME StaffTypeOK, RefersInv, CardInv, [StaffNext]_vars
  PROVE  /\ PendingIsFirst'
         /\ \A b \in Booking : intents[b] # NoIntent => intents'[b] # NoIntent
<1> USE DEF PendingIsFirst
<1>1. CASE UNCHANGED intents
  BY <1>1 DEF CardInv
<1>2. ASSUME NEW m \in Member, NEW c, Asking(c), NEW via \in {"api", "card"}, Moved(m, c, via)
      PROVE  /\ PendingIsFirst'
             /\ \A b \in Booking : intents[b] # NoIntent => intents'[b] # NoIntent
  BY <1>2, MovedOn DEF CardInv, StaffTypeOK
<1>3. ASSUME NEW r \in Request, NEW b \in Booking, Opens(r, b)
      PROVE  /\ PendingIsFirst'
             /\ \A a \in Booking : intents[a] # NoIntent => intents'[a] # NoIntent
  <2>1. /\ intents'[b].version = 1 /\ intents[b] = NoIntent
        /\ \A a \in Booking : a # b => intents'[a] = intents[a]
    BY <1>3 DEF Opens, NewIntent, StaffTypeOK, TypeOK
  <2> QED  BY <2>1 DEF CardInv
<1>4. CASE [Next]_bvars
  <2>1. ASSUME NEW r \in Request, Moves(r)
        PROVE  \E m \in Member : \E c : Asking(c) /\ Moved(m, c, "api")
    BY <2>1, MovesAsks DEF StaffTypeOK
  <2> QED  BY <1>1, <1>2, <1>3, <1>4, <2>1, StepShapes DEF RowsKept, Writes
<1>5. ASSUME NEW h \in Callback, Decides(h)
      PROVE  \E m \in Member : \E c : Asking(c) /\ Moved(m, c, "card")
  BY <1>5, AskedShapes DEF Decides
<1> QED  BY <1>1, <1>2, <1>4, <1>5, BookingPart

LEMMA CardStep ==
  ASSUME StaffTypeOK, RefersInv, CardInv, [StaffNext]_vars
  PROVE  CardInv'
<1>1. PendingIsFirst' /\ \A b \in Booking : intents[b] # NoIntent => intents'[b] # NoIntent
  BY PendingStep
<1>2. ASSUME NEW t \in Task, Exists(t)
      PROVE  /\ cards'[t].expected = 1 /\ intents'[cards'[t].booking] # NoIntent
             /\ bindings'[cards'[t].binding] \in Member
  <2>1. /\ cards[t].expected = 1 /\ intents[cards[t].booking] # NoIntent
        /\ bindings[cards[t].binding] \in Member /\ cards[t].binding \in StaffUser
        /\ cards[t].booking \in Booking
    BY <1>2, CardShapes DEF CardInv, MemberOf
  <2>2. bindings'[cards[t].binding] = bindings[cards[t].binding]
    BY <2>1, BindingsStay, BookingAssumption
  <2> QED  BY <1>1, <1>2, <2>1, <2>2, CardsStay
<1>3. CASE SameCards
  <2>1. \A t \in Task : cards'[t] # NoCard <=> Exists(t)
    BY <1>3 DEF SameCards, Exists
  <2>2. \A t \in Task : cards'[t].booking = cards[t].booking
    BY <1>3 DEF SameCards
  <2> QED  BY <1>1, <1>2, <2>1, <2>2 DEF CardInv, PendingIsFirst, Exists, MemberOf
<1>4. ASSUME NEW s \in Task, NEW b \in Booking, NEW u \in StaffUser, Prepares(s, b, u)
      PROVE  CardInv'
  <2>1. /\ cards'[s] = NewCard(b, u) /\ intents[b] # NoIntent /\ intents[b].version = 1
        /\ \A t \in Task : t # s => cards'[t] = cards[t]
        /\ \A t \in Task : Exists(t) => cards[t].booking # b
        /\ cards[s] = NoCard
    BY <1>4, PreparesCard
  <2>2. cards'[s].booking = b /\ cards'[s].expected = 1 /\ cards'[s].binding = u
    BY <2>1 DEF NewCard
  <2>3. bindings'[u] \in Member
    BY <1>4, RecipientShapes DEF Prepares
  <2>4. \A t \in Task : cards'[t] # NoCard =>
          /\ cards'[t].expected = 1 /\ intents'[cards'[t].booking] # NoIntent
          /\ bindings'[cards'[t].binding] \in Member
    BY <1>1, <1>2, <2>1, <2>2, <2>3 DEF Exists
  <2>5. \A t, q \in Task : cards'[t] # NoCard /\ cards'[q] # NoCard /\ cards'[t].booking = cards'[q].booking
                             => t = q
    BY <2>1, <2>2 DEF Exists, CardInv
  <2> QED  BY <1>1, <2>4, <2>5 DEF CardInv, PendingIsFirst, Exists, MemberOf
<1> QED  BY <1>3, <1>4, CardsStep

LEMMA BaseInit == StaffInit => BaseInv
<1> SUFFICES ASSUME StaffInit PROVE BaseInv
  OBVIOUS
<1>1. TypeOK
  BY TypeInit DEF StaffInit
<1>2. StaffTypeOK
  BY <1>1 DEF StaffInit, StaffTypeOK, NoClick, Init, Idle
<1>3. RefersInv
  BY DEF StaffInit, RefersInv, Init, Idle, NoClick
<1>4. CardInv
  BY DEF StaffInit, CardInv, Exists, Init, NoIntent
<1> QED  BY <1>2, <1>3, <1>4 DEF BaseInv

LEMMA BaseStep == BaseInv /\ [StaffNext]_vars => BaseInv'
BY StaffTypeStep, RefersStep, CardStep DEF BaseInv

\* Bookings, cards, callbacks and posts are well formed whoever acts on them, for
\* any constants that satisfy the assumptions.
THEOREM StaffTypeCorrect == StaffSpec => []StaffTypeOK
<1>1. BaseInv => StaffTypeOK
  BY DEF BaseInv
<1> QED  BY <1>1, BaseInit, BaseStep, PTL DEF StaffSpec

-----------------------------------------------------------------------------
(* The rows change as BookingIntents changes them, by whichever channel.    *)

LEMMA DecidesMoves ==
  ASSUME BaseInv, NEW h \in Callback, Decides(h)
  PROVE  \E m \in Member : \E c : Asking(c) /\ Moved(m, c, "card")
BY AskedShapes DEF Decides, BaseInv

LEMMA StaffVersionStep == BaseInv /\ VersionInv /\ [StaffNext]_vars => VersionInv'
<1> SUFFICES ASSUME BaseInv, VersionInv, [StaffNext]_vars PROVE VersionInv'
  OBVIOUS
<1>1. TypeOK
  BY DEF BaseInv, StaffTypeOK
<1>2. CASE [Next]_bvars
  BY <1>1, <1>2, VersionStep
<1>3. CASE UNCHANGED <<role, extra, intents, availability, decisions>>
  BY <1>3 DEF VersionInv, NoLostUpdate
<1>4. ASSUME NEW h \in Callback, Decides(h) PROVE VersionInv'
  BY <1>1, <1>4, DecidesMoves, MovedVersions
<1> QED  BY <1>2, <1>3, <1>4, BookingPart

LEMMA StaffUnagreedStep == BaseInv /\ UnagreedInv /\ [StaffNext]_vars => UnagreedInv'
<1> SUFFICES ASSUME BaseInv, UnagreedInv, [StaffNext]_vars PROVE UnagreedInv'
  OBVIOUS
<1>1. TypeOK
  BY DEF BaseInv, StaffTypeOK
<1>2. CASE [Next]_bvars
  BY <1>1, <1>2, UnagreedStep
<1>3. CASE UNCHANGED <<role, extra, intents, availability, decisions>>
  BY <1>3 DEF UnagreedInv
<1>4. ASSUME NEW h \in Callback, Decides(h) PROVE UnagreedInv'
  BY <1>1, <1>4, DecidesMoves, MovedUnagreed
<1> QED  BY <1>2, <1>3, <1>4, BookingPart

LEMMA StaffLifeStep == BaseInv /\ UnagreedInv /\ [StaffNext]_vars => [Lifecycle!Next]_Life
<1> SUFFICES ASSUME BaseInv, UnagreedInv, [StaffNext]_vars PROVE [Lifecycle!Next]_Life
  OBVIOUS
<1>1. TypeOK
  BY DEF BaseInv, StaffTypeOK
<1>2. CASE [Next]_bvars
  BY <1>1, <1>2, LifeStep
<1>3. CASE UNCHANGED <<role, extra, intents, availability, decisions>>
  BY <1>3 DEF Life
<1>4. ASSUME NEW h \in Callback, Decides(h) PROVE Lifecycle!Next
  BY <1>1, <1>4, DecidesMoves, MovedLife
<1> QED  BY <1>2, <1>3, <1>4, BookingPart

\* With decisions by cards among those of the API, too, bookings follow the
\* contract's transition table.
THEOREM StaffRefinesLifecycle == StaffSpec => LifecycleSpec
<1>1. StaffInit => Init
  BY DEF StaffInit
<1> QED  BY <1>1, BaseInit, BaseStep, UnagreedInit, StaffUnagreedStep, LifeInit, StaffLifeStep, PTL
         DEF StaffSpec, LifecycleSpec, Lifecycle!Spec, Life

\* And no decision is lost to another, whether it comes by a card or not.
THEOREM StaffLosesNoUpdate == StaffSpec => []NoLostUpdate
<1>1. StaffInit => Init
  BY DEF StaffInit
<1>2. VersionInv => NoLostUpdate
  BY DEF VersionInv
<1> QED  BY <1>1, <1>2, BaseInit, BaseStep, VersionInit, StaffVersionStep, PTL DEF StaffSpec

-----------------------------------------------------------------------------
(* One decision by card.  A card is about the first version of its booking, *)
(* and VersionInv admits one decision on a version.                         *)

LEMMA DecideInit == StaffInit => DecideInv
BY DEF StaffInit, Init, DecideInv, NoInbound

\* What a card decided before the step it has decided after it.
LEMMA CameByStays ==
  ASSUME BaseInv, [StaffNext]_vars, NEW d \in decisions, NEW t \in Task, CameBy(d, t)
  PROVE  /\ cards'[t] # NoCard /\ cards'[t].booking = d.of /\ d.expected = 1
         /\ inbound'[t].state = "completed" /\ d.by = bindings'[cards'[t].binding]
         /\ (d.action = "confirm") = (inbound'[t].button = "booking_confirm")
<1>1. /\ cards'[t] # NoCard /\ cards'[t].booking = cards[t].booking
      /\ cards'[t].binding = cards[t].binding
  BY CardsStay DEF BaseInv, CameBy
<1>2. inbound'[t] = inbound[t]
  <2>1. inbound[t] # NoInbound
    BY DEF CameBy, NoInbound
  <2> QED  BY <2>1, ClaimsStay DEF BaseInv
<1>3. bindings'[cards[t].binding] = bindings[cards[t].binding]
  <2>1. cards[t].binding \in StaffUser /\ bindings[cards[t].binding] \in Member
    BY CardShapes DEF CameBy, BaseInv, CardInv, MemberOf
  <2> QED  BY <2>1, BindingsStay, BookingAssumption DEF BaseInv
<1> QED  BY <1>1, <1>2, <1>3 DEF CameBy, MemberOf

\* Only a click makes a decision "card", and it completes its claim with it.
LEMMA CardDecisions ==
  ASSUME BaseInv, [StaffNext]_vars, NEW d \in decisions', d \notin decisions, d.via = "card"
  PROVE  \E h \in Callback : Decides(h)
<1>1. CASE [Next]_bvars
  <2>1. ASSUME NEW r \in Request, Moves(r) \/ Writes(r) PROVE d.via = "api"
    BY <2>1 DEF Moves, Moved, Writes, ApplyTransition, Decided
  <2> QED  BY <1>1, <2>1, StepShapes DEF RowsKept, Opens
<1> QED  BY <1>1, BookingPart

LEMMA DecisionsGrow ==
  ASSUME [StaffNext]_vars
  PROVE  decisions \subseteq decisions'
<1>1. ASSUME NEW r \in Request, Moves(r) \/ Writes(r) PROVE decisions \subseteq decisions'
  BY <1>1 DEF Moves, Moved, Writes, ApplyTransition, Decided
<1>2. ASSUME NEW h \in Callback, Decides(h) PROVE decisions \subseteq decisions'
  BY <1>2 DEF Decides, Moved, ApplyTransition, Decided
<1>3. CASE [Next]_bvars
  BY <1>1, <1>3, StepShapes DEF RowsKept, Opens
<1> QED  BY <1>2, <1>3, BookingPart

LEMMA DecidesCard ==
  ASSUME BaseInv, NEW h \in Callback, Decides(h)
  PROVE  LET t == click[h].task
         IN  /\ t \in Task /\ cards[t] # NoCard
             /\ inbound'[t].state = "completed" /\ inbound'[t].button = click[h].button
             /\ \A s \in Task : s # t => inbound'[s] = inbound[s]
             /\ UNCHANGED <<cards, bindings>>
             /\ \E d : /\ decisions' = decisions \cup {d}
                       /\ d.via = "card" /\ d.of = cards[t].booking /\ d.expected = 1
                       /\ d.by = MemberOf(t)
                       /\ d.action = "confirm" <=> click[h].button = "booking_confirm"
<1> DEFINE t == click[h].task
           c == Asked(t, click[h].button)
<1>1. /\ t \in Task /\ Exists(t) /\ MemberOf(t) \in Member
      /\ Asking(c) /\ c.booking = cards[t].booking /\ c.expected = 1
      /\ c.action = IF click[h].button = "booking_confirm" THEN "confirm" ELSE "cancel"
  BY AskedShapes DEF Decides, BaseInv
<1>2. inbound' = [inbound EXCEPT ![t] = [state |-> "completed", button |-> click[h].button]]
  BY DEF Decides, ClaimAs
<1>3. /\ inbound'[t].state = "completed" /\ inbound'[t].button = click[h].button
      /\ \A s \in Task : s # t => inbound'[s] = inbound[s]
  BY <1>1, <1>2 DEF BaseInv, StaffTypeOK
<1>4. UNCHANGED <<cards, bindings>> /\ Moved(MemberOf(t), c, "card")
  BY DEF Decides
<1> DEFINE d == [of |-> c.booking, expected |-> c.expected, version |-> intents[c.booking].version + 1,
                 action |-> c.action, by |-> MemberOf(t), via |-> "card"]
<1> HIDE DEF c, t
<1>5. decisions' = decisions \cup {d}
  BY <1>4 DEF Moved, ApplyTransition, Decided
<1>6. /\ d.via = "card" /\ d.of = cards[t].booking /\ d.expected = 1 /\ d.by = MemberOf(t)
      /\ d.action = "confirm" <=> click[h].button = "booking_confirm"
  BY <1>1
<1> QED  BY <1>1, <1>3, <1>4, <1>5, <1>6 DEF Exists, t

LEMMA DecideStep == BaseInv /\ DecideInv /\ [StaffNext]_vars => DecideInv'
<1> SUFFICES ASSUME BaseInv, DecideInv, [StaffNext]_vars PROVE DecideInv'
  OBVIOUS
<1> DEFINE After(d, t) == /\ cards'[t] # NoCard /\ cards'[t].booking = d.of /\ d.expected = 1
                          /\ inbound'[t].state = "completed" /\ d.by = bindings'[cards'[t].binding]
                          /\ (d.action = "confirm") = (inbound'[t].button = "booking_confirm")
<1>1. ASSUME NEW d \in decisions', d.via = "card" PROVE \E t \in Task : After(d, t)
  <2>1. CASE d \in decisions
    <3>1. PICK t \in Task : CameBy(d, t)
      BY <1>1, <2>1 DEF DecideInv
    <3> QED  BY <2>1, <3>1, CameByStays
  <2>2. CASE d \notin decisions
    <3>1. PICK h \in Callback : Decides(h)
      BY <1>1, <2>2, CardDecisions
    <3>2. click[h].task \in Task /\ After(d, click[h].task)
      BY <2>2, <3>1, DecidesCard DEF MemberOf
    <3> QED  BY <3>2
  <2> QED  BY <2>1, <2>2
<1>2. ASSUME NEW t \in Task, inbound'[t].state = "completed"
      PROVE  \E d \in decisions' : d.via = "card" /\ d.of = cards'[t].booking
  <2>1. CASE inbound[t].state = "completed"
    <3>1. PICK d \in decisions : d.via = "card" /\ d.of = cards[t].booking
      BY <2>1 DEF DecideInv, ByCard
    <3>2. Exists(t)
      BY <2>1 DEF BaseInv, RefersInv, NoInbound
    <3>3. d \in decisions'
      BY DecisionsGrow
    <3> QED  BY <3>1, <3>2, <3>3, CardsStay DEF BaseInv
  <2>2. CASE inbound[t].state # "completed"
    <3>1. ~UNCHANGED inbound
      BY <1>2, <2>2
    <3>2. PICK h \in Callback : Decides(h) \/ Conflicts(h)
      BY <3>1, InboundStep
    <3>3. CASE Decides(h)
      <4>1. t = click[h].task
        BY <1>2, <2>2, <3>3, DecidesCard
      <4> QED  BY <3>3, <4>1, DecidesCard
    <3>4. CASE Conflicts(h)
      <4>1. inbound'[t] = inbound[t] \/ inbound'[t].state = "failed"
        BY <3>4 DEF Conflicts, ClaimAs, BaseInv, StaffTypeOK
      <4> QED  BY <1>2, <2>2, <4>1
    <3> QED  BY <3>2, <3>3, <3>4
  <2> QED  BY <2>1, <2>2
<1> QED  BY <1>1, <1>2 DEF DecideInv, CameBy, ByCard, Exists, MemberOf

LEMMA AtMostOneElement ==
  ASSUME NEW S, \A x, y \in S : x = y
  PROVE  IsFiniteSet(S) /\ Cardinality(S) <= 1
<1>1. CASE S = {}
  BY <1>1, FS_EmptySet
<1>2. CASE S # {}
  <2>1. PICK x \in S : S = {x}
    BY <1>2
  <2>2. IsFiniteSet({x}) /\ Cardinality({x}) = 1
    BY FS_Singleton
  <2> QED  BY <2>1, <2>2
<1> QED  BY <1>1, <1>2

\* A card decides its booking at most once, with the claim of its callback, for its
\* member and by its button, whatever races, crashes or failures there are.
THEOREM CardDecidesOnceHolds == StaffSpec => []CardDecidesOnce
<1>1. BaseInv /\ VersionInv /\ DecideInv => CardDecidesOnce
  <2> SUFFICES ASSUME BaseInv, VersionInv, DecideInv, NEW t \in Task, Exists(t)
               PROVE  /\ Cardinality(ByCard(t)) <= 1
                      /\ inbound[t].state = "completed" <=> ByCard(t) # {}
                      /\ \A d \in ByCard(t) : d.by = MemberOf(t)
                           /\ (d.action = "confirm") = (inbound[t].button = "booking_confirm")
    BY DEF CardDecidesOnce
  <2>1. ASSUME NEW d \in ByCard(t) PROVE CameBy(d, t)
    <3>1. PICK s \in Task : CameBy(d, s)
      BY <2>1 DEF DecideInv, ByCard
    <3>2. s = t
      BY <2>1, <3>1 DEF CameBy, ByCard, BaseInv, CardInv
    <3> QED  BY <3>1, <3>2
  <2>2. \A d, e \in ByCard(t) : d = e
    BY <2>1 DEF CameBy, ByCard, VersionInv, NoLostUpdate
  <2>3. Cardinality(ByCard(t)) <= 1
    BY <2>2, AtMostOneElement
  <2>4. inbound[t].state = "completed" => ByCard(t) # {}
    BY DEF DecideInv
  <2>5. ByCard(t) # {} => inbound[t].state = "completed"
    BY <2>1 DEF CameBy
  <2> QED  BY <2>1, <2>3, <2>4, <2>5 DEF CameBy
<1>2. StaffInit => VersionInv
  BY VersionInit DEF StaffInit
<1> QED  BY <1>1, <1>2, BaseInit, BaseStep, StaffVersionStep, DecideInit, DecideStep, PTL DEF StaffSpec

-----------------------------------------------------------------------------
(* Authority.  A click holds the membership of its member FOR SHARE, as a   *)
(* request in its body does.                                                *)

LEMMA StaffAuthorityStep == BaseInv /\ AuthorityInv /\ [StaffNext]_vars => AuthorityInv'
<1> SUFFICES ASSUME BaseInv, AuthorityInv, [StaffNext]_vars PROVE AuthorityInv'
  OBVIOUS
<1>1. TypeOK
  BY DEF BaseInv, StaffTypeOK
<1>2. CASE [Next]_bvars
  BY <1>1, <1>2, AuthorityStep
<1>3. ASSUME NEW r \in Request, NotifyStep(r) PROVE AuthorityInv'
  <2>1. UNCHANGED role
    BY <1>3 DEF NotifyStep, NotifyNothing, NotifyPrepare, NotifyRecord
  <2> QED  BY <1>1, <1>3, <2>1, NotifyRequests DEF AuthorityInv
<1>4. CASE StaffCrash
  BY <1>1, <1>4, KillType DEF StaffCrash, AuthorityInv
<1>5. CASE UNCHANGED <<request, role>>
  BY <1>5 DEF AuthorityInv
<1>6. ASSUME NEW h \in Callback, ClickStep(h) PROVE UNCHANGED <<request, role>>
  BY <1>6 DEF ClickStep, ClickNothing, ClickDecide, ClickConflict, Mark, Record, Await, ReadCustomer,
              NoCustomer, bvars
<1>7. ASSUME NEW r \in Request, RequestStep(r) PROVE [Next]_bvars
  BY <1>7 DEF Next
<1>8. ASSUME NEW m \in Member, NEW ro \in NewRole, SetRole(m, ro) PROVE [Next]_bvars
  BY <1>8 DEF Next
<1> QED  BY <1>2, <1>3, <1>4, <1>5, <1>6, <1>7, <1>8
         DEF StaffNext, ClickLock, AddMembership, ProvisionStaffBinding, WeComDelivers, vars, bvars

LEMMA RolesStay ==
  ASSUME [StaffNext]_vars
  PROVE  \/ UNCHANGED role
         \/ \E m \in Member, ro \in NewRole : ClickHolders(m) = {} /\ SetRole(m, ro)
<1>1. ASSUME NEW r \in Request, RequestStep(r) PROVE UNCHANGED role
  BY <1>1 DEF RequestStep, Resolve, Authorize, Create, CreateNew, CreateAgain, Transition,
              PutAvailability, Refuse
<1>2. ASSUME NEW r \in Request, NotifyStep(r) PROVE UNCHANGED role
  BY <1>2 DEF NotifyStep, NotifyNothing, NotifyPrepare, NotifyRecord
<1>3. ASSUME NEW h \in Callback, ClickStep(h) PROVE UNCHANGED role
  BY <1>3 DEF ClickStep, ClickNothing, ClickDecide, ClickConflict, Mark, Record, Await, ReadCustomer,
              NoCustomer, bvars
<1> QED  BY <1>1, <1>2, <1>3
         DEF StaffNext, ClickLock, AddMembership, ProvisionStaffBinding, WeComDelivers, StaffCrash,
             vars, bvars

\* A callback holds its locks from ClickLock on.
LEMMA OnlyLocks ==
  ASSUME StaffTypeOK, RefersInv, CardInv, [StaffNext]_vars, NEW h \in Callback,
         click[h].phase # "locked", click'[h].phase = "locked"
  PROVE  \E t \in Task, button \in Button : ClickLock(h, t, button)
<1>1. ASSUME NEW g \in Callback, NEW t \in Task, NEW button \in Button, ClickLock(g, t, button)
      PROVE  g = h
  BY <1>1, LockEffect
<1>2. ASSUME NEW g \in Callback, ClickStep(g) PROVE FALSE
  <2>1. ASSUME NEW phase \in {"await", "record", "read", "done"}, click[g].phase # "idle",
               ClickPhase(g, phase)
        PROVE  FALSE
    BY <2>1, PhaseEffect
  <2>2. ASSUME ClickNothing(g) \/ \E o : Mark(g, o) \/ Record(g, o) \/ NoCustomer(g, o) PROVE FALSE
    BY <2>1, <2>2 DEF ClickNothing, Mark, Record, NoCustomer, AfterDelivery
  <2>3. ASSUME NEW o, ClickDecide(g, o) PROVE FALSE
    <3> DEFINE c == Asked(click[g].task, click[g].button)
               status == Transitioned(intents[c.booking], c).status
    <3>1. status \in Status /\ Answer(g, o, status) /\ click[g].phase = "locked"
      BY <2>3, DecideStatus DEF ClickDecide
    <3> HIDE DEF status
    <3> QED  BY <3>1, AnswerEffect
  <2>4. ASSUME NEW o, ClickConflict(g, o) PROVE FALSE
    BY <2>4, AnswerEffect DEF ClickConflict
  <2>5. ASSUME NEW status \in Sent, Await(g, status) PROVE FALSE
    BY <2>5, AwaitEffect
  <2>6. CASE ReadCustomer(g)
    BY <2>6, ReadEffect
  <2> QED  BY <1>2, <2>2, <2>3, <2>4, <2>5, <2>6 DEF ClickStep
<1>3. CASE StaffCrash
  BY <1>3, CrashEffect
<1>4. ASSUME NEW r \in Request, NotifyStep(r) PROVE UNCHANGED click
  BY <1>4 DEF NotifyStep, NotifyNothing, NotifyPrepare, NotifyRecord, svars
<1> QED  BY <1>1, <1>2, <1>3, <1>4 DEF StaffNext, ProvisionStaffBinding, WeComDelivers, vars, svars

LEMMA ClickAuthorityStep == BaseInv /\ ClickAuthorityInv /\ [StaffNext]_vars => ClickAuthorityInv'
<1> SUFFICES ASSUME BaseInv, ClickAuthorityInv, [StaffNext]_vars,
                    NEW h \in Callback, click'[h].phase = "locked"
             PROVE  bindings'[cards'[click'[h].task].binding] \in Managers'
  BY DEF ClickAuthorityInv, MemberOf
<1> DEFINE t == click[h].task
<1>1. CASE click[h].phase = "locked"
  <2>1. /\ t \in Task /\ Exists(t) /\ MemberOf(t) \in Managers /\ cards[t].binding \in StaffUser
        /\ click'[h].task = t
    BY <1>1, ClickShapes, CardShapes, ClicksStep DEF BaseInv, RefersInv, ClickAuthorityInv, ClicksOK
  <2>2. bindings'[cards'[t].binding] = MemberOf(t)
    <3>1. bindings[cards[t].binding] # None
      BY <2>1, BookingAssumption DEF MemberOf, Managers
    <3> QED  BY <2>1, <3>1, CardsStay, BindingsStay DEF BaseInv, MemberOf
  <2>3. role'[MemberOf(t)] = role[MemberOf(t)]
    <3>1. ASSUME NEW m \in Member, NEW ro \in NewRole, ClickHolders(m) = {}, SetRole(m, ro)
          PROVE  role'[MemberOf(t)] = role[MemberOf(t)]
      <4>1. m # MemberOf(t)
        BY <1>1, <3>1 DEF ClickHolders
      <4> QED  BY <2>1, <3>1, <4>1 DEF SetRole, BaseInv, StaffTypeOK, TypeOK, Managers
    <3>2. CASE UNCHANGED role
      BY <3>2
    <3> QED  BY <3>1, <3>2, RolesStay
  <2> QED  BY <2>1, <2>2, <2>3 DEF Managers
<1>2. CASE click[h].phase # "locked"
  <2>1. PICK s \in Task, button \in Button : ClickLock(h, s, button)
    BY <1>2, OnlyLocks DEF BaseInv
  <2>2. /\ cards[s].binding \in Eligible /\ click'[h].task = s
        /\ UNCHANGED <<role, cards, bindings>>
    BY <2>1, LockEffect DEF ClickLock, BaseInv, bvars
  <2> QED  BY <2>2 DEF Eligible, Managers
<1> QED  BY <1>1, <1>2

LEMMA DecidesEntitled ==
  ASSUME BaseInv, ClickAuthorityInv, NEW h \in Callback, Decides(h), NEW d \in decisions' \ decisions
  PROVE  Entitled(d)
<1>1. d.by = MemberOf(click[h].task)
  BY DecidesCard
<1>2. MemberOf(click[h].task) \in Managers
  BY DEF Decides, ClickAuthorityInv
<1> QED  BY <1>1, <1>2 DEF Entitled

\* A decision commits only while its author's role allows it, by the API or by a
\* card, however operators change roles and memberships meanwhile.
THEOREM StaffAuthorityHolds == StaffSpec => DecisionsHaveAuthority
<1>1. BaseInv /\ AuthorityInv /\ ClickAuthorityInv /\ [StaffNext]_vars
        => [\A d \in decisions' \ decisions : Entitled(d)]_bvars
  <2> SUFFICES ASSUME BaseInv, AuthorityInv, ClickAuthorityInv, [StaffNext]_vars,
                      NEW d \in decisions' \ decisions
               PROVE  Entitled(d)
    OBVIOUS
  <2>1. TypeOK
    BY DEF BaseInv, StaffTypeOK
  <2>2. CASE [Next]_bvars
    BY <2>1, <2>2, DecisionAuthority
  <2>3. CASE UNCHANGED decisions
    BY <2>3
  <2> QED  BY <2>2, <2>3, BookingPart, DecidesEntitled
<1>2. StaffInit => AuthorityInv /\ ClickAuthorityInv
  BY AuthorityInit DEF StaffInit, ClickAuthorityInv, NoClick
<1> QED  BY <1>1, <1>2, BaseInit, BaseStep, StaffAuthorityStep, ClickAuthorityStep, PTL
         DEF StaffSpec, DecisionsHaveAuthority

-----------------------------------------------------------------------------
(* Truth.  What a text says of a booking stays true: an agreed interval is  *)
(* never replaced, a cancellation never undone, a claim never changed.      *)

LEMMA MovedKeepsAgreed ==
  ASSUME TypeOK, UnagreedInv, NEW m \in Member, NEW c, Asking(c), NEW via \in {"api", "card"},
         Moved(m, c, via), NEW b \in Booking
  PROVE  /\ intents[b].confirmed # None => intents'[b].confirmed = intents[b].confirmed
         /\ intents[b].status = "cancelled" => intents'[b].status = "cancelled"
<1>1. /\ intents'[c.booking] = Transitioned(intents[c.booking], c)
      /\ \A a \in Booking : a # c.booking => intents'[a] = intents[a]
  BY MovedRow
<1> DEFINE old == intents[c.booking]
           new == Transitioned(old, c)
<1>2. c.booking \in Booking /\ Transitionable(m, c) /\ Resolvable(old, c)
      /\ c.action \in {"confirm", "propose_alternative", "cancel"}
  BY DEF Asking, Moved, Transitionable
<1>3. /\ new.status = StatusAfter[c.action]
      /\ new.confirmed = IF c.action # "confirm" THEN old.confirmed
                         ELSE IF old.status = "alternative_proposed" THEN old.alternative ELSE c.interval
  BY <1>2, TransitionedShapes
<1>4. old.status \in {"pending_confirmation", "alternative_proposed"} => old.confirmed = None
  BY <1>2 DEF UnagreedInv
<1> HIDE DEF old, new
<1>5. old.confirmed # None => new.confirmed = old.confirmed
  BY <1>2, <1>3, <1>4 DEF Resolvable
<1>6. old.status = "cancelled" => new.status = "cancelled"
  BY <1>2, <1>3 DEF Resolvable, StatusAfter
<1> QED  BY <1>1, <1>5, <1>6 DEF old, new

LEMMA AgreedStays ==
  ASSUME BaseInv, UnagreedInv, [StaffNext]_vars, NEW b \in Booking
  PROVE  /\ intents[b].confirmed # None => intents'[b].confirmed = intents[b].confirmed
         /\ intents[b].status = "cancelled" => intents'[b].status = "cancelled"
<1>1. TypeOK
  BY DEF BaseInv, StaffTypeOK
<1>2. ASSUME NEW r \in Request, Moves(r)
      PROVE  /\ intents[b].confirmed # None => intents'[b].confirmed = intents[b].confirmed
             /\ intents[b].status = "cancelled" => intents'[b].status = "cancelled"
  BY <1>1, <1>2, MovesAsks, MovedKeepsAgreed
<1>3. ASSUME NEW r \in Request, NEW a \in Booking, Opens(r, a)
      PROVE  intents'[b] = intents[b] \/ intents[b] = NoIntent
  BY <1>1, <1>3 DEF Opens, TypeOK
<1>4. ASSUME NEW h \in Callback, Decides(h)
      PROVE  /\ intents[b].confirmed # None => intents'[b].confirmed = intents[b].confirmed
             /\ intents[b].status = "cancelled" => intents'[b].status = "cancelled"
  BY <1>1, <1>4, DecidesMoves, MovedKeepsAgreed
<1>5. NoIntent.confirmed = None /\ NoIntent.status # "cancelled"
  BY DEF NoIntent
<1>6. CASE [Next]_bvars
  <2>1. CASE UNCHANGED intents
    BY <2>1
  <2> QED  BY <1>2, <1>3, <1>5, <1>6, <2>1, StepShapes DEF RowsKept, Writes
<1> QED  BY <1>4, <1>6, BookingPart

LEMMA TruthStays ==
  ASSUME BaseInv, UnagreedInv, [StaffNext]_vars, NEW t \in Task, Exists(t), NEW k, NEW x, Truthful(t, k, x)
  PROVE  Truthful(t, k, x)'
<1>1. cards[t].booking \in Booking /\ cards'[t].booking = cards[t].booking
  BY CardShapes, CardsStay DEF BaseInv
<1>2. inbound[t].state = "failed" => inbound'[t].state = "failed"
  BY ClaimsStay DEF BaseInv, NoInbound
<1> QED  BY <1>1, <1>2, AgreedStays DEF Truthful

\* A callback that is about to tell something was, or has just learnt it.
LEMMA Tells ==
  ASSUME BaseInv, [StaffNext]_vars, NEW h \in Callback,
         click'[h].phase \in {"mark", "await", "record", "read"}
  PROVE  \/ /\ Telling(h) /\ click'[h].task = click[h].task
            /\ click'[h].kind = click[h].kind /\ click'[h].text = click[h].text
         \/ ClickDecide(h, "answers") \/ ClickConflict(h, "answers") \/ ReadCustomer(h)
<1> DEFINE Goal(g) == \/ /\ Telling(g) /\ click'[g].task = click[g].task
                         /\ click'[g].kind = click[g].kind /\ click'[g].text = click[g].text
                      \/ ClickDecide(g, "answers") \/ ClickConflict(g, "answers") \/ ReadCustomer(g)
<1>1. ASSUME NEW g \in Callback, NEW phase \in {"await", "record", "read", "done"},
             Telling(g) \/ phase = "done", click[g].phase # "idle", ClickPhase(g, phase)
      PROVE  Goal(h)
  BY <1>1, PhaseEffect DEF BaseInv, Telling
<1>2. ASSUME NEW g \in Callback, ClickStep(g) PROVE Goal(h)
  <2>1. CASE ClickNothing(g)
    BY <1>1, <2>1 DEF ClickNothing
  <2>2. ASSUME NEW o, Mark(g, o) \/ Record(g, o) \/ NoCustomer(g, o) PROVE Goal(h)
    <3>1. Telling(g) /\ click[g].phase # "idle"
          /\ \E phase \in {"await", "record", "read", "done"} : ClickPhase(g, phase)
      BY <2>2 DEF Mark, Record, NoCustomer, AfterDelivery, Telling
    <3> QED  BY <1>1, <3>1
  <2>3. ASSUME NEW o, ClickDecide(g, o) PROVE Goal(h)
    <3> DEFINE c == Asked(click[g].task, click[g].button)
               status == Transitioned(intents[c.booking], c).status
    <3>1. status \in Status /\ Answer(g, o, status) /\ click[g].phase = "locked"
      BY <2>3, DecideStatus DEF ClickDecide, BaseInv
    <3> HIDE DEF status
    <3>2. /\ \A q \in Callback : q # g => click'[q] = click[q]
          /\ click'[g].phase = IF o = "answers" THEN "mark" ELSE "done"
      BY <3>1, AnswerEffect DEF BaseInv
    <3> QED  BY <2>3, <3>2 DEF Telling
  <2>4. ASSUME NEW o, ClickConflict(g, o) PROVE Goal(h)
    <3>1. /\ \A q \in Callback : q # g => click'[q] = click[q]
          /\ click'[g].phase = IF o = "answers" THEN "mark" ELSE "done"
      BY <2>4, AnswerEffect DEF ClickConflict, BaseInv
    <3> QED  BY <2>4, <3>1 DEF Telling
  <2>5. ASSUME NEW status \in Sent, Await(g, status) PROVE Goal(h)
    BY <2>5, AwaitEffect DEF Await, BaseInv, Telling
  <2>6. CASE ReadCustomer(g)
    BY <2>6, ReadEffect DEF BaseInv, Telling
  <2> QED  BY <1>2, <2>1, <2>2, <2>3, <2>4, <2>5, <2>6 DEF ClickStep
<1>3. CASE UNCHANGED click
  BY <1>3 DEF Telling
<1>4. ASSUME NEW r \in Request, NotifyStep(r) PROVE UNCHANGED click
  BY <1>4 DEF NotifyStep, NotifyNothing, NotifyPrepare, NotifyRecord, svars
<1>5. ASSUME NEW g \in Callback, NEW t \in Task, NEW button \in Button, ClickLock(g, t, button)
      PROVE  Goal(h)
  BY <1>5, LockEffect DEF BaseInv, Telling
<1>6. CASE StaffCrash
  BY <1>6, CrashEffect DEF BaseInv
<1> QED  BY <1>2, <1>3, <1>4, <1>5, <1>6
         DEF StaffNext, ProvisionStaffBinding, WeComDelivers, vars, svars

LEMMA LockedStays ==
  ASSUME BaseInv, [StaffNext]_vars, NEW h \in Callback, click[h].phase = "locked", click'[h].phase = "locked"
  PROVE  click'[h].kind = click[h].kind
<1>1. ASSUME NEW g \in Callback, ClickStep(g), g # h PROVE click'[h] = click[h]
  BY <1>1 DEF ClickStep, ClickNothing, ClickDecide, ClickConflict, Mark, Record, Await, ReadCustomer,
              NoCustomer, AfterDelivery, ClickPhase, Answer, BaseInv, StaffTypeOK
<1>2. CASE ClickStep(h)
  <2>1. CASE ClickNothing(h)
    BY <2>1, PhaseEffect DEF ClickNothing, BaseInv
  <2>2. ASSUME NEW o, ClickDecide(h, o) PROVE FALSE
    <3> DEFINE c == Asked(click[h].task, click[h].button)
               status == Transitioned(intents[c.booking], c).status
    <3>1. status \in Status /\ Answer(h, o, status) /\ click[h].phase = "locked"
      BY <2>2, DecideStatus DEF ClickDecide, BaseInv
    <3> HIDE DEF status
    <3> QED  BY <3>1, AnswerEffect DEF BaseInv
  <2>3. ASSUME NEW o, ClickConflict(h, o) PROVE FALSE
    BY <2>3, AnswerEffect DEF ClickConflict, BaseInv
  <2> QED  BY <1>2, <2>1, <2>2, <2>3 DEF ClickStep, Mark, Record, Await, ReadCustomer, NoCustomer
<1>3. ASSUME NEW g \in Callback, NEW t \in Task, NEW button \in Button, ClickLock(g, t, button)
      PROVE  click'[h] = click[h]
  BY <1>3, LockEffect DEF BaseInv
<1>4. CASE StaffCrash
  BY <1>4, CrashEffect DEF BaseInv
<1>5. ASSUME NEW r \in Request, NotifyStep(r) PROVE UNCHANGED click
  BY <1>5 DEF NotifyStep, NotifyNothing, NotifyPrepare, NotifyRecord, svars
<1> QED  BY <1>1, <1>2, <1>3, <1>4, <1>5 DEF StaffNext, ProvisionStaffBinding, WeComDelivers, vars, svars

\* A new post is a card, or what a callback is about to tell.
LEMMA NewPosts ==
  ASSUME BaseInv, [StaffNext]_vars, NEW p \in outbox', p \notin outbox
  PROVE  \/ \E t \in Task : p = CardPost(t)
         \/ \E h \in Callback : click[h].phase = "mark" /\ p = PostOf(h)
<1>1. ASSUME NEW r \in Request, NotifyStep(r) PROVE \E t \in Task : p = CardPost(t)
  BY <1>1 DEF NotifyStep, NotifyNothing, NotifyPrepare, NotifyRecord, Answered, svars, CardPost
<1>2. ASSUME NEW h \in Callback, ClickStep(h) PROVE click[h].phase = "mark" /\ p = PostOf(h)
  BY <1>2 DEF ClickStep, ClickNothing, ClickDecide, ClickConflict, Mark, Record, Await, ReadCustomer,
              NoCustomer, Answered
<1> QED  BY <1>1, <1>2
         DEF StaffNext, ClickLock, ProvisionStaffBinding, WeComDelivers, StaffCrash, vars, svars

\* The answer to the click that decided: what it says has just become so.
LEMMA DecisionIsTrue ==
  ASSUME BaseInv, NEW h \in Callback, ClickDecide(h, "answers"), click[h].kind = "feedback",
         NEW t, t = click[h].task
  PROVE  /\ t \in Task /\ click'[h].task = t /\ click'[h].kind = "feedback"
         /\ LET x == click'[h].text
                row == intents'[cards'[t].booking]
            IN  /\ x.status \in {"confirmed", "cancelled"}
                /\ x.status = "confirmed" => row.confirmed # None
                /\ x.status = "cancelled" => row.status = "cancelled"
<1> DEFINE c == Asked(t, click[h].button)
           new == Transitioned(intents[c.booking], c)
<1>1. /\ t \in Task /\ MemberOf(t) \in Member /\ Asking(c) /\ c.booking = cards[t].booking
      /\ c.action \in {"confirm", "cancel"}
      /\ Transitionable(MemberOf(t), c)
  BY AskedShapes DEF ClickDecide, BaseInv
<1>2. Moved(MemberOf(t), c, "card") /\ UNCHANGED cards /\ Answer(h, "answers", new.status)
  BY DEF ClickDecide, Committed, Moved
<1> HIDE DEF c
<1>3. /\ new \in Intent /\ new.status = StatusAfter[c.action]
      /\ new.status = "confirmed" => new.confirmed # None
  BY <1>1, TransitionedShapes DEF BaseInv, StaffTypeOK
<1>4. intents'[cards'[t].booking] = new
  BY <1>1, <1>2, MovedRow DEF BaseInv, StaffTypeOK
<1> HIDE DEF new
<1>5. new.status \in {"confirmed", "cancelled"}
  BY <1>1, <1>3 DEF StatusAfter
<1>6. /\ click'[h].text = [status |-> new.status, interval |-> None]
      /\ click'[h].task = t /\ click'[h].kind = "feedback"
  <2>1. new.status \in Status \cup {"booking_intent_conflict"} /\ click[h].phase # "idle"
    BY <1>5 DEF Status, ClickDecide
  <2> QED  BY <1>2, <2>1, AnswerEffect DEF BaseInv
<1> QED  BY <1>1, <1>3, <1>4, <1>5, <1>6

LEMMA TruthInit == StaffInit => TruthInv
BY DEF StaffInit, TruthInv, NoClick, Telling, PeopleAreToldTheTruth

LEMMA TruthStep == BaseInv /\ UnagreedInv /\ TruthInv /\ [StaffNext]_vars => TruthInv'
<1> SUFFICES ASSUME BaseInv, UnagreedInv, TruthInv, [StaffNext]_vars PROVE TruthInv'
  OBVIOUS
<1>1. ASSUME NEW h \in Callback, click'[h].phase = "locked" PROVE click'[h].kind = "feedback"
  <2>1. CASE click[h].phase = "locked"
    BY <1>1, <2>1, LockedStays DEF TruthInv
  <2>2. CASE click[h].phase # "locked"
    BY <1>1, <2>2, OnlyLocks, LockEffect DEF BaseInv
  <2> QED  BY <2>1, <2>2
<1>2. ASSUME NEW h \in Callback, click'[h].phase \in {"mark", "await", "record", "read"},
             NEW t, NEW k, NEW x, t = click'[h].task, k = click'[h].kind, x = click'[h].text
      PROVE  Truthful(t, k, x)'
  <2>1. CASE /\ Telling(h) /\ t = click[h].task /\ k = click[h].kind /\ x = click[h].text
    <3>1. t \in Task /\ Exists(t)
      BY <2>1, ClickShapes DEF Telling, BaseInv, RefersInv
    <3>2. Truthful(t, k, x)
      BY <2>1 DEF TruthInv
    <3> QED  BY <3>1, <3>2, TruthStays
  <2>2. CASE ClickDecide(h, "answers")
    <3>1. click[h].kind = "feedback"
      BY <2>2 DEF TruthInv, ClickDecide
    <3>2. /\ t = click[h].task /\ k = "feedback"
          /\ x.status \in {"confirmed", "cancelled"}
          /\ x.status = "confirmed" => intents'[cards'[t].booking].confirmed # None
          /\ x.status = "cancelled" => intents'[cards'[t].booking].status = "cancelled"
      BY <1>2, <2>2, <3>1, DecisionIsTrue
    <3> QED  BY <3>2 DEF Truthful
  <2>3. CASE ClickConflict(h, "answers")
    <3>1. click[h].phase = "locked" /\ Answer(h, "answers", "booking_intent_conflict")
          /\ ClaimAs(click[h].task, click[h].button, "failed")
      BY <2>3 DEF ClickConflict, Committed
    <3>2. x.status = "booking_intent_conflict" /\ t = click[h].task /\ t \in Task
      <4>1. click[h].phase # "idle" /\ StaffTypeOK
        BY <3>1 DEF BaseInv
      <4>2. /\ click'[h].text = [status |-> "booking_intent_conflict", interval |-> None]
            /\ click'[h].task = click[h].task
        BY <3>1, <4>1, AnswerEffect
      <4> QED  BY <1>2, <4>1, <4>2, ClickShapes
    <3>3. inbound'[t].state = "failed"
      BY <3>1, <3>2 DEF ClaimAs, BaseInv, StaffTypeOK
    <3> QED  BY <3>2, <3>3 DEF Truthful
  <2>4. CASE ReadCustomer(h)
    <3> DEFINE row == intents[cards[t].booking]
    <3>1. /\ t = click[h].task /\ row.status \in {"confirmed", "cancelled"} /\ x.status = row.status
          /\ row.status = "confirmed" => x.interval = row.confirmed
      BY <1>2, <2>4, ReadEffect DEF BaseInv
    <3>2. cards[t].booking \in Booking
      BY <2>4, <3>1, ClickShapes, CardShapes DEF ReadCustomer, BaseInv, RefersInv
    <3>3. row.status = "confirmed" => row.confirmed # None
      BY <3>2 DEF BaseInv, StaffTypeOK, TypeOK
    <3>4. UNCHANGED <<intents, cards>>
      BY <2>4 DEF ReadCustomer, bvars
    <3> QED  BY <3>1, <3>3, <3>4 DEF Truthful
  <2> QED  BY <1>2, <2>1, <2>2, <2>3, <2>4, Tells
<1>3. ASSUME NEW p \in outbox' PROVE Truthful(p.task, p.kind, p.text)'
  <2>1. CASE p \in outbox
    BY <2>1, TruthStays DEF TruthInv, BaseInv, RefersInv, StaffTypeOK, Post
  <2>2. ASSUME NEW t \in Task, p = CardPost(t) PROVE Truthful(p.task, p.kind, p.text)'
    BY <2>2 DEF CardPost, CardText, Truthful
  <2>3. ASSUME NEW h \in Callback, click[h].phase = "mark", p = PostOf(h)
        PROVE  Truthful(p.task, p.kind, p.text)'
    <3>1. /\ p.task = click[h].task /\ p.kind = click[h].kind /\ p.text = click[h].text
          /\ p.task \in Task /\ Exists(p.task)
      BY <2>3, ClickShapes DEF PostOf, BaseInv, RefersInv
    <3>2. Truthful(p.task, p.kind, p.text)
      BY <2>3, <3>1 DEF TruthInv, Telling
    <3> QED  BY <3>1, <3>2, TruthStays
  <2> QED  BY <2>1, <2>2, <2>3, NewPosts
<1>4. ASSUME NEW t \in Task, NEW k \in Kind, NEW i \in DOMAIN shown'[t][k]
      PROVE  \A x : x = shown'[t][k][i] => Truthful(t, k, x)'
  <2>1. ASSUME i \in DOMAIN shown[t][k], shown'[t][k][i] = shown[t][k][i]
        PROVE  \A x : x = shown'[t][k][i] => Truthful(t, k, x)'
    <3>1. shown[t][k] # <<>>
      BY <2>1
    <3>2. Exists(t) /\ Truthful(t, k, shown[t][k][i])
      BY <2>1, <3>1 DEF TruthInv, PeopleAreToldTheTruth, BaseInv, RefersInv
    <3> QED  BY <2>1, <3>2, TruthStays
  <2>2. CASE UNCHANGED shown
    BY <2>1, <2>2
  <2>3. ASSUME NEW p \in outbox, p.text \in Text, UNCHANGED <<bvars, cards, inbound>>,
               shown'[t][k] = IF t = p.task /\ k = p.kind THEN Append(shown[t][k], p.text) ELSE shown[t][k]
        PROVE  \A x : x = shown'[t][k][i] => Truthful(t, k, x)'
    <3>1. CASE t = p.task /\ k = p.kind
      <4>1. shown[t][k] \in Seq(Text)
        BY DEF BaseInv, StaffTypeOK
      <4>2. CASE i = Len(shown[t][k]) + 1
        <5>1. shown'[t][k][i] = p.text
          BY <2>3, <3>1, <4>1, <4>2
        <5>2. Truthful(t, k, p.text) /\ Exists(t)
          BY <3>1 DEF TruthInv, BaseInv, RefersInv
        <5> QED  BY <5>1, <5>2, TruthStays
      <4>3. CASE i # Len(shown[t][k]) + 1
        <5>1. i \in DOMAIN shown[t][k] /\ shown'[t][k][i] = shown[t][k][i]
          BY <2>3, <3>1, <4>1, <4>3
        <5> QED  BY <2>1, <5>1
      <4> QED  BY <4>2, <4>3
    <3>2. CASE ~(t = p.task /\ k = p.kind)
      BY <2>1, <2>3, <3>2
    <3> QED  BY <3>1, <3>2
  <2> QED  BY <2>2, <2>3, ShownStep DEF BaseInv
<1>5. PeopleAreToldTheTruth'
  BY <1>4 DEF PeopleAreToldTheTruth
<1>6. \A h \in Callback : Telling(h)' => Truthful(click[h].task, click[h].kind, click[h].text)'
  BY <1>2 DEF Telling, Truthful
<1> QED  BY <1>1, <1>3, <1>5, <1>6 DEF TruthInv

\* Whatever a card, its feedback and the customer's message say of a booking stays
\* true, for any texts, failures and crashes.
THEOREM PeopleAreToldTheTruthHolds == StaffSpec => []PeopleAreToldTheTruth
<1>1. TruthInv => PeopleAreToldTheTruth
  BY DEF TruthInv
<1>2. StaffInit => UnagreedInv
  BY UnagreedInit DEF StaffInit
<1> QED  BY <1>1, <1>2, BaseInit, BaseStep, StaffUnagreedStep, TruthInit, TruthStep, PTL DEF StaffSpec

-----------------------------------------------------------------------------
(* Delivery.  A post is sent by one sender, which marks its delivery        *)
(* "indeterminate" before, and records what it is told after.               *)

\* No post is sent or acted on, and no sender starts or goes on.
Calm ==
  /\ UNCHANGED <<outbox, shown>>
  /\ \A t \in Task, k \in Kind :
       \/ cards'[t].state[k] = cards[t].state[k]
       \/ cards[t].state[k] = "not_sent" /\ cards'[t].state[k] = "unavailable"
  /\ \A r \in Request : request'[r].phase = "send" =>
       request[r].phase = "send" /\ sending'[r] = sending[r]
  /\ \A h \in Callback : click'[h].phase \in {"await", "record"} => click'[h] = click[h]

LEMMA CalmClick ==
  ASSUME BaseInv, UNCHANGED <<outbox, shown, request, sending>>,
         UNCHANGED cards \/ \E t \in Task : /\ Exists(t) /\ cards[t].state["customer"] = "not_sent"
                                            /\ Written(t, "customer", "unavailable"),
         \A h \in Callback : click'[h].phase \in {"await", "record"} => click'[h] = click[h]
  PROVE  Calm
<1>1. CASE UNCHANGED cards
  BY <1>1 DEF Calm
<1>2. ASSUME NEW t \in Task, Exists(t), cards[t].state["customer"] = "not_sent",
             Written(t, "customer", "unavailable")
      PROVE  Calm
  <2>1. \A s \in Task, k \in Kind :
          cards'[s].state[k] = IF s = t /\ k = "customer" THEN "unavailable" ELSE cards[s].state[k]
    BY <1>2, WrittenCards DEF BaseInv, Kind
  <2> QED  BY <1>2, <2>1 DEF Calm
<1> QED  BY <1>1, <1>2

LEMMA ClickSteps ==
  ASSUME BaseInv, NEW h \in Callback, ClickStep(h)
  PROVE  \/ Calm
         \/ \E o : Mark(h, o) /\ Unsent(h) /\ o # "fails"
         \/ \E status \in Sent : Await(h, status)
         \/ \E o : Record(h, o)
<1> DEFINE Quiet == \A g \in Callback : click'[g].phase \in {"await", "record"} => click'[g] = click[g]
<1>1. ASSUME NEW phase \in {"read", "done"}, click[h].phase # "idle", ClickPhase(h, phase) PROVE Quiet
  BY <1>1, PhaseEffect DEF BaseInv
<1>2. CASE ClickNothing(h)
  BY <1>1, <1>2, CalmClick DEF ClickNothing, bvars
<1>3. ASSUME NEW o, ClickDecide(h, o) PROVE Calm
  <2> DEFINE c == Asked(click[h].task, click[h].button)
             status == Transitioned(intents[c.booking], c).status
  <2>1. status \in Status /\ Answer(h, o, status) /\ click[h].phase = "locked"
    BY <1>3, DecideStatus DEF ClickDecide, BaseInv
  <2> HIDE DEF status
  <2>2. Quiet
    BY <2>1, AnswerEffect DEF BaseInv
  <2> QED  BY <1>3, <2>2, CalmClick DEF ClickDecide
<1>4. ASSUME NEW o, ClickConflict(h, o) PROVE Calm
  <2>1. Quiet
    BY <1>4, AnswerEffect DEF ClickConflict, BaseInv
  <2> QED  BY <1>4, <2>1, CalmClick DEF ClickConflict
<1>5. ASSUME NEW o, Mark(h, o), ~Unsent(h) \/ o = "fails" PROVE Calm
  <2>1. /\ UNCHANGED <<outbox, shown, request, sending, cards>> /\ click[h].phase # "idle"
        /\ \E phase \in {"read", "done"} : ClickPhase(h, phase)
    BY <1>5 DEF Mark, AfterDelivery, bvars
  <2> QED  BY <1>1, <2>1, CalmClick
<1>6. CASE ReadCustomer(h)
  <2>1. Quiet
    BY <1>6, ReadEffect DEF BaseInv
  <2> QED  BY <1>6, <2>1, CalmClick DEF ReadCustomer, bvars
<1>7. ASSUME NEW o, NoCustomer(h, o) PROVE Calm
  <2>1. Quiet
    BY <1>1, <1>7 DEF NoCustomer
  <2>2. click[h].task \in Task /\ Exists(click[h].task)
    BY <1>7, ClickShapes DEF NoCustomer, BaseInv, RefersInv
  <2>3. \/ UNCHANGED cards
        \/ /\ cards[click[h].task].state["customer"] = "not_sent"
           /\ Written(click[h].task, "customer", "unavailable")
    BY <1>7 DEF NoCustomer, Written
  <2>4. UNCHANGED <<outbox, shown, request, sending>>
    BY <1>7 DEF NoCustomer, bvars
  <2> QED  BY <2>1, <2>2, <2>3, <2>4, CalmClick
<1> QED  BY <1>2, <1>3, <1>4, <1>5, <1>6, <1>7 DEF ClickStep

LEMMA SendSteps ==
  ASSUME BaseInv, [StaffNext]_vars
  PROVE  \/ Calm
         \/ \E r \in Request : \E o : NotifyPrepare(r, o) /\ o # "fails"
         \/ \E r \in Request, status \in Sent : \E o : NotifyRecord(r, status, o)
         \/ \E h \in Callback : \E o : Mark(h, o) /\ Unsent(h) /\ o # "fails"
         \/ \E h \in Callback, status \in Sent : Await(h, status)
         \/ \E h \in Callback : \E o : Record(h, o)
         \/ WeComDelivers
<1>1. ASSUME NEW r \in Request, RequestStep(r), UNCHANGED svars PROVE Calm
  <2>1. \A q \in Request : request'[q].phase = "send" => request[q].phase = "send"
    BY <1>1, NeverSends DEF BaseInv, StaffTypeOK
  <2> QED  BY <1>1, <2>1 DEF Calm, svars
<1>2. ASSUME NEW r \in Request, NotifyNothing(r) PROVE Calm
  <2>1. \A q \in Request : request'[q].phase = "send" => request[q].phase = "send"
    BY <1>2, FinishType DEF NotifyNothing, Finish, BaseInv, StaffTypeOK
  <2> QED  BY <1>2, <2>1 DEF Calm, NotifyNothing, svars
<1>3. ASSUME NEW r \in Request, NotifyPrepare(r, "fails") PROVE Calm
  <2>1. \A q \in Request : request'[q].phase = "send" => request[q].phase = "send"
    BY <1>3, FinishType DEF NotifyPrepare, Finish, BaseInv, StaffTypeOK
  <2> QED  BY <1>3, <2>1 DEF Calm, NotifyPrepare
<1>4. ASSUME NEW h \in Callback, NEW t \in Task, NEW button \in Button, ClickLock(h, t, button) PROVE Calm
  <2>1. \A g \in Callback : click'[g].phase \in {"await", "record"} => click'[g] = click[g]
    BY <1>4, LockEffect DEF BaseInv
  <2> QED  BY <1>4, <2>1, CalmClick DEF ClickLock, bvars
<1>5. CASE StaffCrash
  BY <1>5, KillType, CrashEffect DEF StaffCrash, Calm, BaseInv, StaffTypeOK
<1>6. CASE UNCHANGED <<request, sending, cards, click, outbox, shown>>
  BY <1>6 DEF Calm
<1>7. ASSUME NEW r \in Request, NotifyStep(r)
      PROVE  \/ Calm
             \/ \E o : NotifyPrepare(r, o) /\ o # "fails"
             \/ \E status \in Sent : \E o : NotifyRecord(r, status, o)
  BY <1>2, <1>3, <1>7 DEF NotifyStep
<1>8. CASE \/ \E m \in Member, ro \in NewRole : SetRole(m, ro) /\ UNCHANGED svars
           \/ \E m \in Mover : AddMembership(m) /\ UNCHANGED svars
           \/ \E p \in Provisions : ProvisionStaffBinding(p.user, p.member)
           \/ UNCHANGED vars
  BY <1>6, <1>8 DEF SetRole, AddMembership, ProvisionStaffBinding, vars, bvars, svars
<1> QED  BY <1>1, <1>4, <1>5, <1>7, <1>8, ClickSteps DEF StaffNext

LEMMA SendInit == StaffInit => SendInv
BY DEF StaffInit, Init, Idle, SendInv, CellInv, SendsCard, SendsPost, Posted, Shown, NoClick

\* Nothing happens to the delivery k of card t, or it turns out to be impossible.
Same(t, k) ==
  /\ \/ cards'[t].state[k] = cards[t].state[k]
     \/ cards[t].state[k] = "not_sent" /\ cards'[t].state[k] = "unavailable"
  /\ \A p : Posted(p, t, k)' <=> Posted(p, t, k)
  /\ Shown(t, k)' = Shown(t, k)
  /\ \A r \in Request : SendsCard(r, t, k)' => SendsCard(r, t, k)
  /\ \A h \in Callback : SendsPost(h, t, k)' => SendsPost(h, t, k) /\ click'[h] = click[h]

Elsewhere(t, k) == \A s \in Task, j \in Kind : (s = t /\ j = k) \/ Same(s, j)

LEMMA CalmIsSame == Calm => \A t \in Task, k \in Kind : Same(t, k)
BY DEF Calm, Same, Posted, Shown, SendsCard, SendsPost

LEMMA SameCell == ASSUME NEW t \in Task, NEW k \in Kind, CellInv(t, k), Same(t, k) PROVE CellInv(t, k)'
<1>1. (cards[t].state[k] = "not_sent" => Shown(t, k) = 0)'
  BY DEF CellInv, Same
<1>2. \A p \in outbox' : Posted(p, t, k)' =>
        cards'[t].state[k] = "indeterminate" /\ Shown(t, k)' = 0
  BY DEF CellInv, Same, Posted
<1>3. \A p, q \in outbox' : Posted(p, t, k)' /\ Posted(q, t, k)' => p = q
  BY DEF CellInv, Same, Posted
<1>4. k = "card" => (CardPost(t) \in outbox' <=> CardPost(t) \in outbox)
  BY DEF Same, Posted, CardPost
<1>5. \A r \in Request : SendsCard(r, t, k)' =>
        cards'[t].state[k] = "indeterminate" /\ (CardPost(t) \in outbox' \/ Shown(t, k)' = 1)
  BY <1>4 DEF CellInv, Same, SendsCard
<1>6. \A r, q \in Request : SendsCard(r, t, k)' /\ SendsCard(q, t, k)' => r = q
  BY DEF CellInv, Same
<1>7. \A h \in Callback : SendsPost(h, t, k)' => cards'[t].state[k] = "indeterminate"
  BY DEF CellInv, Same
<1>8. ASSUME NEW h \in Callback, SendsPost(h, t, k)', click'[h].phase = "await"
      PROVE  [task |-> t, kind |-> k, text |-> click'[h].text] \in outbox' \/ Shown(t, k)' = 1
  <2> DEFINE p == [task |-> t, kind |-> k, text |-> click[h].text]
  <2>1. SendsPost(h, t, k) /\ click'[h] = click[h] /\ Shown(t, k)' = Shown(t, k)
    BY <1>8 DEF Same
  <2>2. p \in outbox' <=> p \in outbox
    BY DEF Same, Posted
  <2>3. p \in outbox \/ Shown(t, k) = 1
    BY <1>8, <2>1 DEF CellInv
  <2> QED  BY <2>1, <2>2, <2>3
<1>9. \A h \in Callback : SendsPost(h, t, k)' /\ click'[h].phase = "record" =>
        /\ click'[h].status = "accepted" => Shown(t, k)' = 1
        /\ click'[h].status = "rejected" => Shown(t, k)' = 0 /\ \A p \in outbox' : ~Posted(p, t, k)'
  BY DEF CellInv, Same, Posted
<1>10. \A g, h \in Callback : SendsPost(g, t, k)' /\ SendsPost(h, t, k)' => g = h
  BY DEF CellInv, Same
<1> QED  BY <1>1, <1>2, <1>3, <1>5, <1>6, <1>7, <1>8, <1>9, <1>10 DEF CellInv

\* What may happen to a delivery: it is marked, or WeCom acts on it, or what is
\* known of it is recorded.
CellStep(t, k) ==
  \/ /\ cards[t].state[k] = "not_sent" /\ cards'[t].state[k] = "indeterminate"
     /\ Shown(t, k)' = Shown(t, k)
  \/ /\ cards[t].state[k] = "indeterminate" /\ cards'[t].state[k] \in Sent
     /\ cards'[t].state[k] = "accepted" => Shown(t, k) = 1
     /\ cards'[t].state[k] = "rejected" => Shown(t, k) = 0
     /\ Shown(t, k)' = Shown(t, k)
  \/ /\ cards[t].state[k] = "indeterminate" /\ cards'[t].state[k] = "indeterminate"
     /\ Shown(t, k) = 0 /\ Shown(t, k)' = 1

\* One delivery moves, to where its invariant holds again.
Advances(t, k) == CellStep(t, k) /\ CellInv(t, k)' /\ Elsewhere(t, k)

\* A delivery that has not been tried has no post and no sender.
LEMMA Untried ==
  ASSUME NEW t \in Task, NEW k \in Kind, CellInv(t, k), cards[t].state[k] = "not_sent"
  PROVE  /\ Shown(t, k) = 0
         /\ \A p : ~Posted(p, t, k)
         /\ \A r \in Request : ~SendsCard(r, t, k)
         /\ \A h \in Callback : ~SendsPost(h, t, k)
BY DEF CellInv, Posted

LEMMA Marked ==
  ASSUME NEW t \in Task, NEW k \in Kind, CellInv(t, k),
         cards[t].state[k] = "not_sent", cards'[t].state[k] = "indeterminate", UNCHANGED shown,
         NEW x, \A p : Posted(p, t, k)' => p = x,
         \A r \in Request : SendsCard(r, t, k)' => CardPost(t) \in outbox',
         \A r, q \in Request : SendsCard(r, t, k)' /\ SendsCard(q, t, k)' => r = q,
         \A h \in Callback : SendsPost(h, t, k)' =>
           /\ click'[h].phase = "await"
           /\ [task |-> t, kind |-> k, text |-> click'[h].text] \in outbox',
         \A g, h \in Callback : SendsPost(g, t, k)' /\ SendsPost(h, t, k)' => g = h,
         Elsewhere(t, k)
  PROVE  Advances(t, k)
<1>1. Shown(t, k) = 0 /\ Shown(t, k)' = Shown(t, k)
  BY DEF CellInv, Shown
<1>2. CellInv(t, k)'
  BY <1>1 DEF CellInv
<1> QED  BY <1>1, <1>2 DEF Advances, CellStep

LEMMA PrepareMoves ==
  ASSUME BaseInv, SendInv, NEW r \in Request, NEW o, NotifyPrepare(r, o), o # "fails"
  PROVE  \E t \in Task : Advances(t, "card")
<1> DEFINE b == request[r].reply
<1>1. PICK t \in Task, u \in Recipients(b) :
        /\ ~Exists(t) /\ cards' = [cards EXCEPT ![t] = NewCard(b, u)]
        /\ IF o = "answers"
             THEN /\ request' = [request EXCEPT ![r].phase = "send"]
                  /\ sending' = [sending EXCEPT ![r] = t]
                  /\ outbox' = outbox \cup {[task |-> t, kind |-> "card", text |-> CardText]}
             ELSE Finish(r) /\ UNCHANGED <<sending, outbox>>
  BY DEF NotifyPrepare
<1>2. UNCHANGED <<click, shown>> /\ request[r].phase = "notify" /\ "card" \in Kind
  BY DEF NotifyPrepare, Kind
<1>3. /\ \A k \in Kind : cards[t].state[k] = "not_sent"
      /\ \A k \in Kind : cards'[t].state[k] = IF k = "card" THEN "indeterminate" ELSE "not_sent"
      /\ \A s \in Task : s # t => cards'[s] = cards[s]
  <2>1. cards[t] = NoCard /\ cards'[t] = NewCard(b, u) /\ \A s \in Task : s # t => cards'[s] = cards[s]
    BY <1>1 DEF Exists, BaseInv, StaffTypeOK
  <2> QED  BY <2>1 DEF NoCard, NewCard
<1>4. /\ \A p : Posted(p, t, "card")' => p = CardPost(t)
      /\ \A s \in Task, k \in Kind : ~(s = t /\ k = "card") =>
           \A p : Posted(p, s, k)' <=> Posted(p, s, k)
      /\ o = "answers" => CardPost(t) \in outbox'
      /\ o # "answers" => outbox' = outbox
  <2>1. \A p : ~Posted(p, t, "card")
    BY <1>2, <1>3, Untried DEF SendInv
  <2>2. outbox' = IF o = "answers" THEN outbox \cup {CardPost(t)} ELSE outbox
    BY <1>1 DEF CardPost
  <2>3. CardPost(t).task = t /\ CardPost(t).kind = "card"
    BY DEF CardPost
  <2> QED  BY <2>1, <2>2, <2>3 DEF Posted
<1>5. \A q \in Request : q # r => request'[q] = request[q] /\ sending'[q] = sending[q]
  <2>1. \A q \in Request : q # r => request'[q] = request[q]
    BY <1>1, <1>2, FinishType DEF Finish, BaseInv, StaffTypeOK
  <2>2. \A q \in Request : q # r => sending'[q] = sending[q]
    BY <1>1 DEF BaseInv, StaffTypeOK
  <2> QED  BY <2>1, <2>2
<1>6. request'[r].phase = "send" => o = "answers" /\ sending'[r] = t
  <2>1. CASE o = "answers"
    BY <1>1, <2>1 DEF BaseInv, StaffTypeOK
  <2>2. CASE o # "answers"
    <3>1. request'[r].phase = "done"
      BY <1>1, <1>2, <2>2, FinishType DEF Finish, BaseInv, StaffTypeOK
    <3> QED  BY <3>1
  <2> QED  BY <2>1, <2>2
<1>7. \A q \in Request : ~SendsCard(q, t, "card")
  BY <1>2, <1>3, Untried DEF SendInv
<1>8. \A q \in Request : SendsCard(q, t, "card")' => q = r /\ CardPost(t) \in outbox'
  BY <1>4, <1>5, <1>6, <1>7 DEF SendsCard
<1>9. \A h \in Callback : ~SendsPost(h, t, "card")'
  <2>1. \A h \in Callback : ~SendsPost(h, t, "card")
    BY <1>2, <1>3, Untried DEF SendInv
  <2> QED  BY <1>2, <2>1 DEF SendsPost
<1>10. Elsewhere(t, "card")
  <2> SUFFICES ASSUME NEW s \in Task, NEW k \in Kind, ~(s = t /\ k = "card") PROVE Same(s, k)
    BY DEF Elsewhere
  <2>1. cards'[s].state[k] = cards[s].state[k]
    BY <1>3
  <2>2. Shown(s, k)' = Shown(s, k) /\ \A h \in Callback : SendsPost(h, s, k)' => SendsPost(h, s, k) /\ click'[h] = click[h]
    BY <1>2 DEF Shown, SendsPost
  <2>3. \A q \in Request : SendsCard(q, s, k)' => SendsCard(q, s, k)
    BY <1>5, <1>6 DEF SendsCard
  <2> QED  BY <1>4, <2>1, <2>2, <2>3 DEF Same
<1>11. CellInv(t, "card")
  BY <1>2 DEF SendInv
<1> QED  BY <1>2, <1>3, <1>4, <1>8, <1>9, <1>10, <1>11, Marked

\* What a sender records was told by WeCom, or nothing is recorded.
LEMMA Recorded ==
  ASSUME NEW t \in Task, NEW k \in Kind, CellInv(t, k), cards[t].state[k] = "indeterminate",
         cards'[t].state[k] \in Sent,
         cards'[t].state[k] = "accepted" => Shown(t, k) = 1,
         cards'[t].state[k] = "rejected" => Shown(t, k) = 0 /\ \A p : ~Posted(p, t, k)',
         UNCHANGED shown, \A p : Posted(p, t, k)' => Posted(p, t, k),
         \A r \in Request : ~SendsCard(r, t, k)', \A h \in Callback : ~SendsPost(h, t, k)',
         Elsewhere(t, k)
  PROVE  Advances(t, k)
<1>1. Shown(t, k)' = Shown(t, k)
  BY DEF Shown
<1>2. \A p \in outbox' : Posted(p, t, k)' => cards'[t].state[k] = "indeterminate" /\ Shown(t, k)' = 0
  BY <1>1 DEF CellInv, Posted, Sent
<1>3. \A p, q \in outbox' : Posted(p, t, k)' /\ Posted(q, t, k)' => p = q
  BY DEF CellInv, Posted
<1>4. cards'[t].state[k] # "not_sent"
  BY DEF Sent
<1>5. CellInv(t, k)'
  BY <1>2, <1>3, <1>4 DEF CellInv
<1> QED  BY <1>1, <1>5 DEF Advances, CellStep

\* An attempt whose answer is known takes its own post back, or finds it gone.
LEMMA AnswerIsKnown ==
  ASSUME NEW t \in Task, NEW k \in Kind, CellInv(t, k), NEW p, p.task = t, p.kind = k,
         p \in outbox \/ Shown(t, k) = 1, NEW status, Answered(p, status)
  PROVE  /\ status = "accepted" => Shown(t, k) = 1
         /\ status = "rejected" => Shown(t, k) = 0 /\ \A q : ~Posted(q, t, k)'
         /\ status # "rejected" => outbox' = outbox
         /\ \A q : Posted(q, t, k)' => Posted(q, t, k)
         /\ \A s \in Task, j \in Kind : ~(s = t /\ j = k) => \A q : Posted(q, s, j)' <=> Posted(q, s, j)
<1>1. status = "rejected" => p \in outbox /\ outbox' = outbox \ {p}
  BY DEF Answered
<1>2. status # "rejected" => outbox' = outbox
  BY DEF Answered
<1>3. status = "rejected" => Posted(p, t, k)
  BY <1>1 DEF Posted
<1>4. status = "rejected" => Shown(t, k) = 0 /\ \A q : ~Posted(q, t, k)'
  BY <1>1, <1>3 DEF CellInv, Posted
<1>5. \A q : Posted(q, t, k)' => Posted(q, t, k)
  BY <1>1, <1>2 DEF Posted
<1>6. \A s \in Task, j \in Kind : ~(s = t /\ j = k) => \A q : Posted(q, s, j)' <=> Posted(q, s, j)
  BY <1>1, <1>2 DEF Posted
<1>7. status = "accepted" => Shown(t, k) = 1
  BY DEF Answered
<1> QED  BY <1>2, <1>4, <1>5, <1>6, <1>7

LEMMA NotifyMoves ==
  ASSUME BaseInv, SendInv, NEW r \in Request, NEW status \in Sent, NEW o, NotifyRecord(r, status, o)
  PROVE  \E t \in Task : Advances(t, "card")
<1>0. PICK t \in Task : t = sending[r] /\ Exists(t)
  BY DEF NotifyRecord, BaseInv, RefersInv
<1>1. /\ request[r].phase = "send" /\ Answered(CardPost(t), status) /\ Finish(r)
      /\ UNCHANGED cards \/ Written(t, "card", status)
      /\ UNCHANGED <<sending, click, shown>>
  BY <1>0 DEF NotifyRecord, CardPost, Written
<1>2. t \in Task /\ Exists(t) /\ "card" \in Kind
  BY <1>0 DEF Kind
<1>3. CellInv(t, "card") /\ SendsCard(r, t, "card")
  BY <1>0, <1>1, <1>2 DEF SendInv, SendsCard
<1>4. /\ cards[t].state["card"] = "indeterminate"
      /\ CardPost(t) \in outbox \/ Shown(t, "card") = 1
      /\ \A q \in Request : SendsCard(q, t, "card") => q = r
  BY <1>3 DEF CellInv
<1>5. \A s \in Task, k \in Kind :
        \/ cards'[s].state[k] = cards[s].state[k]
        \/ s = t /\ k = "card" /\ cards'[s].state[k] = status
  BY <1>1, <1>2, WrittenCards DEF BaseInv
<1>6. /\ request'[r].phase = "done"
      /\ \A q \in Request : q # r => request'[q] = request[q]
  BY <1>1, FinishType DEF Finish, BaseInv, StaffTypeOK
<1>7. \A q \in Request, s \in Task, k \in Kind : SendsCard(q, s, k)' => SendsCard(q, s, k) /\ q # r
  BY <1>1, <1>6 DEF SendsCard
<1>8. \A h \in Callback, s \in Task, k \in Kind :
        SendsPost(h, s, k)' => SendsPost(h, s, k) /\ click'[h] = click[h]
  BY <1>1 DEF SendsPost
<1>9. \A h \in Callback : ~SendsPost(h, t, "card")
  BY DEF SendsPost, BaseInv, StaffTypeOK
<1>10. CardPost(t).task = t /\ CardPost(t).kind = "card"
  BY DEF CardPost
<1>11. /\ status = "accepted" => Shown(t, "card") = 1
       /\ status = "rejected" => Shown(t, "card") = 0 /\ \A q : ~Posted(q, t, "card")'
       /\ \A q : Posted(q, t, "card")' => Posted(q, t, "card")
       /\ \A s \in Task, j \in Kind : ~(s = t /\ j = "card") =>
            \A q : Posted(q, s, j)' <=> Posted(q, s, j)
  BY <1>1, <1>2, <1>3, <1>4, <1>10, AnswerIsKnown
<1>12. \A s \in Task, k \in Kind : Shown(s, k)' = Shown(s, k)
  BY <1>1 DEF Shown
<1>13. Elsewhere(t, "card")
  <2> SUFFICES ASSUME NEW s \in Task, NEW k \in Kind, ~(s = t /\ k = "card") PROVE Same(s, k)
    BY DEF Elsewhere
  <2> QED  BY <1>5, <1>7, <1>8, <1>11, <1>12 DEF Same
<1>14. \/ cards'[t].state["card"] = status
       \/ cards'[t].state["card"] = "indeterminate"
  BY <1>2, <1>4, <1>5
<1>15. /\ cards'[t].state["card"] \in Sent
       /\ cards'[t].state["card"] = "accepted" => Shown(t, "card") = 1
       /\ cards'[t].state["card"] = "rejected" => Shown(t, "card") = 0 /\ \A q : ~Posted(q, t, "card")'
  BY <1>11, <1>14 DEF Sent
<1>16. \A q \in Request : ~SendsCard(q, t, "card")'
  <2> SUFFICES ASSUME NEW q \in Request, SendsCard(q, t, "card")' PROVE FALSE
    OBVIOUS
  <2> QED  BY <1>2, <1>4, <1>7
<1>17. \A h \in Callback : ~SendsPost(h, t, "card")'
  <2> SUFFICES ASSUME NEW h \in Callback, SendsPost(h, t, "card")' PROVE FALSE
    OBVIOUS
  <2> QED  BY <1>2, <1>8, <1>9
<1>18. Advances(t, "card")
  BY <1>1, <1>2, <1>3, <1>4, <1>11, <1>13, <1>15, <1>16, <1>17, Recorded
<1> QED  BY <1>2, <1>18

\* A click sends no card, and has a delivery of its own.
LEMMA ClickCell ==
  ASSUME BaseInv, NEW h \in Callback, click[h].phase # "idle"
  PROVE  \E t \in Task, k \in Kind :
           /\ t = click[h].task /\ k = click[h].kind /\ Exists(t) /\ k # "card"
           /\ \A r \in Request : ~SendsCard(r, t, k)
           /\ PostOf(h) = [task |-> t, kind |-> k, text |-> click[h].text]
BY ClickShapes DEF BaseInv, RefersInv, Kind, SendsCard, PostOf

\* A click at its own delivery changes no other.
LEMMA ClickElsewhere ==
  ASSUME BaseInv, NEW h \in Callback, NEW t \in Task, NEW k \in Kind,
         t = click[h].task, k = click[h].kind, Exists(t), UNCHANGED <<request, sending, shown>>,
         UNCHANGED cards \/ \E v \in Sent : Written(t, k, v),
         \A g \in Callback : g # h => click'[g] = click[g],
         click'[h].task = click[h].task, click'[h].kind = click[h].kind,
         \A s \in Task, j \in Kind : ~(s = t /\ j = k) => \A q : Posted(q, s, j)' <=> Posted(q, s, j)
  PROVE  Elsewhere(t, k)
<1> SUFFICES ASSUME NEW s \in Task, NEW j \in Kind, ~(s = t /\ j = k) PROVE Same(s, j)
  BY DEF Elsewhere
<1>1. cards'[s].state[j] = cards[s].state[j]
  BY WrittenCards DEF BaseInv
<1>2. Shown(s, j)' = Shown(s, j) /\ \A r \in Request : SendsCard(r, s, j)' => SendsCard(r, s, j)
  BY DEF Shown, SendsCard
<1>3. \A g \in Callback : SendsPost(g, s, j)' => SendsPost(g, s, j) /\ click'[g] = click[g]
  BY DEF SendsPost
<1> QED  BY <1>1, <1>2, <1>3 DEF Same

LEMMA MarkMoves ==
  ASSUME BaseInv, SendInv, NEW h \in Callback, NEW o, Mark(h, o), Unsent(h), o # "fails"
  PROVE  \E t \in Task, k \in Kind : Advances(t, k)
<1>1. PICK t \in Task, k \in Kind :
        /\ t = click[h].task /\ k = click[h].kind /\ Exists(t) /\ k # "card"
        /\ \A r \in Request : ~SendsCard(r, t, k)
        /\ PostOf(h) = [task |-> t, kind |-> k, text |-> click[h].text]
  BY ClickCell DEF Mark
<1> DEFINE x == [task |-> t, kind |-> k, text |-> click[h].text]
<1>2. /\ cards[t].state[k] = "not_sent" /\ Written(t, k, "indeterminate")
      /\ UNCHANGED <<request, sending, shown>> /\ click[h].phase = "mark"
      /\ o = "answers" => ClickPhase(h, "await") /\ outbox' = outbox \cup {x}
      /\ o # "answers" => AfterDelivery(h, o) /\ UNCHANGED outbox
  BY <1>1 DEF Mark, Unsent, SetState, Written, bvars
<1>3. cards'[t].state[k] = "indeterminate"
  BY <1>1, <1>2, WrittenCards DEF BaseInv, Sent
<1>4. PICK phase \in {"await", "read", "done"} :
        ClickPhase(h, phase) /\ (phase = "await" => o = "answers")
  BY <1>2 DEF AfterDelivery
<1>5. /\ \A g \in Callback : g # h => click'[g] = click[g]
      /\ click'[h].phase = phase /\ click'[h].task = click[h].task /\ click'[h].kind = click[h].kind
      /\ click'[h].text = click[h].text
  BY <1>2, <1>4, PhaseEffect DEF BaseInv
<1>6. /\ \A p : Posted(p, t, k)' => p = [task |-> t, kind |-> k, text |-> click'[h].text]
      /\ \A s \in Task, j \in Kind : ~(s = t /\ j = k) =>
           \A p : Posted(p, s, j)' <=> Posted(p, s, j)
      /\ o = "answers" => [task |-> t, kind |-> k, text |-> click'[h].text] \in outbox'
  <2>1. \A p : ~Posted(p, t, k)
    BY <1>2, Untried DEF SendInv
  <2>2. outbox' = IF o = "answers" THEN outbox \cup {x} ELSE outbox
    BY <1>2
  <2>3. x.task = t /\ x.kind = k /\ x = [task |-> t, kind |-> k, text |-> click'[h].text]
    BY <1>5
  <2> HIDE DEF x
  <2> QED  BY <2>1, <2>2, <2>3 DEF Posted
<1>7. \A g \in Callback : SendsPost(g, t, k)' => g = h /\ phase = "await"
  <2>1. \A g \in Callback : ~SendsPost(g, t, k)
    BY <1>2, Untried DEF SendInv
  <2> QED  BY <1>5, <2>1 DEF SendsPost
<1>8. \A r \in Request : ~SendsCard(r, t, k)'
  BY <1>1 DEF SendsCard
<1>9. Elsewhere(t, k)
  BY <1>1, <1>2, <1>5, <1>6, ClickElsewhere DEF Sent
<1>10. \A g \in Callback : SendsPost(g, t, k)' =>
         click'[g].phase = "await" /\ [task |-> t, kind |-> k, text |-> click'[g].text] \in outbox'
  BY <1>4, <1>5, <1>6, <1>7
<1>11. CellInv(t, k) /\ UNCHANGED shown
  BY <1>2 DEF SendInv
<1>12. Advances(t, k)
  <2> DEFINE y == [task |-> t, kind |-> k, text |-> click'[h].text]
  <2>1. \A p : Posted(p, t, k)' => p = y
    BY <1>6
  <2> HIDE DEF y
  <2> QED  BY <1>2, <1>3, <1>7, <1>8, <1>9, <1>10, <1>11, <2>1, Marked
<1> QED  BY <1>12

LEMMA AwaitMoves ==
  ASSUME BaseInv, SendInv, NEW h \in Callback, NEW status \in Sent, Await(h, status)
  PROVE  \E t \in Task, k \in Kind : Advances(t, k)
<1>1. PICK t \in Task, k \in Kind :
        /\ t = click[h].task /\ k = click[h].kind /\ Exists(t) /\ k # "card"
        /\ \A r \in Request : ~SendsCard(r, t, k)
        /\ PostOf(h) = [task |-> t, kind |-> k, text |-> click[h].text]
  BY ClickCell DEF Await
<1>2. /\ click[h].phase = "await" /\ Answered([task |-> t, kind |-> k, text |-> click[h].text], status)
      /\ UNCHANGED <<request, sending, cards, shown>>
  BY <1>1 DEF Await, bvars
<1>3. /\ \A g \in Callback : g # h => click'[g] = click[g]
      /\ click'[h].phase = "record" /\ click'[h].status = status
      /\ click'[h].task = click[h].task /\ click'[h].kind = click[h].kind
  BY AwaitEffect DEF BaseInv
<1>4. CellInv(t, k) /\ SendsPost(h, t, k)
  BY <1>1, <1>2 DEF SendInv, SendsPost
<1>5. /\ cards[t].state[k] = "indeterminate"
      /\ [task |-> t, kind |-> k, text |-> click[h].text] \in outbox \/ Shown(t, k) = 1
      /\ \A g \in Callback : SendsPost(g, t, k) => g = h
  BY <1>2, <1>4 DEF CellInv
<1>6. /\ status = "accepted" => Shown(t, k) = 1
      /\ status = "rejected" => Shown(t, k) = 0 /\ \A q : ~Posted(q, t, k)'
      /\ \A q : Posted(q, t, k)' => Posted(q, t, k)
      /\ \A s \in Task, j \in Kind : ~(s = t /\ j = k) => \A q : Posted(q, s, j)' <=> Posted(q, s, j)
  <2> DEFINE p == [task |-> t, kind |-> k, text |-> click[h].text]
  <2>1. p.task = t /\ p.kind = k /\ Answered(p, status) /\ (p \in outbox \/ Shown(t, k) = 1)
    BY <1>2, <1>5
  <2>2. \E x : x.task = t /\ x.kind = k /\ Answered(x, status) /\ (x \in outbox \/ Shown(t, k) = 1)
    BY <2>1
  <2> QED  BY <1>4, <2>2, AnswerIsKnown
<1>7. Elsewhere(t, k)
  BY <1>1, <1>2, <1>3, <1>6, ClickElsewhere
<1>8. \A g \in Callback : SendsPost(g, t, k)' => g = h
  BY <1>3, <1>5 DEF SendsPost
<1>9. \A r \in Request : ~SendsCard(r, t, k)'
  BY <1>1, <1>2 DEF SendsCard
<1>10. cards'[t].state[k] = "indeterminate" /\ Shown(t, k)' = Shown(t, k)
  BY <1>2, <1>5 DEF Shown
<1>11. \A p \in outbox' : Posted(p, t, k)' => Shown(t, k)' = 0
  BY <1>4, <1>6, <1>10 DEF CellInv, Posted
<1>12. \A p, q \in outbox' : Posted(p, t, k)' /\ Posted(q, t, k)' => p = q
  BY <1>4, <1>6 DEF CellInv, Posted
<1>13. \A g \in Callback : SendsPost(g, t, k)' =>
         /\ click'[g].phase = "record"
         /\ click'[g].status = "accepted" => Shown(t, k)' = 1
         /\ click'[g].status = "rejected" => Shown(t, k)' = 0 /\ \A p \in outbox' : ~Posted(p, t, k)'
  BY <1>3, <1>6, <1>8, <1>10
<1>14. CellInv(t, k)'
  BY <1>8, <1>9, <1>10, <1>11, <1>12, <1>13 DEF CellInv
<1>15. CellStep(t, k)
  BY <1>5, <1>10 DEF CellStep, Sent
<1> QED  BY <1>7, <1>14, <1>15 DEF Advances

LEMMA RecordMoves ==
  ASSUME BaseInv, SendInv, NEW h \in Callback, NEW o, Record(h, o)
  PROVE  \E t \in Task, k \in Kind : Advances(t, k)
<1>1. PICK t \in Task, k \in Kind :
        /\ t = click[h].task /\ k = click[h].kind /\ Exists(t) /\ k # "card"
        /\ \A r \in Request : ~SendsCard(r, t, k)
  BY ClickCell DEF Record
<1>2. PICK status \in Sent : status = click[h].status
  BY ClickShapes DEF Record, BaseInv
<1>3. /\ UNCHANGED cards \/ Written(t, k, status)
      /\ UNCHANGED <<request, sending, shown, outbox>> /\ click[h].phase = "record"
      /\ AfterDelivery(h, o)
  BY <1>1, <1>2 DEF Record, SetState, Written, bvars
<1>4. PICK phase \in {"read", "done"} : ClickPhase(h, phase)
  BY <1>3 DEF AfterDelivery
<1>5. /\ \A g \in Callback : g # h => click'[g] = click[g]
      /\ click'[h].phase = phase /\ click'[h].task = click[h].task /\ click'[h].kind = click[h].kind
  BY <1>3, <1>4, PhaseEffect DEF BaseInv
<1>6. CellInv(t, k) /\ SendsPost(h, t, k)
  BY <1>1, <1>3 DEF SendInv, SendsPost
<1>7. /\ cards[t].state[k] = "indeterminate"
      /\ status = "accepted" => Shown(t, k) = 1
      /\ status = "rejected" => Shown(t, k) = 0 /\ \A p \in outbox : ~Posted(p, t, k)
      /\ \A g \in Callback : SendsPost(g, t, k) => g = h
  BY <1>2, <1>3, <1>6 DEF CellInv
<1>8. \A p, s, j : Posted(p, s, j)' <=> Posted(p, s, j)
  BY <1>3 DEF Posted
<1>9. Elsewhere(t, k)
  BY <1>1, <1>3, <1>5, <1>8, ClickElsewhere
<1>10. \/ cards'[t].state[k] = "indeterminate"
       \/ cards'[t].state[k] = status
  BY <1>1, <1>3, <1>7, WrittenCards DEF BaseInv
<1>11. /\ cards'[t].state[k] \in Sent
       /\ cards'[t].state[k] = "accepted" => Shown(t, k) = 1
       /\ cards'[t].state[k] = "rejected" => Shown(t, k) = 0 /\ \A p : ~Posted(p, t, k)'
  BY <1>7, <1>8, <1>10 DEF Sent, Posted
<1>12. \A g \in Callback : ~SendsPost(g, t, k)'
  BY <1>5, <1>7 DEF SendsPost
<1>13. \A r \in Request : ~SendsCard(r, t, k)'
  BY <1>1, <1>3 DEF SendsCard
<1>14. Advances(t, k)
  BY <1>3, <1>6, <1>7, <1>8, <1>9, <1>11, <1>12, <1>13, Recorded
<1> QED  BY <1>14

LEMMA DeliverMoves ==
  ASSUME BaseInv, SendInv, WeComDelivers
  PROVE  \E t \in Task, k \in Kind : Advances(t, k)
<1>1. PICK p \in outbox :
        /\ outbox' = outbox \ {p} /\ UNCHANGED <<request, sending, cards, click>>
        /\ shown' = [shown EXCEPT ![p.task][p.kind] = Append(shown[p.task][p.kind], p.text)]
  BY DEF WeComDelivers, bvars
<1>2. PICK t \in Task, k \in Kind : t = p.task /\ k = p.kind /\ p.text \in Text
  BY DEF BaseInv, StaffTypeOK, Post
<1>3. /\ shown[t][k] \in Seq(Text)
      /\ shown'[t][k] = Append(shown[t][k], p.text)
      /\ \A s \in Task, j \in Kind : ~(s = t /\ j = k) => shown'[s][j] = shown[s][j]
  BY <1>1, <1>2 DEF BaseInv, StaffTypeOK
<1>4. CellInv(t, k) /\ Posted(p, t, k)
  BY <1>2 DEF SendInv, Posted
<1>5. /\ cards[t].state[k] = "indeterminate" /\ Shown(t, k) = 0
      /\ \A q \in outbox : Posted(q, t, k) => q = p
      /\ \A h \in Callback : SendsPost(h, t, k) /\ click[h].phase = "record" => click[h].status # "rejected"
      /\ \A g, h \in Callback : SendsPost(g, t, k) /\ SendsPost(h, t, k) => g = h
      /\ \A r, q \in Request : SendsCard(r, t, k) /\ SendsCard(q, t, k) => r = q
  BY <1>4 DEF CellInv
<1>6. cards'[t].state[k] = "indeterminate" /\ Shown(t, k)' = 1
  BY <1>1, <1>3, <1>5 DEF Shown
<1>7. \A q : ~Posted(q, t, k)'
  BY <1>1, <1>5 DEF Posted
<1>8. /\ \A r \in Request, s \in Task, j \in Kind : SendsCard(r, s, j)' <=> SendsCard(r, s, j)
      /\ \A h \in Callback, s \in Task, j \in Kind : SendsPost(h, s, j)' <=> SendsPost(h, s, j)
  BY <1>1 DEF SendsCard, SendsPost
<1>9. Elsewhere(t, k)
  <2> SUFFICES ASSUME NEW s \in Task, NEW j \in Kind, ~(s = t /\ j = k) PROVE Same(s, j)
    BY DEF Elsewhere
  <2>1. \A q : Posted(q, s, j)' <=> Posted(q, s, j)
    BY <1>1, <1>2 DEF Posted
  <2> QED  BY <1>1, <1>3, <1>8, <2>1 DEF Same, Shown
<1>10. CellInv(t, k)'
  BY <1>1, <1>5, <1>6, <1>7, <1>8 DEF CellInv
<1>11. CellStep(t, k)
  BY <1>5, <1>6 DEF CellStep
<1> QED  BY <1>9, <1>10, <1>11 DEF Advances

\* A step is nothing to the deliveries, or advances one of them.
LEMMA SendStep ==
  ASSUME BaseInv, SendInv, [StaffNext]_vars
  PROVE  \/ \A t \in Task, k \in Kind : Same(t, k)
         \/ \E t \in Task, k \in Kind : Advances(t, k)
<1>1. "card" \in Kind
  BY DEF Kind
<1> QED  BY <1>1, SendSteps, CalmIsSame, PrepareMoves, NotifyMoves, MarkMoves, AwaitMoves, RecordMoves, DeliverMoves

LEMMA SendInvStep == BaseInv /\ SendInv /\ [StaffNext]_vars => SendInv'
<1> SUFFICES ASSUME BaseInv, SendInv, [StaffNext]_vars PROVE SendInv'
  OBVIOUS
<1>1. \A s \in Task, j \in Kind : Same(s, j) => CellInv(s, j)'
  BY SameCell DEF SendInv
<1>2. CASE \A t \in Task, k \in Kind : Same(t, k)
  BY <1>1, <1>2 DEF SendInv
<1>3. ASSUME NEW t \in Task, NEW k \in Kind, Advances(t, k) PROVE SendInv'
  BY <1>1, <1>3 DEF Advances, Elsewhere, SendInv
<1> QED  BY <1>2, <1>3, SendStep

-----------------------------------------------------------------------------
(* The promise of MessageDelivery.                                          *)

Verdicts == [p \in Task \X Kind |-> Verdict(cards[p[1]].state[p[2]])]
Deliveries == [p \in Task \X Kind |-> Len(shown[p[1]][p[2]])]

LEMMA VerdictOf ==
  /\ Verdict("not_sent") = "unseen" /\ Verdict("unavailable") = "unseen"
  /\ Verdict("indeterminate") = "open"
  /\ Verdict("accepted") = "replied" /\ Verdict("rejected") = "unreplied"
BY DEF Verdict

LEMMA OneChanges ==
  ASSUME NEW S, NEW f, NEW g, NEW m \in S, f = [p \in S |-> f[p]], g = [p \in S |-> g[p]],
         \A p \in S \ {m} : g[p] = f[p]
  PROVE  g = [f EXCEPT ![m] = g[m]] /\ (g[m] = f[m] => g = f)
OBVIOUS

LEMMA DeliveryInit == StaffInit => Delivery!Init
<1> SUFFICES ASSUME StaffInit PROVE Delivery!Init
  OBVIOUS
<1>1. \A p \in Task \X Kind : cards[p[1]].state[p[2]] = "not_sent" /\ Len(shown[p[1]][p[2]]) = 0
  BY DEF StaffInit, NoCard
<1> QED  BY <1>1, VerdictOf DEF Delivery!Init

LEMMA SameVerdict ==
  ASSUME NEW t \in Task, NEW k \in Kind, Same(t, k)
  PROVE  Verdict(cards'[t].state[k]) = Verdict(cards[t].state[k]) /\ Len(shown'[t][k]) = Len(shown[t][k])
BY VerdictOf DEF Same, Shown

LEMMA DeliveryStep == BaseInv /\ SendInv /\ [StaffNext]_vars => [Delivery!Next]_<<Verdicts, Deliveries>>
<1> SUFFICES ASSUME BaseInv, SendInv, [StaffNext]_vars
             PROVE  [Delivery!Next]_<<Verdicts, Deliveries>>
  OBVIOUS
<1>1. CASE \A t \in Task, k \in Kind : Same(t, k)
  BY <1>1, SameVerdict DEF Verdicts, Deliveries
<1>2. ASSUME NEW t \in Task, NEW k \in Kind, CellStep(t, k), Elsewhere(t, k)
      PROVE  [Delivery!Next]_<<Verdicts, Deliveries>>
  <2> DEFINE m == <<t, k>>
             v == Verdict(cards'[t].state[k])
  <2>1. /\ m \in Task \X Kind /\ Verdicts[m] = Verdict(cards[t].state[k])
        /\ Deliveries[m] = Shown(t, k)
    BY DEF Verdicts, Deliveries, Shown
  <2>2. \A p \in (Task \X Kind) \ {m} :
          /\ Verdict(cards'[p[1]].state[p[2]]) = Verdict(cards[p[1]].state[p[2]])
          /\ Len(shown'[p[1]][p[2]]) = Len(shown[p[1]][p[2]])
    BY <1>2, SameVerdict DEF Elsewhere
  <2>3. Verdicts' = [Verdicts EXCEPT ![m] = v] /\ (v = Verdicts[m] => Verdicts' = Verdicts)
    <3>1. \A p \in (Task \X Kind) \ {m} : Verdicts'[p] = Verdicts[p]
      BY <2>2 DEF Verdicts
    <3>2. Verdicts'[m] = v
      BY <2>1 DEF Verdicts
    <3>3. /\ Verdicts = [p \in Task \X Kind |-> Verdicts[p]]
          /\ Verdicts' = [p \in Task \X Kind |-> Verdicts'[p]]
      BY DEF Verdicts
    <3> HIDE DEF m, v
    <3> QED  BY <2>1, <3>1, <3>2, <3>3, OneChanges
  <2>4. /\ Deliveries' = [Deliveries EXCEPT ![m] = Shown(t, k)']
        /\ Shown(t, k)' = Deliveries[m] => Deliveries' = Deliveries
    <3>1. \A p \in (Task \X Kind) \ {m} : Deliveries'[p] = Deliveries[p]
      BY <2>2 DEF Deliveries
    <3>2. Deliveries'[m] = Shown(t, k)'
      BY <2>1 DEF Deliveries, Shown
    <3>3. /\ Deliveries = [p \in Task \X Kind |-> Deliveries[p]]
          /\ Deliveries' = [p \in Task \X Kind |-> Deliveries'[p]]
      BY DEF Deliveries
    <3> HIDE DEF m
    <3> QED  BY <2>1, <3>1, <3>2, <3>3, OneChanges
  <2> HIDE DEF m
  <2>5. CASE cards[t].state[k] = "not_sent" /\ cards'[t].state[k] = "indeterminate"
    <3>1. Verdicts[m] = "unseen" /\ v = "open" /\ Shown(t, k)' = Deliveries[m]
      BY <1>2, <2>1, <2>5, VerdictOf DEF CellStep
    <3>2. Deliveries' = Deliveries
      BY <2>4, <3>1
    <3>3. Delivery!Claim(m)
      BY <2>3, <3>1, <3>2 DEF Delivery!Claim, Verdicts, Deliveries
    <3> QED  BY <2>1, <3>3 DEF Delivery!Next
  <2>6. CASE cards[t].state[k] = "indeterminate" /\ Shown(t, k)' = Shown(t, k)
    <3>1. Verdicts[m] = "open" /\ Deliveries' = Deliveries
      BY <2>1, <2>4, <2>6, VerdictOf
    <3>2. /\ cards'[t].state[k] \in Sent
          /\ cards'[t].state[k] = "accepted" => Deliveries[m] = 1
          /\ cards'[t].state[k] = "rejected" => Deliveries[m] = 0
      BY <1>2, <2>1, <2>6 DEF CellStep
    <3>3. CASE cards'[t].state[k] = "indeterminate"
      BY <2>3, <3>1, <3>3, VerdictOf
    <3>4. CASE cards'[t].state[k] # "indeterminate"
      <4>1. /\ v \in {"replied", "unreplied"}
            /\ v = "replied" => Deliveries[m] = 1
            /\ v = "unreplied" => Deliveries[m] = 0
        BY <3>2, <3>4, VerdictOf DEF Sent
      <4>2. Delivery!Record(m, v)
        BY <2>3, <3>1, <4>1 DEF Delivery!Record, Verdicts, Deliveries
      <4> QED  BY <2>1, <4>1, <4>2 DEF Delivery!Next, Delivery!Recorded
    <3> QED  BY <3>3, <3>4
  <2>7. CASE /\ cards[t].state[k] = "indeterminate" /\ cards'[t].state[k] = "indeterminate"
             /\ Shown(t, k) = 0 /\ Shown(t, k)' = 1
    <3>1. Verdicts' = Verdicts /\ Verdicts[m] = "open" /\ Deliveries[m] = 0
      BY <2>1, <2>3, <2>7, VerdictOf
    <3>2. Deliveries' = [Deliveries EXCEPT ![m] = 1]
      BY <2>4, <2>7
    <3>3. Delivery!Deliver(m)
      BY <3>1, <3>2 DEF Delivery!Deliver, Verdicts, Deliveries
    <3> QED  BY <2>1, <3>3 DEF Delivery!Next
  <2> QED  BY <1>2, <2>5, <2>6, <2>7 DEF CellStep
<1> QED  BY <1>1, <1>2, SendStep DEF Advances

\* A card, its feedback and the customer's message reach WeCom's users at most
\* once each, and "accepted" and "rejected" stay true of them, for any texts,
\* late or lost answers, failing statements and crashes.
THEOREM StaffKeepsDelivery == StaffSpec => DeliverySpec
BY BaseInit, BaseStep, SendInit, SendInvStep, DeliveryInit, DeliveryStep, PTL
   DEF StaffSpec, DeliverySpec, Delivery!Spec, Delivery!dvars, Verdicts, Deliveries

=============================================================================
