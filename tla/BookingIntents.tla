--------------------------- MODULE BookingIntents ---------------------------
(***************************************************************************)
(* StoreOpsService (src/storeops/postgres.ts) behind the storeOps HTTP     *)
(* handler: booking intents and daily availability of one store.  A        *)
(* request resolves its session into a context, then runs one transaction: *)
(* "authorized" reads the membership again and locks it FOR SHARE until    *)
(* the commit; the body reads the row it changes under its own lock, so    *)
(* that the body and the commit are one step.                              *)
(***************************************************************************)
EXTENDS Naturals, FiniteSets

CONSTANTS
  Member,        \* users, with the one membership each has in the store
  InitialRole,
  Booking, Interval, Slot,  \* Slot: (staff membership, local date) pairs
  Key,           \* Idempotency-Key values
  Draft,         \* parsed bodies of creations
  Command,       \* parsed mutations a client may send, members of CommandType
  Request,       \* HTTP requests
  NewRole,       \* bound: what an operator makes of a user
  Mover,         \* bound: the users an operator gives a second membership
  Faulty,        \* bound: the statements that may fail or lose their answer
  StaffEnabled,  \* options.wecomStaff is configured
  None

DraftType == [requested : Interval \cup {None}, preferred : Member \cup {None}]
CommandType ==
  [kind : {"create"}, key : Key, draft : Draft]
    \cup [kind : {"transition"}, booking : Booking, action : {"confirm", "propose_alternative", "cancel"},
          expected : Nat \ {0}, interval : Interval \cup {None}]
    \cup [kind : {"availability"}, slot : Slot, expected : Nat]

ASSUME BookingAssumption ==
  /\ InitialRole \in [Member -> {"agent", "supervisor", "admin"}]
  /\ Draft \subseteq DraftType
  /\ Command \subseteq CommandType
  /\ NewRole \subseteq {"agent", "supervisor", "admin"}
  /\ Mover \subseteq Member
  /\ StaffEnabled \in BOOLEAN
  /\ None \notin Member \cup Booking \cup Interval \cup Key \cup Command
  /\ Booking \cap ({"ok", "refused", "failed"} \cup Slot) = {}
  \* parseBookingTransition refuses the other combinations
  /\ \A c \in Command : c.kind = "transition" =>
       /\ c.action = "cancel" => c.interval = None
       /\ c.action = "propose_alternative" => c.interval # None

VARIABLES
  role,          \* the role of each user's membership in the store
  extra,         \* the users with a membership in another store, too
  intents,       \* booking_intents
  availability,  \* the version of each daily_availability row, 0 when there is none
  request,       \* the requests, with their context and reply
  decisions      \* history: the committed transitions and availability writes

bvars == <<role, extra, intents, availability, request, decisions>>

Role == {"agent", "supervisor", "admin"}
Status == {"pending_confirmation", "alternative_proposed", "confirmed", "cancelled"}
Intent == [key : Key, draft : Draft, creator : Member, status : Status, version : Nat \ {0},
           alternative : Interval \cup {None}, confirmed : Interval \cup {None}]
NoIntent == [status |-> "absent", version |-> 0, alternative |-> None, confirmed |-> None]
Idle == [phase |-> "idle", member |-> None, role |-> None, command |-> None, reply |-> None]
RequestRecord ==
  [phase : {"resolved", "authorized", "notify", "send", "done", "dead"}, member : Member,
   role : Role, command : Command, reply : Booking \cup {None, "ok", "refused", "failed"}]
Decision == [of : Booking \cup Slot, expected : Nat, version : Nat,
             action : {"confirm", "propose_alternative", "cancel", "write"}, by : Member,
             via : {"api", "card"}]

\* The rows, contexts and the history are well formed; the CHECK constraints of
\* booking_intents (migration 003) never have to refuse a row.
TypeOK ==
  /\ role \in [Member -> Role]
  /\ extra \subseteq Member
  /\ intents \in [Booking -> Intent \cup {NoIntent}]
  /\ \A b \in Booking :
       /\ intents[b].status = "alternative_proposed" => intents[b].alternative # None
       /\ intents[b].status = "confirmed" => intents[b].confirmed # None
  /\ availability \in [Slot -> Nat]
  /\ request \in [Request -> RequestRecord \cup {Idle}]
  /\ decisions \subseteq Decision

Init ==
  /\ role = InitialRole
  /\ extra = {}
  /\ intents = [b \in Booking |-> NoIntent]
  /\ availability = [s \in Slot |-> 0]
  /\ request = [r \in Request |-> Idle]
  /\ decisions = {}

Capabilities(ro) ==
  {"booking-intent:create"} \cup
  (IF ro = "agent" THEN {} ELSE {"availability:write", "booking-intent:manage"})

Managers == {m \in Member : "booking-intent:manage" \in Capabilities(role[m])}

Capability(c) ==
  IF c.kind = "availability" THEN "availability:write"
  ELSE IF c.kind = "transition" /\ c.action # "cancel" THEN "booking-intent:manage"
  ELSE "booking-intent:create"

\* A statement answers, takes effect although its answer is lost, or fails.
Outcome(statement) == {"answers"} \cup (IF statement \in Faulty THEN {"lost", "fails"} ELSE {})

-----------------------------------------------------------------------------
(* Session and authority.                                                  *)

\* authenticatedContext: the context carries the role of this moment.
Resolve(r, m, c) ==
  /\ request[r].phase = "idle"
  /\ m \notin extra
  /\ Capability(c) \in Capabilities(role[m])
  /\ request' = [request EXCEPT ![r] =
       [phase |-> "resolved", member |-> m, role |-> role[m], command |-> c, reply |-> None]]
  /\ UNCHANGED <<role, extra, intents, availability, decisions>>

Reply(r, phase, reply) == request' = [request EXCEPT ![r].phase = phase, ![r].reply = reply]

\* SELECT ... FROM memberships WHERE user_id FOR SHARE, and the checks on it.
Current(m, ro, capability) ==
  m \notin extra /\ role[m] = ro /\ capability \in Capabilities(role[m])

Authorize(r) ==
  /\ request[r].phase = "resolved"
  /\ IF Current(request[r].member, request[r].role, Capability(request[r].command))
       THEN Reply(r, "authorized", None) ELSE Reply(r, "done", "refused")
  /\ UNCHANGED <<role, extra, intents, availability, decisions>>

\* Mutant: "authorized" reads the membership without a lock.
HoldersNone(m) == {}

\* The transactions that hold the membership of m FOR SHARE.
Holders(m) == {r \in Request : request[r].phase = "authorized" /\ request[r].member = m}

\* An operator gives m another role: the UPDATE waits for the lock.
SetRole(m, ro) ==
  /\ Holders(m) = {}
  /\ role' = [role EXCEPT ![m] = ro]
  /\ UNCHANGED <<extra, intents, availability, request, decisions>>

\* An operator adds a membership in another store: no row lock stops an INSERT.
AddMembership(m) ==
  /\ m \notin extra
  /\ extra' = extra \cup {m}
  /\ UNCHANGED <<role, intents, availability, request, decisions>>

-----------------------------------------------------------------------------
(* The bodies of the transactions.                                         *)

Refuse(r) ==
  /\ Reply(r, "done", "refused")
  /\ UNCHANGED <<role, extra, intents, availability, decisions>>

\* The commit: nothing happens to the rows unless it takes effect.
Commit(r, o, phase, reply) ==
  IF o = "answers" THEN Reply(r, phase, reply) ELSE Reply(r, "done", "failed")

Decided(of, expected, version, action, m, via) ==
  decisions' = decisions \cup {[of |-> of, expected |-> expected, version |-> version,
                                action |-> action, by |-> m, via |-> via]}

\* Once created, the staff card is sent before the HTTP answer.
AfterCreate == IF StaffEnabled THEN "notify" ELSE "done"

Keyed(k) == {b \in Booking : intents[b] # NoIntent /\ intents[b].key = k}

\* Mutant: the request hash leaves out the creator.
SameRequestAnyone(row, m, c) == row.draft = c.draft

\* create_request_hash: the fields of the body and the creator.
SameRequest(row, m, c) == row.draft = c.draft /\ row.creator = m

CreateNew(r, b, o) ==
  LET m == request[r].member
      c == request[r].command
  IN  /\ Keyed(c.key) = {} /\ intents[b] = NoIntent
      /\ Commit(r, o, AfterCreate, b)
      /\ IF o = "fails" THEN UNCHANGED intents
         ELSE intents' = [intents EXCEPT ![b] =
                [key |-> c.key, draft |-> c.draft, creator |-> m, status |-> "pending_confirmation",
                 version |-> 1, alternative |-> None, confirmed |-> None]]
      /\ UNCHANGED <<role, extra, availability, decisions>>

\* ON CONFLICT DO NOTHING: the row of an earlier request with this key.
CreateAgain(r, b, o) ==
  /\ b \in Keyed(request[r].command.key)
  /\ IF SameRequest(intents[b], request[r].member, request[r].command)
       THEN Commit(r, o, AfterCreate, b) ELSE Reply(r, "done", "refused")
  /\ UNCHANGED <<role, extra, intents, availability, decisions>>

Create(r, o) ==
  /\ request[r].phase = "authorized"
  /\ request[r].command.kind = "create"
  /\ \E b \in Booking : CreateNew(r, b, o) \/ CreateAgain(r, b, o)

\* Mutant: a cancelled intent may be confirmed after all.
ResolvableCancelled(row, c) ==
  \/ c.action = "cancel" /\ row.status # "cancelled"
  \/ c.action = "propose_alternative" /\ row.status = "pending_confirmation"
  \/ c.action = "confirm" /\ row.status \in {"pending_confirmation", "cancelled"} /\ c.interval # None
  \/ c.action = "confirm" /\ row.status = "alternative_proposed" /\ c.interval = None

\* resolveTransition
Resolvable(row, c) ==
  \/ c.action = "cancel" /\ row.status # "cancelled"
  \/ c.action = "propose_alternative" /\ row.status = "pending_confirmation"
  \/ c.action = "confirm" /\ row.status = "pending_confirmation" /\ c.interval # None
  \/ c.action = "confirm" /\ row.status = "alternative_proposed" /\ c.interval = None

StatusAfter ==
  [cancel |-> "cancelled", confirm |-> "confirmed", propose_alternative |-> "alternative_proposed"]

Transitioned(row, c) ==
  [row EXCEPT
     !.version = row.version + 1,
     !.status = StatusAfter[c.action],
     !.alternative = IF c.action = "propose_alternative" THEN c.interval ELSE row.alternative,
     !.confirmed = IF c.action # "confirm" THEN row.confirmed
                   ELSE IF row.status = "alternative_proposed" THEN row.alternative ELSE c.interval]

\* Managers may cancel anything; others their own intent while it is pending.
MayCancel(m, row) ==
  m \in Managers \/ (row.creator = m /\ row.status = "pending_confirmation")

\* Mutant: the expected version is not compared.
TransitionableBlindly(m, c) ==
  LET row == intents[c.booking]
  IN  /\ row # NoIntent
      /\ c.action = "cancel" => MayCancel(m, row)
      /\ Resolvable(row, c)

Transitionable(m, c) ==
  LET row == intents[c.booking]
  IN  /\ row # NoIntent
      /\ c.action = "cancel" => MayCancel(m, row)
      /\ row.version = c.expected
      /\ Resolvable(row, c)

\* The UPDATE of transitionBookingIntent, in whichever transaction it runs.
ApplyTransition(m, c, via) ==
  LET row == intents[c.booking]
  IN  /\ intents' = [intents EXCEPT ![c.booking] = Transitioned(row, c)]
      /\ Decided(c.booking, c.expected, row.version + 1, c.action, m, via)

Transition(r, o) ==
  LET m == request[r].member
      c == request[r].command
  IN  /\ request[r].phase = "authorized"
      /\ c.kind = "transition"
      /\ IF ~Transitionable(m, c) THEN Refuse(r)
         ELSE /\ Commit(r, o, "done", "ok")
              /\ IF o = "fails" THEN UNCHANGED <<intents, decisions>> ELSE ApplyTransition(m, c, "api")
              /\ UNCHANGED <<role, extra, availability>>

\* INSERT for expectedVersion 0, UPDATE ... WHERE version = expectedVersion else.
PutAvailability(r, o) ==
  LET m == request[r].member
      c == request[r].command
      version == availability[c.slot]
  IN  /\ request[r].phase = "authorized"
      /\ c.kind = "availability"
      /\ IF version # c.expected THEN Refuse(r)
         ELSE /\ Commit(r, o, "done", "ok")
              /\ IF o = "fails" THEN UNCHANGED <<availability, decisions>>
                 ELSE /\ availability' = [availability EXCEPT ![c.slot] = version + 1]
                      /\ Decided(c.slot, c.expected, version + 1, "write", m, "api")
              /\ UNCHANGED <<role, extra, intents>>

\* The process dies: transactions are rolled back, their locks released.
InProcess(r) == request[r].phase \notin {"idle", "done", "dead"}

KillRequests ==
  request' = [r \in Request |->
    IF InProcess(r) THEN [request[r] EXCEPT !.phase = "dead"] ELSE request[r]]

Crash ==
  /\ "process" \in Faulty
  /\ \E r \in Request : InProcess(r)
  /\ KillRequests
  /\ UNCHANGED <<role, extra, intents, availability, decisions>>

-----------------------------------------------------------------------------
RequestStep(r) ==
  \/ \E m \in Member, c \in Command : Resolve(r, m, c)
  \/ Authorize(r)
  \/ \E o \in Outcome("commit") : Create(r, o) \/ Transition(r, o) \/ PutAvailability(r, o)

Next ==
  \/ \E r \in Request : RequestStep(r)
  \/ \E m \in Member, ro \in NewRole : SetRole(m, ro)
  \/ \E m \in Mover : AddMembership(m)
  \/ Crash

Spec == Init /\ [][Next]_bvars

-----------------------------------------------------------------------------
(* Properties.                                                             *)

\* Of two people who decide on the same version of a row, one is refused; and
\* every version but the first was made by a recorded decision on the one
\* before it (postgres.ts 134 and 249: UPDATE ... WHERE version=...).
NoLostUpdate ==
  /\ \A d, e \in decisions : d.of = e.of /\ d.expected = e.expected => d = e
  /\ \A b \in Booking : \A v \in 2..intents[b].version :
       \E d \in decisions : d.of = b /\ d.version = v /\ d.expected = v - 1
  /\ \A s \in Slot : \A v \in 1..availability[s] :
       \E d \in decisions : d.of = s /\ d.version = v /\ d.expected = v - 1

\* A retried creation finds the booking of its key, made by the same person
\* from the same fields, and opens no second one (postgres.ts 162-200).
KeyOpensOneBooking ==
  /\ \A b, c \in Booking : intents[b] # NoIntent /\ intents[c] # NoIntent
                             /\ intents[b].key = intents[c].key => b = c
  /\ \A r \in Request : request[r].reply \in Booking =>
       LET row == intents[request[r].reply]
       IN  /\ row # NoIntent
           /\ row.key = request[r].command.key /\ row.draft = request[r].command.draft
           /\ row.creator = request[r].member

\* A decision commits only while its author's role still allows it, however
\* the role changes between the session check and the commit ("a stale cookie
\* context cannot authorize a mutation", postgres.ts 63).
Entitled(d) ==
  \/ d.by \in Managers
  \/ /\ d.of \in Booking /\ d.action = "cancel"
     /\ intents[d.of].creator = d.by /\ intents[d.of].status = "pending_confirmation"

DecisionsHaveAuthority == [][\A d \in decisions' \ decisions : Entitled(d)]_bvars

\* Booking intents implement the contract's transition table.
Lifecycle == INSTANCE BookingLifecycle WITH life <-
  [b \in Booking |-> [status |-> intents[b].status, version |-> intents[b].version,
                      offered |-> intents[b].alternative, agreed |-> intents[b].confirmed]]
LifecycleSpec == Lifecycle!Spec
=============================================================================
