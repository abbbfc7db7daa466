---------------------------- MODULE StaffBooking ----------------------------
(***************************************************************************)
(* WeComStaffService (src/channels/wecom/staff.ts) over BookingIntents: a  *)
(* created booking sends a card to one member of staff; a click on it is a *)
(* callback that decides the booking in one transaction with its inbound   *)
(* claim, then updates the card and tells the customer.  The API requests  *)
(* of BookingIntents act on the same rows.  Every statement and network    *)
(* call after the commit is a step; all of them may fail.                  *)
(***************************************************************************)
EXTENDS BookingIntents, Sequences

CONSTANTS
  Task,        \* the ids notify draws
  Callback,    \* callback requests for clicks on cards
  StaffUser,   \* users of the Staff application
  Provisions   \* the user and member pairs an operator may bind

ASSUME StaffAssumption ==
  /\ Provisions \subseteq [user : StaffUser, member : Member]
  /\ StaffEnabled
  /\ None \notin Task
  /\ Task \cap Booking = {}

VARIABLES
  bindings,    \* channel_bindings of the Staff application: the member of a user
  sending,     \* the task a creation request is sending the card of
  cards,       \* wecom_staff_booking_notifications
  inbound,     \* the wecom_inbound_messages row staff-booking:<task>
  click,       \* the callbacks
  outbox,      \* requests WeCom has and has not acted on: a set of posts
  shown        \* what reached people: by task and kind, a sequence of texts

svars == <<bindings, sending, cards, inbound, click, outbox, shown>>
vars == <<bvars, svars>>

Kind == {"card", "feedback", "customer"}
Button == {"booking_confirm", "booking_cancel"}
Sent == {"accepted", "rejected", "indeterminate"}
Text == [status : Status \cup {"booking_intent_conflict"}, interval : Interval \cup {None}]

Card == [booking : Booking, binding : StaffUser, expected : Nat \ {0},
         state : [Kind -> Sent \cup {"not_sent", "unavailable"}]]
Inbound == [state : {"completed", "failed"}, button : Button]
Post == [task : Task, kind : Kind, text : Text]
Click == [phase : {"locked", "mark", "await", "record", "read", "done", "dead"},
          task : Task, button : Button, kind : Kind, text : Text, status : Sent]

NoCard == [booking |-> None, state |-> [k \in Kind |-> "not_sent"]]
NoInbound == [state |-> "absent"]
NoClick == [phase |-> "idle", kind |-> "feedback"]
NoText == [status |-> "cancelled", interval |-> None]
CardText == [status |-> "pending_confirmation", interval |-> None]

StaffInit ==
  /\ Init
  /\ bindings = [u \in StaffUser |-> None]
  /\ sending = [r \in Request |-> None]
  /\ cards = [t \in Task |-> NoCard]
  /\ inbound = [t \in Task |-> NoInbound]
  /\ click = [h \in Callback |-> NoClick]
  /\ outbox = {}
  /\ shown = [t \in Task |-> [k \in Kind |-> <<>>]]

-----------------------------------------------------------------------------
(* WeCom: it acts on a request at most once, possibly after the caller has *)
(* given up on it.                                                         *)

Exists(t) == cards[t] # NoCard

\* A user is bound once and for all, so this is also the member of the card's row.
MemberOf(t) == bindings[cards[t].binding]

\* handle holds the notification FOR UPDATE until its transaction ends.
Unlocked(t) == ~\E h \in Callback : click[h].phase = "locked" /\ click[h].task = t

WeComDelivers ==
  \E p \in outbox :
    /\ outbox' = outbox \ {p}
    /\ shown' = [shown EXCEPT ![p.task][p.kind] = Append(shown[p.task][p.kind], p.text)]
    /\ UNCHANGED <<bvars, bindings, sending, cards, inbound, click>>

\* How a posted request ends for its caller; "indeterminate" leaves it open.
Answered(p, status) ==
  /\ status = "accepted" => p \notin outbox
  /\ status = "rejected" => p \in outbox
  /\ outbox' = IF status = "rejected" THEN outbox \ {p} ELSE outbox

-----------------------------------------------------------------------------
(* provisionStaffBinding, run by an operator beside the server: a user that *)
(* is bound already keeps its binding (ON CONFLICT DO NOTHING).             *)

ProvisionStaffBinding(user, member) ==
  /\ bindings' = [bindings EXCEPT ![user] = IF @ = None THEN member ELSE @]
  /\ UNCHANGED <<bvars, sending, cards, inbound, click, outbox, shown>>

-----------------------------------------------------------------------------
(* notify: the rest of a creation request.                                 *)

\* The users bound to a manager who has one membership; a member may be bound twice.
Eligible == {u \in StaffUser : bindings[u] \in Managers \ extra}

\* The user the card may go to: the preferred member's, or else the only one.
Recipients(b) ==
  LET preferred == {u \in Eligible : bindings[u] = intents[b].draft.preferred}
      choice == IF preferred = {} THEN Eligible ELSE preferred
  IN  IF Cardinality(choice) = 1 THEN choice ELSE {}

Notifiable(r, b) ==
  /\ Current(request[r].member, request[r].role, "booking-intent:create")
  /\ intents[b].status = "pending_confirmation"
  /\ Recipients(b) # {}

\* UNIQUE (booking_id, expected_version, corp_id, application_id)
Notified(b) ==
  \E t \in Task : Exists(t) /\ cards[t].booking = b /\ cards[t].expected = intents[b].version

Finish(r) == request' = [request EXCEPT ![r].phase = "done"]

NewCard(b, u) ==
  [booking |-> b, binding |-> u, expected |-> intents[b].version,
   state |-> [k \in Kind |-> IF k = "card" THEN "indeterminate" ELSE "not_sent"]]

\* The transaction of notify; its answer is followed by sendCard.
NotifyPrepare(r, o) ==
  LET b == request[r].reply
  IN  /\ request[r].phase = "notify"
      /\ Notifiable(r, b) /\ ~Notified(b)
      /\ \E t \in Task, u \in Recipients(b) :
           /\ ~Exists(t)
           /\ IF o = "fails" THEN UNCHANGED cards ELSE cards' = [cards EXCEPT ![t] = NewCard(b, u)]
           /\ IF o = "answers"
                THEN /\ request' = [request EXCEPT ![r].phase = "send"]
                     /\ sending' = [sending EXCEPT ![r] = t]
                     /\ outbox' = outbox \cup {[task |-> t, kind |-> "card", text |-> CardText]}
                ELSE Finish(r) /\ UNCHANGED <<sending, outbox>>
      /\ UNCHANGED <<role, extra, intents, availability, decisions, bindings, inbound, click, shown>>

\* "unavailable" and "duplicate", and refusals, which the HTTP handler swallows.
NotifyNothing(r) ==
  /\ request[r].phase = "notify"
  /\ ~Notifiable(r, request[r].reply) \/ Notified(request[r].reply)
  /\ Finish(r)
  /\ UNCHANGED <<role, extra, intents, availability, decisions, svars>>

\* sendCard answers; the delivery state is recorded, or stays indeterminate.
NotifyRecord(r, status, o) ==
  LET t == sending[r]
  IN  /\ request[r].phase = "send"
      /\ Unlocked(t)
      /\ Answered([task |-> t, kind |-> "card", text |-> CardText], status)
      /\ IF o = "fails" THEN UNCHANGED cards
         ELSE cards' = [cards EXCEPT ![t].state["card"] = status]
      /\ Finish(r)
      /\ UNCHANGED <<role, extra, intents, availability, decisions, bindings, sending, inbound, click, shown>>

-----------------------------------------------------------------------------
(* handle: a click.                                                        *)

ClickPhase(h, phase) == click' = [click EXCEPT ![h].phase = phase]

\* Its transaction begins: the binding and the membership FOR SHARE, the
\* notification FOR UPDATE.
ClickLock(h, t, button) ==
  /\ click[h] = NoClick
  /\ shown[t]["card"] # <<>>
  /\ Unlocked(t)
  /\ click' = [click EXCEPT ![h] =
       [phase |-> IF cards[t].binding \in Eligible /\ cards[t].state["card"] # "rejected"
                    THEN "locked" ELSE "done",
        task |-> t, button |-> button, kind |-> "feedback", text |-> NoText, status |-> "indeterminate"]]
  /\ UNCHANGED <<bvars, bindings, sending, cards, inbound, outbox, shown>>

\* Mutant: the claim is committed on its own, before the transition.
CommittedAlone(claim, rest, o) == claim /\ (IF o = "fails" THEN UNCHANGED <<intents, decisions>> ELSE rest)

\* Claim, transition and terminal state of the claim in one transaction.
Committed(claim, rest, o) ==
  IF o = "fails" THEN UNCHANGED <<inbound, intents, decisions>> ELSE claim /\ rest

\* What a click on card t asks of transitionBookingIntent.
Asked(t, button) ==
  LET b == cards[t].booking
  IN  [kind |-> "transition", booking |-> b, expected |-> cards[t].expected,
       action |-> IF button = "booking_confirm" THEN "confirm" ELSE "cancel",
       interval |-> IF button = "booking_confirm" THEN intents[b].draft.requested ELSE None]

\* The card is still about the booking as it is.
UpToDate(t) ==
  LET row == intents[cards[t].booking]
  IN  row.version = cards[t].expected /\ row.status = "pending_confirmation"

ClaimAs(t, button, state) ==
  inbound' = [inbound EXCEPT ![t] = [state |-> state, button |-> button]]

\* A replay ("duplicate"), the other button of a used card (refused), and a
\* confirmation of a booking without times (invalid_request) change nothing;
\* nor does a click whose author "authorized" sees with a second membership,
\* which it may have missed in ClickDecide.
ClickNothing(h) ==
  LET t == click[h].task
  IN  /\ click[h].phase = "locked"
      /\ \/ inbound[t] # NoInbound
         \/ UpToDate(t) /\ ~Transitionable(MemberOf(t), Asked(t, click[h].button))
         \/ UpToDate(t) /\ MemberOf(t) \in extra
      /\ ClickPhase(h, "done")
      /\ UNCHANGED <<bvars, bindings, sending, cards, inbound, outbox, shown>>

\* Mutant: a transaction that failed is taken for committed.
AnswerAnyway(h, o, status) ==
  click' = [click EXCEPT ![h].phase = "mark", ![h].text = [status |-> status, interval |-> None]]

\* After the commit is answered, the feedback is next.
Answer(h, o, status) ==
  click' = [click EXCEPT ![h].phase = IF o = "answers" THEN "mark" ELSE "done",
                         ![h].text = [status |-> status, interval |-> None]]

ClickDecide(h, o) ==
  LET t == click[h].task
      c == Asked(t, click[h].button)
      m == MemberOf(t)
  IN  /\ click[h].phase = "locked"
      /\ inbound[t] = NoInbound
      /\ UpToDate(t) /\ Transitionable(m, c)
      /\ Committed(ClaimAs(t, click[h].button, "completed"), ApplyTransition(m, c, "card"), o)
      /\ Answer(h, o, Transitioned(intents[c.booking], c).status)
      /\ UNCHANGED <<role, extra, availability, request, bindings, sending, cards, outbox, shown>>

\* booking_intent_conflict: the claim is committed as failed.
ClickConflict(h, o) ==
  LET t == click[h].task
  IN  /\ click[h].phase = "locked"
      /\ inbound[t] = NoInbound
      /\ ~UpToDate(t)
      /\ Committed(ClaimAs(t, click[h].button, "failed"), UNCHANGED <<intents, decisions>>, o)
      /\ Answer(h, o, "booking_intent_conflict")
      /\ UNCHANGED <<role, extra, availability, request, bindings, sending, cards, outbox, shown>>

-----------------------------------------------------------------------------
(* After the commit: deliverOnce for the card, then for the customer.      *)

\* Mutant: a failure at the feedback ends the callback.
AfterFeedbackStops(h, o) ==
  IF click[h].kind = "feedback" /\ o = "answers" /\ click[h].text.status # "booking_intent_conflict"
    THEN ClickPhase(h, "read") ELSE ClickPhase(h, "done")

\* The customer is told whatever became of the feedback.
AfterDelivery(h, o) ==
  IF click[h].kind = "feedback" /\ click[h].text.status # "booking_intent_conflict"
    THEN ClickPhase(h, "read") ELSE ClickPhase(h, "done")

PostOf(h) == [task |-> click[h].task, kind |-> click[h].kind, text |-> click[h].text]

Unsent(h) == cards[click[h].task].state[click[h].kind] = "not_sent"

\* Mutant: an attempt without an answer is recorded as rejected.
SetStateGuessing(h, state) ==
  cards' = [cards EXCEPT ![click[h].task].state[click[h].kind] =
              IF click[h].phase = "record" /\ state = "indeterminate" THEN "rejected" ELSE state]

SetState(h, state) == cards' = [cards EXCEPT ![click[h].task].state[click[h].kind] = state]

\* UPDATE ... SET column='indeterminate' WHERE column='not_sent', then the call.
Mark(h, o) ==
  /\ click[h].phase = "mark"
  /\ Unlocked(click[h].task)
  /\ IF ~Unsent(h) THEN AfterDelivery(h, "answers") /\ UNCHANGED <<cards, outbox>>
     ELSE /\ IF o = "fails" THEN UNCHANGED cards ELSE SetState(h, "indeterminate")
          /\ IF o = "answers"
               THEN ClickPhase(h, "await") /\ outbox' = outbox \cup {PostOf(h)}
               ELSE AfterDelivery(h, o) /\ UNCHANGED outbox
  /\ UNCHANGED <<bvars, bindings, sending, inbound, shown>>

Await(h, status) ==
  /\ click[h].phase = "await"
  /\ Answered(PostOf(h), status)
  /\ click' = [click EXCEPT ![h].phase = "record", ![h].status = status]
  /\ UNCHANGED <<bvars, bindings, sending, cards, inbound, shown>>

Record(h, o) ==
  /\ click[h].phase = "record"
  /\ Unlocked(click[h].task)
  /\ IF o = "fails" THEN UNCHANGED cards ELSE SetState(h, click[h].status)
  /\ AfterDelivery(h, o)
  /\ UNCHANGED <<bvars, bindings, sending, inbound, outbox, shown>>

\* notifyCustomer finds the customer's active channel and what to say.
ReadCustomer(h) ==
  LET row == intents[cards[click[h].task].booking]
  IN  /\ click[h].phase = "read"
      /\ row.status \in {"confirmed", "cancelled"}
      /\ click' = [click EXCEPT ![h].phase = "mark", ![h].kind = "customer",
           ![h].text = [status |-> row.status,
                        interval |-> IF row.status = "confirmed" THEN row.confirmed ELSE None]]
      /\ UNCHANGED <<bvars, bindings, sending, cards, inbound, outbox, shown>>

\* No such channel, or the query fails: 'unavailable', or nothing at all.
NoCustomer(h, o) ==
  LET t == click[h].task
  IN  /\ click[h].phase = "read"
      /\ Unlocked(t)
      /\ IF o = "fails" \/ cards[t].state["customer"] # "not_sent" THEN UNCHANGED cards
         ELSE cards' = [cards EXCEPT ![t].state["customer"] = "unavailable"]
      /\ ClickPhase(h, "done")
      /\ UNCHANGED <<bvars, bindings, sending, inbound, outbox, shown>>

-----------------------------------------------------------------------------
\* Mutant: handle reads the membership without a lock.
ClickHoldersNone(m) == {}

\* The clicks that hold the membership of m FOR SHARE.
ClickHolders(m) ==
  {h \in Callback : click[h].phase = "locked" /\ MemberOf(click[h].task) = m}

StaffCrash ==
  /\ "process" \in Faulty
  /\ KillRequests
  /\ click' = [h \in Callback |-> IF click[h].phase \in {"idle", "done", "dead"} THEN click[h]
                                  ELSE [click[h] EXCEPT !.phase = "dead"]]
  /\ <<request, click>>' # <<request, click>>
  /\ UNCHANGED <<role, extra, intents, availability, decisions, bindings, sending, cards, inbound, outbox, shown>>

NotifyStep(r) ==
  \/ NotifyNothing(r)
  \/ \E o \in Outcome("card") :
       \/ NotifyPrepare(r, o)
       \/ \E status \in Sent : NotifyRecord(r, status, o)

ClickStep(h) ==
  \/ ClickNothing(h)
  \/ \E o \in Outcome("commit") : ClickDecide(h, o) \/ ClickConflict(h, o)
  \/ \E o \in Outcome(click[h].kind) : Mark(h, o) \/ Record(h, o)
  \/ \E status \in Sent : Await(h, status)
  \/ ReadCustomer(h)
  \/ \E o \in Outcome("customer") : NoCustomer(h, o)

StaffNext ==
  \/ \E r \in Request : RequestStep(r) /\ UNCHANGED svars
  \/ \E r \in Request : NotifyStep(r)
  \/ \E h \in Callback, t \in Task, button \in Button : ClickLock(h, t, button)
  \/ \E h \in Callback : ClickStep(h)
  \/ \E m \in Member, ro \in NewRole : ClickHolders(m) = {} /\ SetRole(m, ro) /\ UNCHANGED svars
  \/ \E m \in Mover : AddMembership(m) /\ UNCHANGED svars
  \/ \E p \in Provisions : ProvisionStaffBinding(p.user, p.member)
  \/ WeComDelivers
  \/ StaffCrash

StaffSpec == StaffInit /\ [][StaffNext]_vars

\* Each awaited statement and call of a callback ends.
StaffFairness == \A h \in Callback : WF_vars(ClickStep(h))
FairStaffSpec == StaffSpec /\ StaffFairness

-----------------------------------------------------------------------------
(* Properties.                                                             *)

\* "A task can be acted on once" and "Claim, transition and terminal record
\* commit together" (WECOM_STAFF_BOOKING_02A.md:11): a completed claim has its
\* transition, a transition its completed claim, and no booking is decided by
\* two clicks.
ByCard(t) == {d \in decisions : d.via = "card" /\ d.of = cards[t].booking}

CardDecidesOnce ==
  \A t \in Task : Exists(t) =>
    /\ Cardinality(ByCard(t)) <= 1
    /\ inbound[t].state = "completed" <=> ByCard(t) # {}
    /\ \A d \in ByCard(t) : d.by = MemberOf(t)
         /\ (d.action = "confirm") = (inbound[t].button = "booking_confirm")

\* What people are told stays true of the booking: an announced interval is the
\* agreed one, a cancellation happened, a card answered with a conflict decided
\* nothing (staff.ts 280-291 and 318-347).
Truthful(t, k, x) ==
  LET row == intents[cards[t].booking]
  IN  /\ x.status = "pending_confirmation" => k = "card"
      /\ x.status # "alternative_proposed"
      /\ x.status = "confirmed" => row.confirmed # None
      /\ x.status = "confirmed" /\ k = "customer" => x.interval = row.confirmed
      /\ x.status = "cancelled" => row.status = "cancelled"
      /\ x.status = "booking_intent_conflict" => inbound[t].state = "failed"

PeopleAreToldTheTruth ==
  \A t \in Task, k \in Kind : \A i \in DOMAIN shown[t][k] : Truthful(t, k, shown[t][k][i])

\* Cards, feedback and customer messages are each delivered at most once, and
\* accepted and rejected are facts (staff.ts 301-317, "No blind retry").
Verdict(state) ==
  CASE state = "accepted" -> "replied"
    [] state = "rejected" -> "unreplied"
    [] state = "indeterminate" -> "open"
    [] OTHER -> "unseen"

Delivery == INSTANCE MessageDelivery WITH
  Message <- Task \X Kind,
  verdict <- [p \in Task \X Kind |-> Verdict(cards[p[1]].state[p[2]])],
  deliveries <- [p \in Task \X Kind |-> Len(shown[p[1]][p[2]])]
DeliverySpec == Delivery!Spec

\* While the commit is answered, a failing feedback does not suppress the
\* customer's message: its state leaves "not_sent" ("persistence failure in one
\* cannot suppress the other", staff.ts 288).
DecisionIsReported ==
  \A t \in Task : inbound[t].state = "completed" ~> cards[t].state["customer"] # "not_sent"
=============================================================================
