-------------------------- MODULE ConsoleStoreOps --------------------------
(***************************************************************************)
(* The store operations console (web/src/storeops): people of one store,   *)
(* each with a console of their own, work on one booking of the list, one  *)
(* availability row and the booking form, and the server decides by        *)
(* version and idempotency key.  The session of a console and what a page  *)
(* does when it ends is ConsoleSession; here a console whose session the   *)
(* server refuses closes.  The transactions of the server, one step here,  *)
(* are BookingIntents.                                                     *)
(***************************************************************************)
EXTENDS Naturals, FiniteSets

CONSTANTS
  Person,
  InitialRoles,        \* the roles people may start with
  Creator,             \* who created the booking of the list
  Key, Draft,          \* idempotency keys; drafts of the booking form
  Focus,               \* bound: the sets of controls a behaviour may use
  NewRole,             \* bound: what an operator makes of a role
  MaxActs, MaxChanges, \* bounds: acts of people; renders, lapses and changes of role
  None

Role == {"agent", "supervisor", "admin"}
Status == {"pending_confirmation", "alternative_proposed", "confirmed", "cancelled"}
Action == {"confirm", "propose_alternative", "cancel"}
Control == {"row", "form", "editor"}

VARIABLES
  role,     \* the role of each person's membership
  signed,   \* the people whose session is still good
  booking,  \* the booking_intents row of the list: status and version
  avail,    \* the daily_availability row: version, and whose edits its windows hold
  opened,   \* the bookings the forms have created
  console,  \* the React state of each console, and its writes under way
  acts, changes, focus

vars == <<role, signed, booking, avail, opened, console, acts, changes, focus>>

-----------------------------------------------------------------------------
(* Authority, on either side.                                              *)

CapabilitiesForRole(r) ==
  {"storeops:read", "booking-intent:create"}
    \cup (IF r \in {"supervisor", "admin"} THEN {"availability:write", "booking-intent:manage"} ELSE {})
Can(r, capability) == capability \in CapabilitiesForRole(r)

\* What the console offers person p, who signed in as r, for a row it shows.
MayCancel(p, r, row) ==
  IF Can(r, "booking-intent:manage") THEN row.status \in {"pending_confirmation", "alternative_proposed", "confirmed"}
  ELSE row.status = "pending_confirmation" /\ Can(r, "booking-intent:create") /\ p = Creator

\* Mutant: a confirmed booking may be given an alternative.
PermittedEagerly(p, r, row) ==
  {a \in Action :
     \/ a # "cancel" /\ Can(r, "booking-intent:manage") /\ row.status # "cancelled"
     \/ a = "cancel" /\ MayCancel(p, r, row)}
PermittedBookingActions(p, r, row) ==
  {a \in Action :
     \/ /\ a = "confirm" /\ Can(r, "booking-intent:manage")
        /\ row.status \in {"pending_confirmation", "alternative_proposed"}
     \/ a = "propose_alternative" /\ Can(r, "booking-intent:manage") /\ row.status = "pending_confirmation"
     \/ a = "cancel" /\ MayCancel(p, r, row)}
BookingActionNeedsInterval(a, status) ==
  a = "propose_alternative" \/ (a = "confirm" /\ status = "pending_confirmation")

\* What the server makes of a transition: its route, transitionBookingIntent and
\* resolveTransition.
Resolvable(status, a, timed) ==
  \/ a = "cancel" /\ status # "cancelled"
  \/ a = "propose_alternative" /\ status = "pending_confirmation" /\ timed
  \/ a = "confirm" /\ status = "pending_confirmation" /\ timed
  \/ a = "confirm" /\ status = "alternative_proposed" /\ ~timed
TransitionReply(p, a, version, timed) ==
  LET manages == Can(role[p], "booking-intent:manage")
  IN  IF p \notin signed THEN "unauthenticated"
      ELSE IF a # "cancel" /\ ~manages THEN "forbidden"
      ELSE IF a = "cancel" /\ ~manages /\ (p # Creator \/ booking.status # "pending_confirmation") THEN "forbidden"
      ELSE IF version # booking.version \/ ~Resolvable(booking.status, a, timed) THEN "conflict" ELSE "success"
StatusAfter ==
  [cancel |-> "cancelled", confirm |-> "confirmed", propose_alternative |-> "alternative_proposed"]

-----------------------------------------------------------------------------
(* A console.                                                              *)

NoRow == [busy |-> FALSE, feedback |-> "idle", refused |-> 0]
NoEditor == [busy |-> FALSE, windows |-> {}]
\* A mounted console reads the views that hold the controls a behaviour uses.
Opening(r, controls) ==
  [open |-> TRUE, role |-> r,
   list |-> "loading", shown |-> [status |-> None, version |-> 0],
   reads |-> IF controls # {"editor"} THEN {"view"} ELSE {},
   newest |-> IF controls # {"editor"} THEN "view" ELSE None,
   row |-> NoRow, form |-> [busy |-> FALSE, draft |-> None, key |-> None, attempt |-> 0],
   board |-> IF "editor" \in controls THEN "loading" ELSE "unavailable", base |-> 0, editor |-> NoEditor, rereads |-> FALSE, writes |-> {}]

\* A write under way.  held: the submit lifecycle of its control still has its token.
Write(control) ==
  [control |-> control, held |-> TRUE, reply |-> None, action |-> None, version |-> 0, draft |-> None,
   key |-> None, attempt |-> 0, windows |-> {}]

\* The list leaves the screen and its rows unmount: their lifecycle is invalidated.
Unlisted(c, list) ==
  [c EXCEPT !.list = list, !.row = NoRow,
     !.reads = {IF by = "row" THEN "view" ELSE by : by \in IF c.newest = "row" THEN @ ELSE @ \ {"row"}},
     !.newest = IF @ = "row" THEN "view" ELSE @,
     !.writes = {IF w.control = "row" THEN [w EXCEPT !.held = FALSE] ELSE w : w \in @}]

\* reload(): only the newest read may show its list; a control that awaits an
\* earlier one is still released by it.
Reload(c, by) == [c EXCEPT !.reads = (@ \ {"view"}) \cup {by}, !.newest = by]

\* Another render hands the view a new actor: its effect shows "loading" and reads.
Rerendered(c) == Reload(Unlisted(c, "loading"), "view")

\* onSessionInvalidated: the whole console is unmounted.
Closed(c) == [Opening(c.role, {}) EXCEPT !.open = FALSE, !.reads = {}, !.newest = None]

Update(p, c) == console' = [console EXCEPT ![p] = c]
Server == <<role, signed, booking, avail, opened>>
Counters == <<acts, changes, focus>>

Init ==
  /\ role \in InitialRoles /\ signed = Person
  /\ booking = [status |-> "pending_confirmation", version |-> 1]
  /\ avail = [version |-> 1, windows |-> {}]
  /\ opened = {}
  /\ acts = 0 /\ changes = 0 /\ focus \in Focus
  /\ console = [p \in Person |-> Opening(role[p], focus)]

-----------------------------------------------------------------------------
(* What people do.                                                         *)

Acts(p, control) ==
  /\ acts < MaxActs /\ acts' = acts + 1 /\ control \in focus /\ console[p].open
  /\ UNCHANGED <<Server, changes, focus>>

\* runAction of a row: the version is the one the row shows.
RowAction(p, a) ==
  LET c == console[p]
  IN  /\ Acts(p, "row") /\ c.list = "ready" /\ ~c.row.busy
      /\ a \in PermittedBookingActions(p, c.role, c.shown)
      /\ Update(p, [c EXCEPT !.row = [busy |-> TRUE, feedback |-> "saving", refused |-> 0],
                      !.writes = @ \cup {[Write("row") EXCEPT !.action = a, !.version = c.shown.version,
                                            !.windows = IF BookingActionNeedsInterval(a, c.shown.status)
                                                          THEN {p} ELSE {}]}])

\* An interval that is none: the control says so, and nothing is sent.
Mistyped(p, a) ==
  LET c == console[p]
  IN  /\ Acts(p, "row") /\ c.list = "ready" /\ ~c.row.busy
      /\ a \in PermittedBookingActions(p, c.role, c.shown) /\ BookingActionNeedsInterval(a, c.shown.status)
      /\ Update(p, [c EXCEPT !.row = [busy |-> FALSE, feedback |-> "invalid", refused |-> 0]])

InUse == {b.key : b \in opened} \cup {console[p].form.key : p \in Person}
           \cup UNION {{w.key : w \in console[p].writes} : p \in Person}
NewKey == CHOOSE k \in Key : k \notin InUse

\* Mutant: every submission draws a key of its own.
SubmittedAnew(form, d) == [form EXCEPT !.busy = TRUE, !.draft = d, !.key = NewKey,
                             !.attempt = IF form.draft = d THEN @ ELSE @ + 1]
\* keyRef: the key stays while the draft does; attempt counts the drafts.
Submitted(form, d) ==
  IF form.draft = d THEN [form EXCEPT !.busy = TRUE]
  ELSE [form EXCEPT !.busy = TRUE, !.draft = d, !.key = NewKey, !.attempt = @ + 1]

CreateSubmit(p, d) ==
  LET c == console[p]
      form == Submitted(c.form, d)
  IN  /\ Acts(p, "form") /\ Can(c.role, "booking-intent:create") /\ ~c.form.busy
      /\ c.form.draft = d \/ \E k \in Key : k \notin InUse
      /\ Update(p, [c EXCEPT !.form = form,
                      !.writes = @ \cup {[Write("form") EXCEPT !.draft = d, !.key = form.key,
                                            !.attempt = form.attempt]}])

\* AvailabilityEditor.submit: the windows on screen, edited, with the version of
\* the row the board holds by now.
Save(p) ==
  LET c == console[p]
  IN  /\ Acts(p, "editor") /\ Can(c.role, "availability:write")
      /\ c.board = "ready" /\ ~c.editor.busy
      /\ Update(p, [c EXCEPT !.editor = [busy |-> TRUE, windows |-> @.windows \cup {p}],
                      !.writes = @ \cup {[Write("editor") EXCEPT !.version = c.base,
                                            !.windows = c.editor.windows \cup {p}]}])

-----------------------------------------------------------------------------
(* What the server does with a write.                                      *)

Reply(p, w, reply) ==
  Update(p, [console[p] EXCEPT !.writes = (@ \ {w}) \cup {[w EXCEPT !.reply = reply]}])
Serves(p, w, control) == w.reply = None /\ w.control = control /\ UNCHANGED <<role, signed, Counters>>

ServeTransition(p, w) ==
  LET reply == TransitionReply(p, w.action, w.version, w.windows # {})
  IN  /\ Serves(p, w, "row") /\ Reply(p, w, reply)
      /\ booking' = IF reply = "success"
                      THEN [status |-> StatusAfter[w.action], version |-> booking.version + 1] ELSE booking
      /\ UNCHANGED <<avail, opened>>

\* createBookingIntent: the key decides whether the row is there already.
ServeCreate(p, w) ==
  LET same == {b \in opened : b.key = w.key}
      mine == {b \in same : b.draft = w.draft /\ b.by = p}
      reply == IF p \notin signed THEN "unauthenticated"
               ELSE IF ~Can(role[p], "booking-intent:create") THEN "forbidden"
               ELSE IF same # mine THEN "conflict" ELSE "success"
  IN  /\ Serves(p, w, "form") /\ Reply(p, w, reply)
      /\ opened' = IF reply # "success" \/ same # {} THEN opened
                   ELSE opened \cup {[key |-> w.key, draft |-> w.draft, by |-> p, attempt |-> w.attempt]}
      /\ UNCHANGED <<booking, avail>>

ServeSave(p, w) ==
  LET reply == IF p \notin signed THEN "unauthenticated"
               ELSE IF ~Can(role[p], "availability:write") THEN "forbidden"
               ELSE IF w.version # avail.version THEN "conflict" ELSE "success"
  IN  /\ Serves(p, w, "editor") /\ Reply(p, w, reply)
      /\ avail' = IF reply = "success" THEN [version |-> avail.version + 1, windows |-> w.windows] ELSE avail
      /\ UNCHANGED <<booking, opened>>

-----------------------------------------------------------------------------
(* What the console does with the answers.                                 *)

Without(c, w) == [c EXCEPT !.writes = @ \ {w}]
Feedback(c, reply, version) ==
  [c EXCEPT !.row = [busy |-> FALSE, feedback |-> reply, refused |-> IF reply = "conflict" THEN version ELSE 0]]
\* keyRef is dropped once a booking is known to be recorded.
FormDone(c, reply) ==
  [c EXCEPT !.form = IF reply = "success" THEN [@ EXCEPT !.busy = FALSE, !.draft = None, !.key = None]
                     ELSE [@ EXCEPT !.busy = FALSE]]

\* Mutant: a conflict is reported without reloading.
ReloadsOnSuccess(reply) == reply = "success"
Reloads(reply) == reply \in {"success", "conflict"}

\* handleAction and the rest of runAction.
DeliverRow(p, w) ==
  LET c == Without(console[p], w)
      told == IF w.held THEN Feedback(c, w.reply, w.version) ELSE c
  IN  /\ w.control = "row" /\ w.reply # None
      /\ Update(p, CASE w.reply = "unauthenticated" -> Closed(c)
                     [] w.reply = "forbidden" -> Rerendered(c)
                     [] Reloads(w.reply) ->
                          IF w.held THEN Reload([told EXCEPT !.row.busy = TRUE], "row") ELSE Reload(c, "view")
                     [] OTHER -> told)
      /\ UNCHANGED <<Server, Counters>>

\* handleCreate and the rest of the form's submit.
DeliverForm(p, w) ==
  LET c == Without(console[p], w)
  IN  /\ w.control = "form" /\ w.reply # None
      /\ Update(p, CASE w.reply = "unauthenticated" -> Closed(c)
                     [] w.reply = "forbidden" -> Rerendered(FormDone(c, w.reply))
                     [] w.reply \in {"success", "conflict"} ->
                          Reload([c EXCEPT !.form = IF w.reply = "success"
                                                      THEN [FormDone(c, w.reply).form EXCEPT !.busy = TRUE] ELSE @], "form")
                     [] OTHER -> FormDone(c, w.reply))
      /\ UNCHANGED <<Server, Counters>>

\* handleSubmit of the board: success and conflict load the board again.
DeliverEditor(p, w) ==
  LET c == Without(console[p], w)
      released == [c EXCEPT !.editor.busy = FALSE]
  IN  /\ w.control = "editor" /\ w.reply # None
      /\ Update(p, CASE w.reply = "unauthenticated" -> Closed(c)
                     [] w.reply = "forbidden" -> Rerendered(released)
                     [] w.reply \in {"success", "conflict"} -> [c EXCEPT !.rereads = TRUE]
                     [] OTHER -> released)
      /\ UNCHANGED <<Server, Counters>>

\* The answer of a write is lost, or the write itself, or its body cannot be
\* verified: the control reports an error and nothing is loaded.
LoseWrite(p, w) ==
  LET c == Without(console[p], w)
  IN  /\ Update(p, CASE w.control = "row" -> IF w.held THEN Feedback(c, "error", 0) ELSE c
                     [] w.control = "form" -> FormDone(c, "error")
                     [] w.control = "editor" -> [c EXCEPT !.editor.busy = FALSE])
      /\ UNCHANGED <<Server, Counters>>

\* The control that awaits a read of the list is released whatever became of it.
Released(c, by) ==
  [c EXCEPT !.reads = @ \ {by}, !.newest = IF @ = by THEN None ELSE @,
            !.row.busy = @ /\ by # "row", !.form.busy = @ /\ by # "form"]

\* What the two reads of the server return of the rows of this store.
ListBookingIntents == booking
ListAvailability == avail

\* A list is read; unless another read has begun, it is shown.
DeliverList(p, by, ok) ==
  LET c == console[p]
      d == Released(c, by)
  IN  /\ by \in c.reads
      /\ Update(p, IF c.newest # by THEN d
                   ELSE IF p \notin signed THEN Closed(c)
                   ELSE IF ~ok THEN Unlisted(d, "unavailable")
                   ELSE [d EXCEPT !.list = "ready", !.shown = ListBookingIntents])
      /\ UNCHANGED <<Server, Counters>>

\* The board is read.  The editor keeps the windows it was mounted with; the
\* version it saves with is the one of the row the board shows now.  A failure
\* of the reload after a save is ignored, the end of the session included.
DeliverBoard(p, ok) ==
  LET c == console[p]
      read == ok /\ p \in signed
  IN  /\ c.open
      /\ \/ /\ c.board = "loading"
            /\ Update(p, IF p \notin signed THEN Closed(c)
                         ELSE IF ~ok THEN [c EXCEPT !.board = "unavailable"]
                         ELSE [c EXCEPT !.board = "ready", !.base = ListAvailability.version,
                                             !.editor.windows = ListAvailability.windows])
         \/ /\ c.rereads
            /\ Update(p, [c EXCEPT !.rereads = FALSE, !.editor.busy = FALSE,
                                   !.base = IF read THEN ListAvailability.version ELSE @])
      /\ UNCHANGED <<Server, Counters>>

-----------------------------------------------------------------------------
(* What else happens: the shell renders again, sessions lapse, roles change.*)

Changes == changes < MaxChanges /\ changes' = changes + 1 /\ UNCHANGED <<booking, avail, opened, acts, focus>>
Rerender(p) == Changes /\ console[p].open /\ Update(p, Rerendered(console[p])) /\ UNCHANGED <<role, signed>>
Lapse(p) == Changes /\ signed' = signed \ {p} /\ UNCHANGED <<role, console>>
SetRole(p, r) == Changes /\ role' = [role EXCEPT ![p] = r] /\ UNCHANGED <<signed, console>>

Answer(p) ==
  \/ \E w \in console[p].writes :
       \/ ServeTransition(p, w) \/ ServeCreate(p, w) \/ ServeSave(p, w)
       \/ DeliverRow(p, w) \/ DeliverForm(p, w) \/ DeliverEditor(p, w) \/ LoseWrite(p, w)
  \/ \E by \in Control \cup {"view"}, ok \in BOOLEAN : DeliverList(p, by, ok)
  \/ \E ok \in BOOLEAN : DeliverBoard(p, ok)

Next ==
  \E p \in Person :
    \/ \E a \in Action : RowAction(p, a) \/ Mistyped(p, a)
    \/ \E d \in Draft : CreateSubmit(p, d)
    \/ Save(p) \/ Answer(p) \/ Rerender(p) \/ Lapse(p)
    \/ \E r \in NewRole : SetRole(p, r)

\* What a console has asked for is answered or fails; people need not act.
Fairness == \A p \in Person : WF_vars(Answer(p))
Spec == Init /\ [][Next]_vars /\ Fairness

-----------------------------------------------------------------------------
(* Properties.                                                             *)

\* What a person asks for once is recorded once: submitting the same draft again
\* after an answer that was lost or an error never opens a second booking.
OneBookingPerAttempt ==
  \A b1, b2 \in opened : b1.by = b2.by /\ b1.attempt = b2.attempt => b1 = b2

\* The controls of a row are exactly those the server accepts when they are used,
\* as long as the version shown and the role of the page are still current.
OffersMatchServer ==
  \A p \in signed :
    LET c == console[p]
    IN  c.open /\ c.list = "ready" /\ c.shown = booking /\ c.role = role[p] =>
          PermittedBookingActions(p, c.role, c.shown) =
            {a \in Action :
               TransitionReply(p, a, c.shown.version, BookingActionNeedsInterval(a, c.shown.status)) = "success"}

\* A version the server has refused does not stay on screen: while a row shows it
\* beside the conflict, a read of the list that counts is under way, whatever other
\* reads, renders and answers came in between.
RefusedVersionGoes ==
  \A p \in Person :
    console[p].row.feedback = "conflict" /\ console[p].shown.version = console[p].row.refused
      => console[p].newest \in console[p].reads

\* ARCHITECTURE_CONTRACT.md:299 has a version conflict reload and not silently
\* retry or overwrite.  Nobody here takes windows away, so an edit once saved
\* stays.
EditsSurvive == [][avail.windows \subseteq avail'.windows]_vars
=============================================================================
