--------------------------- MODULE StoreOpsProofs ---------------------------
(* Proofs about the consoles of StoreOps for every set of people, drafts   *)
(* and keys, however writes, reads, renders and answers interleave.  What  *)
(* the server does alone is proved in StaffBookingProofs.                  *)
EXTENDS StoreOps, TLAPS

-----------------------------------------------------------------------------
(* The state of a console.                                                 *)

Feedbacks == {"idle", "saving", "invalid", "error", "success", "conflict"}
Replies == {"success", "conflict", "forbidden", "unauthenticated"}
Reader == Console!Control \cup {"view"}

Rows == [busy : BOOLEAN, feedback : Feedbacks, refused : Nat]
ShownRows == [status : Status \cup {None}, version : Nat]
Forms == [busy : BOOLEAN, draft : ConsoleDraft \cup {None}, key : ConsoleKey \cup {None}, attempt : Nat]
Editors == [busy : BOOLEAN, windows : SUBSET Person]
Writes ==
  [control : Console!Control, held : BOOLEAN, reply : Replies \cup {None}, action : Console!Action \cup {None},
   version : Nat, draft : ConsoleDraft \cup {None}, key : ConsoleKey \cup {None}, attempt : Nat,
   windows : SUBSET Person]
Consoles ==
  [open : BOOLEAN, role : Role, list : {"loading", "ready", "unavailable"}, shown : ShownRows,
   reads : SUBSET Reader, newest : Reader \cup {None}, row : Rows, form : Forms,
   board : {"loading", "ready", "unavailable"}, base : Nat, editor : Editors, rereads : BOOLEAN,
   writes : SUBSET Writes]
Bookings == [status : Status, version : Nat \ {0}]
Opened == [key : ConsoleKey, draft : ConsoleDraft, by : Person, attempt : Nat]

StoreOpsTypeOK ==
  /\ roleOf \in [Person -> Role] /\ signed \subseteq Person
  /\ booking \in Bookings
  /\ avail \in [version : Nat, windows : SUBSET Person]
  /\ opened \subseteq Opened
  /\ console \in [Person -> Consoles]

-----------------------------------------------------------------------------
(* The inductive invariants.                                               *)

\* A console shows no version of the future, and of the current one the truth; so
\* a transition it asked for is refused only for a version that is gone.
ShownOK(c, b) ==
  /\ c.shown.version <= b.version
  /\ c.shown.version = b.version => c.shown = b
RowWriteOK(w, b) ==
  /\ w.action \in Console!Action
  /\ w.reply = None => /\ w.version <= b.version
                       /\ w.version = b.version => Console!Resolvable(b.status, w.action, w.windows # {})
  /\ w.reply = "conflict" => w.version < b.version
RowWritesOK(c, b) == \A w \in c.writes : w.control = "row" => RowWriteOK(w, b)
ConflictOK(c, b) ==
  c.row.feedback = "conflict" =>
    /\ c.row.refused < b.version
    /\ c.shown.version = c.row.refused => c.newest \in c.reads

Fine(c, b) == c \in Consoles /\ ShownOK(c, b) /\ RowWritesOK(c, b) /\ ConflictOK(c, b)

\* What a person has asked for so far, as the form, its writes and the rows know it.
Ask(x) == [attempt |-> x.attempt, draft |-> x.draft, key |-> x.key]
Asks(p, c, o) ==
  {Ask(b) : b \in {x \in o : x.by = p}} \cup {Ask(w) : w \in {x \in c.writes : x.control = "form"}}
    \cup (IF c.form.draft = None THEN {} ELSE {Ask(c.form)})

\* An attempt has one draft and one key, and a key is of one attempt of one person.
AttemptInv ==
  /\ \A p \in Person : \A x, y \in Asks(p, console[p], opened) : x.attempt = y.attempt => x = y
  /\ \A p, q \in Person : \A x \in Asks(p, console[p], opened), y \in Asks(q, console[q], opened) :
       x.key = y.key => p = q /\ x.attempt = y.attempt
  /\ \A p \in Person : console[p].open =>
       \A x \in Asks(p, console[p], opened) : x.attempt <= console[p].form.attempt
  /\ \A p \in Person : \A x \in Asks(p, console[p], opened) : x.key \in ConsoleKey /\ x.draft \in ConsoleDraft

Inv ==
  /\ StoreOpsTypeOK
  /\ \A p \in Person : Fine(console[p], booking)
  /\ AttemptInv

-----------------------------------------------------------------------------
(* What the operations of a console preserve.                              *)

\* d is c without some of what c has asked for, and with nothing new.
AsksNoMore(c, d) ==
  /\ \A w \in d.writes : w.control = "form" => \E v \in c.writes : v.control = "form" /\ Ask(v) = Ask(w)
  /\ d.form.draft # None => c.form.draft # None /\ Ask(d.form) = Ask(c.form)
  /\ d.open => c.open /\ d.form.attempt = c.form.attempt

\* An operation keeps a console in order.
Keeps(c, d) == \A b \in Bookings : Fine(c, b) => Fine(d, b)
Tame(c, d) == d \in Consoles /\ AsksNoMore(c, d) /\ Keeps(c, d)

LEMMA TameTransitive ==
  ASSUME NEW c, NEW d, NEW e, Tame(c, d), Tame(d, e)
  PROVE  Tame(c, e)
<1>1. AsksNoMore(c, e)
  <2>1. \A w \in e.writes : w.control = "form" => \E v \in c.writes : v.control = "form" /\ Ask(v) = Ask(w)
    BY DEF Tame, AsksNoMore
  <2>2. e.form.draft # None => c.form.draft # None /\ Ask(e.form) = Ask(c.form)
    BY DEF Tame, AsksNoMore
  <2>3. e.open => c.open /\ e.form.attempt = c.form.attempt
    BY DEF Tame, AsksNoMore
  <2> QED  BY <2>1, <2>2, <2>3 DEF AsksNoMore
<1> QED  BY <1>1 DEF Tame, Keeps

\* The parts of a console that the invariants are about, except for its row.
LEMMA SameParts ==
  ASSUME NEW c \in Consoles, NEW d \in Consoles,
         d.shown = c.shown, d.writes \subseteq c.writes, d.form.attempt = c.form.attempt,
         d.form.draft # None => d.form.draft = c.form.draft /\ d.form.key = c.form.key,
         d.open => c.open,
         d.row.feedback = "conflict" =>
           /\ c.row.feedback = "conflict" /\ d.row.refused = c.row.refused
           /\ c.newest \in c.reads => d.newest \in d.reads
  PROVE  Tame(c, d)
<1>1. AsksNoMore(c, d)
  BY DEF AsksNoMore, Ask
<1>2. Keeps(c, d)
  BY DEF Keeps, Fine, ShownOK, RowWritesOK, ConflictOK
<1> QED  BY <1>1, <1>2 DEF Tame

LEMMA ConsoleFields ==
  ASSUME NEW c \in Consoles
  PROVE  /\ c.open \in BOOLEAN /\ c.role \in Role /\ c.shown \in ShownRows
         /\ c.reads \subseteq Reader /\ c.newest \in Reader \cup {None}
         /\ c.row \in Rows /\ c.form \in Forms /\ c.editor \in Editors /\ c.writes \subseteq Writes
         /\ c.list \in {"loading", "ready", "unavailable"} /\ c.board \in {"loading", "ready", "unavailable"}
         /\ c.base \in Nat /\ c.rereads \in BOOLEAN
BY DEF Consoles

LEMMA WithoutTame ==
  ASSUME NEW c \in Consoles, NEW w
  PROVE  /\ Tame(c, Console!Without(c, w))
         /\ Console!Without(c, w).row = c.row /\ Console!Without(c, w).form = c.form
         /\ Console!Without(c, w).shown = c.shown
         /\ Console!Without(c, w).writes = c.writes \ {w}
<1> DEFINE d == [c EXCEPT !.writes = @ \ {w}]
<1>1. c.writes \ {w} \subseteq Writes
  BY ConsoleFields
<1>2. d \in Consoles
  BY <1>1 DEF Consoles
<1>3. /\ d.row = c.row /\ d.form = c.form /\ d.shown = c.shown /\ d.reads = c.reads /\ d.newest = c.newest
      /\ d.open = c.open /\ d.editor = c.editor /\ d.writes = c.writes \ {w}
  BY DEF Consoles
<1>4. Console!Without(c, w) = d
  BY DEF Console!Without
<1> HIDE DEF d
<1>5. Tame(c, d)
  BY <1>2, <1>3, SameParts
<1> QED  BY <1>3, <1>4, <1>5

\* The list leaves the screen: its rows are idle and their writes are let go.
LEMMA UnlistedTame ==
  ASSUME NEW c \in Consoles, NEW list \in {"loading", "ready", "unavailable"}
  PROVE  /\ Tame(c, Console!Unlisted(c, list))
         /\ \A b \in Bookings : ShownOK(c, b) /\ RowWritesOK(c, b) => Fine(Console!Unlisted(c, list), b)
<1> DEFINE held(w) == IF w.control = "row" THEN [w EXCEPT !.held = FALSE] ELSE w
           reads == {IF by = "row" THEN "view" ELSE by : by \in IF c.newest = "row" THEN c.reads ELSE c.reads \ {"row"}}
           newest == IF c.newest = "row" THEN "view" ELSE c.newest
           writes == {held(w) : w \in c.writes}
           d == [c EXCEPT !.list = list, !.row = Console!NoRow, !.reads = reads, !.newest = newest, !.writes = writes]
<1>1. reads \subseteq Reader /\ newest \in Reader \cup {None} /\ Console!NoRow \in Rows
      /\ Console!NoRow.feedback = "idle"
  BY ConsoleFields DEF Reader, Console!NoRow, Rows, Feedbacks
<1>2. ASSUME NEW w \in c.writes
      PROVE  /\ held(w) \in Writes
             /\ held(w).control = w.control /\ held(w).reply = w.reply /\ held(w).action = w.action
             /\ held(w).version = w.version /\ held(w).windows = w.windows
             /\ held(w).attempt = w.attempt /\ held(w).draft = w.draft /\ held(w).key = w.key
  <2>1. w \in Writes
    BY ConsoleFields
  <2> QED  BY <2>1 DEF Writes
<1>3. Console!Unlisted(c, list) = d
  BY DEF Console!Unlisted, Consoles
<1> HIDE DEF held, reads, newest
<1>4. writes \subseteq Writes /\ \A x \in writes : \E w \in c.writes : x = held(w)
  BY <1>2
<1> HIDE DEF writes
<1>5. d \in Consoles
  BY <1>1, <1>4 DEF Consoles
<1>6. /\ d.row = Console!NoRow /\ d.form = c.form /\ d.shown = c.shown /\ d.open = c.open /\ d.writes = writes
  BY DEF Consoles
<1> HIDE DEF d
<1>7. AsksNoMore(c, d)
  BY <1>2, <1>4, <1>6 DEF AsksNoMore, Ask
<1>8. ASSUME NEW b \in Bookings, ShownOK(c, b), RowWritesOK(c, b) PROVE Fine(d, b)
  <2>1. RowWritesOK(d, b)
    <3>1. SUFFICES ASSUME NEW x \in writes, x.control = "row" PROVE RowWriteOK(x, b)
      BY <1>6 DEF RowWritesOK
    <3>2. PICK w \in c.writes : x = held(w)
      BY <1>4
    <3>3. RowWriteOK(w, b)
      BY <1>2, <1>8, <3>1, <3>2 DEF RowWritesOK
    <3> QED  BY <1>2, <3>2, <3>3 DEF RowWriteOK
  <2>2. ShownOK(d, b) /\ ConflictOK(d, b)
    BY <1>1, <1>6, <1>8 DEF ShownOK, ConflictOK
  <2> QED  BY <1>5, <2>1, <2>2 DEF Fine
<1> QED  BY <1>3, <1>5, <1>7, <1>8 DEF Tame, Keeps, Fine

\* The newest read is one that is under way.
LEMMA ReloadTame ==
  ASSUME NEW c \in Consoles, NEW by \in Reader
  PROVE  /\ Tame(c, Console!Reload(c, by))
         /\ Console!Reload(c, by).newest \in Console!Reload(c, by).reads
<1> DEFINE reads == (c.reads \ {"view"}) \cup {by}
           d == [c EXCEPT !.reads = reads, !.newest = by]
<1>1. reads \subseteq Reader /\ by \in reads
  BY ConsoleFields
<1>2. Console!Reload(c, by) = d
  BY DEF Console!Reload, Consoles
<1> HIDE DEF reads
<1>3. d \in Consoles
  BY <1>1 DEF Consoles
<1>4. d.row = c.row /\ d.form = c.form /\ d.shown = c.shown /\ d.open = c.open /\ d.writes = c.writes
      /\ d.reads = reads /\ d.newest = by
  BY DEF Consoles
<1> HIDE DEF d
<1>5. Tame(c, d)
  BY <1>1, <1>3, <1>4, SameParts
<1> QED  BY <1>1, <1>2, <1>4, <1>5

LEMMA RerenderedTame ==
  ASSUME NEW c \in Consoles
  PROVE  Tame(c, Console!Rerendered(c))
<1>1. Tame(c, Console!Unlisted(c, "loading"))
  BY UnlistedTame
<1>2. Tame(Console!Unlisted(c, "loading"), Console!Rerendered(c))
  BY <1>1, ReloadTame DEF Tame, Reader, Console!Rerendered
<1> QED  BY <1>1, <1>2, TameTransitive

LEMMA OpeningShape ==
  ASSUME NEW r \in Role, NEW controls \in SUBSET Console!Control
  PROVE  /\ Console!Opening(r, controls) \in Consoles
         /\ Console!Opening(r, controls).shown.version = 0
         /\ Console!Opening(r, controls).row.feedback = "idle"
         /\ Console!Opening(r, controls).writes = {}
         /\ Console!Opening(r, controls).form.draft = None
         /\ Console!Opening(r, controls).open = TRUE
<1> DEFINE c == Console!Opening(r, controls)
<1>1. /\ [status |-> None, version |-> 0] \in ShownRows
      /\ Console!NoRow \in Rows /\ Console!NoEditor \in Editors
      /\ [busy |-> FALSE, draft |-> None, key |-> None, attempt |-> 0] \in Forms
  BY DEF ShownRows, Console!NoRow, Rows, Feedbacks, Console!NoEditor, Editors, Forms
<1>2. c \in Consoles
  BY <1>1 DEF Consoles, Console!Opening, Reader
<1>3. c.shown.version = 0 /\ c.row.feedback = "idle" /\ c.writes = {} /\ c.form.draft = None /\ c.open = TRUE
  BY DEF Console!Opening, Console!NoRow
<1> QED  BY <1>2, <1>3

LEMMA ClosedTame ==
  ASSUME NEW c \in Consoles
  PROVE  Tame(c, Console!Closed(c))
<1> DEFINE o == Console!Opening(c.role, {})
           d == [o EXCEPT !.open = FALSE, !.reads = {}, !.newest = None]
<1>1. /\ o \in Consoles /\ o.shown.version = 0 /\ o.row.feedback = "idle"
      /\ o.writes = {} /\ o.form.draft = None
  <2>1. c.role \in Role /\ {} \in SUBSET Console!Control
    BY ConsoleFields
  <2> QED  BY <2>1, OpeningShape
<1>2. Console!Closed(c) = d
  BY DEF Console!Closed
<1> HIDE DEF o
<1>3. d \in Consoles
  BY <1>1 DEF Consoles
<1>4. /\ d.open = FALSE /\ d.shown = o.shown /\ d.row = o.row /\ d.writes = o.writes /\ d.form = o.form
  BY <1>1 DEF Consoles
<1> HIDE DEF d
<1>5. AsksNoMore(c, d)
  BY <1>1, <1>4 DEF AsksNoMore
<1>6. \A b \in Bookings : Fine(d, b)
  BY <1>1, <1>3, <1>4 DEF Fine, ShownOK, RowWritesOK, ConflictOK, Bookings
<1> QED  BY <1>2, <1>3, <1>5, <1>6 DEF Tame, Keeps

LEMMA FormDoneTame ==
  ASSUME NEW c \in Consoles, NEW reply
  PROVE  Tame(c, Console!FormDone(c, reply))
<1> DEFINE f == IF reply = "success" THEN [c.form EXCEPT !.busy = FALSE, !.draft = None, !.key = None]
                ELSE [c.form EXCEPT !.busy = FALSE]
           d == [c EXCEPT !.form = f]
<1>1. c.form \in Forms
  BY ConsoleFields
<1>2. /\ f \in Forms /\ f.attempt = c.form.attempt
      /\ f.draft # None => f.draft = c.form.draft /\ f.key = c.form.key
  BY <1>1 DEF Forms
<1>3. Console!FormDone(c, reply) = d
  BY DEF Console!FormDone, Consoles
<1> HIDE DEF f
<1>4. d \in Consoles
  BY <1>2 DEF Consoles
<1>5. d.row = c.row /\ d.form = f /\ d.shown = c.shown /\ d.open = c.open /\ d.writes = c.writes
      /\ d.reads = c.reads /\ d.newest = c.newest
  BY DEF Consoles
<1> HIDE DEF d
<1> QED  BY <1>2, <1>3, <1>4, <1>5, SameParts

\* A read that is not the newest leaves the newest.
LEMMA ReleasedTame ==
  ASSUME NEW c \in Consoles, NEW by
  PROVE  /\ Console!Released(c, by) \in Consoles
         /\ c.newest # by => Tame(c, Console!Released(c, by))
         /\ AsksNoMore(c, Console!Released(c, by))
         /\ Console!Released(c, by).writes = c.writes /\ Console!Released(c, by).shown = c.shown
         /\ Console!Released(c, by).row.refused = c.row.refused
         /\ Console!Released(c, by).row.feedback = c.row.feedback
<1> DEFINE r == [c.row EXCEPT !.busy = @ /\ by # "row"]
           f == [c.form EXCEPT !.busy = @ /\ by # "form"]
           reads == c.reads \ {by}
           newest == IF c.newest = by THEN None ELSE c.newest
           d == [c EXCEPT !.reads = reads, !.newest = newest, !.row = r, !.form = f]
<1>1. c.row \in Rows /\ c.form \in Forms /\ c.row.busy \in BOOLEAN /\ c.form.busy \in BOOLEAN
  BY ConsoleFields DEF Rows, Forms
<1>2. (c.row.busy /\ by # "row") \in BOOLEAN /\ (c.form.busy /\ by # "form") \in BOOLEAN
  OBVIOUS
<1>3. r \in Rows /\ r.refused = c.row.refused /\ r.feedback = c.row.feedback
  BY <1>1, <1>2 DEF Rows
<1>4. f \in Forms /\ f.attempt = c.form.attempt /\ f.draft = c.form.draft /\ f.key = c.form.key
  BY <1>1, <1>2 DEF Forms
<1>5. /\ reads \subseteq Reader /\ newest \in Reader \cup {None}
      /\ c.newest # by => newest = c.newest /\ (c.newest \in c.reads => c.newest \in reads)
  BY ConsoleFields
<1>6. Console!Released(c, by) = d
  BY DEF Console!Released, Consoles
<1> HIDE DEF r, f, reads, newest
<1>7. d \in Consoles
  BY <1>3, <1>4, <1>5 DEF Consoles
<1>8. d.row = r /\ d.form = f /\ d.shown = c.shown /\ d.open = c.open /\ d.writes = c.writes
      /\ d.reads = reads /\ d.newest = newest
  BY DEF Consoles
<1> HIDE DEF d
<1>9. c.newest # by => Tame(c, d)
  BY <1>3, <1>4, <1>5, <1>7, <1>8, SameParts
<1>10. AsksNoMore(c, d)
  BY <1>4, <1>8 DEF AsksNoMore, Ask
<1> QED  BY <1>3, <1>6, <1>7, <1>8, <1>9, <1>10

-----------------------------------------------------------------------------
(* From a console to all of them.                                          *)

\* A console that asks for nothing new changes nothing of the attempts.
LEMMA AsksShrink ==
  ASSUME NEW c, NEW d, NEW p, NEW o, AsksNoMore(c, d)
  PROVE  Asks(p, d, o) \subseteq Asks(p, c, o)
<1> SUFFICES ASSUME NEW x \in Asks(p, d, o) PROVE x \in Asks(p, c, o)
  OBVIOUS
<1>1. CASE x \in {Ask(b) : b \in {y \in o : y.by = p}}
  BY <1>1 DEF Asks
<1>2. CASE x \in {Ask(w) : w \in {y \in d.writes : y.control = "form"}}
  <2>1. PICK w \in d.writes : w.control = "form" /\ x = Ask(w)
    BY <1>2
  <2>2. PICK v \in c.writes : v.control = "form" /\ Ask(v) = x
    BY <2>1 DEF AsksNoMore
  <2> QED  BY <2>2 DEF Asks
<1>3. CASE d.form.draft # None /\ x = Ask(d.form)
  BY <1>3 DEF AsksNoMore, Asks
<1> QED  BY <1>1, <1>2, <1>3 DEF Asks

LEMMA AttemptKept ==
  ASSUME AttemptInv,
         \A q \in Person : /\ Asks(q, console'[q], opened') \subseteq Asks(q, console[q], opened)
                           /\ console'[q].open => console[q].open
                                                  /\ console'[q].form.attempt = console[q].form.attempt
  PROVE  AttemptInv'
<1>1. ASSUME NEW p \in Person, NEW x \in Asks(p, console'[p], opened')
      PROVE  /\ x \in Asks(p, console[p], opened)
             /\ x.key \in ConsoleKey /\ x.draft \in ConsoleDraft
             /\ \A y \in Asks(p, console'[p], opened') : x.attempt = y.attempt => x = y
             /\ console'[p].open => x.attempt <= console'[p].form.attempt
  BY <1>1 DEF AttemptInv
<1>2. ASSUME NEW p \in Person, NEW q \in Person,
             NEW x \in Asks(p, console'[p], opened'), NEW y \in Asks(q, console'[q], opened'), x.key = y.key
      PROVE  p = q /\ x.attempt = y.attempt
  BY <1>1, <1>2 DEF AttemptInv
<1> QED  BY <1>1, <1>2 DEF AttemptInv

LEMMA UpdateKeepsInv ==
  ASSUME Inv, NEW p \in Person, NEW d,
         console' = [console EXCEPT ![p] = d], Fine(d, booking), AsksNoMore(console[p], d),
         UNCHANGED <<roleOf, signed, booking, avail, opened>>
  PROVE  Inv'
<1>1. d \in Consoles /\ StoreOpsTypeOK'
  BY DEF Inv, Fine, StoreOpsTypeOK
<1>2. \A q \in Person : console'[q] = IF q = p THEN d ELSE console[q]
  BY DEF Inv, StoreOpsTypeOK
<1>3. \A q \in Person : Fine(console'[q], booking')
  BY <1>2 DEF Inv
<1>4. AttemptInv'
  <2>1. ASSUME NEW q \in Person
        PROVE  /\ Asks(q, console'[q], opened') \subseteq Asks(q, console[q], opened)
               /\ console'[q].open => console[q].open /\ console'[q].form.attempt = console[q].form.attempt
    <3>1. CASE q = p
      BY <1>2, <3>1, AsksShrink DEF AsksNoMore
    <3>2. CASE q # p
      BY <1>2, <3>2
    <3> QED  BY <3>1, <3>2
  <2> QED  BY <2>1, AttemptKept DEF Inv
<1> QED  BY <1>1, <1>3, <1>4 DEF Inv

LEMMA TameKeepsInv ==
  ASSUME Inv, NEW p \in Person, NEW d,
         console' = [console EXCEPT ![p] = d], Tame(console[p], d),
         UNCHANGED <<roleOf, signed, booking, avail, opened>>
  PROVE  Inv'
<1>1. Fine(d, booking) /\ AsksNoMore(console[p], d)
  BY DEF Tame, Keeps, Inv, StoreOpsTypeOK
<1> QED  BY <1>1, UpdateKeepsInv

-----------------------------------------------------------------------------
(* What people do.                                                         *)

\* What a console offers, the server resolves.
LEMMA OfferedResolves ==
  ASSUME NEW p, NEW r, NEW row, NEW a, a \in Console!PermittedBookingActions(p, r, row)
  PROVE  Console!Resolvable(row.status, a, Console!BookingActionNeedsInterval(a, row.status))
BY DEF Console!PermittedBookingActions, Console!MayCancel, Console!Resolvable,
       Console!BookingActionNeedsInterval, Console!Action

LEMMA RowActionStep ==
  ASSUME Inv, NEW p \in Person, NEW a \in Console!Action, Console!RowAction(p, a)
  PROVE  Inv'
<1> DEFINE c == console[p]
           timed == Console!BookingActionNeedsInterval(a, c.shown.status)
           windows == IF timed THEN {p} ELSE {}
           n == [Console!Write("row") EXCEPT !.action = a, !.version = c.shown.version, !.windows = windows]
           r == [busy |-> TRUE, feedback |-> "saving", refused |-> 0]
           d == [c EXCEPT !.row = r, !.writes = @ \cup {n}]
<1>1. /\ a \in Console!PermittedBookingActions(p, c.role, c.shown)
      /\ console' = [console EXCEPT ![p] = d]
      /\ UNCHANGED <<roleOf, signed, booking, avail, opened>>
  BY DEF Console!RowAction, Console!Acts, Console!Update, Console!Server
<1>2. c \in Consoles /\ Fine(c, booking)
  BY DEF Inv, StoreOpsTypeOK
<1>3. c.shown \in ShownRows /\ c.shown.version \in Nat /\ c.writes \subseteq Writes
  BY <1>2, ConsoleFields DEF ShownRows
<1>4. windows \subseteq Person /\ (windows # {} <=> timed)
  OBVIOUS
<1> HIDE DEF windows
<1>5. /\ n \in Writes /\ n.control = "row" /\ n.action = a /\ n.reply = None
      /\ n.version = c.shown.version /\ n.windows = windows
  BY <1>3, <1>4 DEF Console!Write, Writes, Console!Control
<1> HIDE DEF n
<1>6. r \in Rows /\ r.feedback # "conflict"
  BY DEF Rows, Feedbacks
<1> HIDE DEF r
<1>7. d \in Consoles
  BY <1>2, <1>3, <1>5, <1>6 DEF Consoles
<1>8. /\ d.row = r /\ d.form = c.form /\ d.shown = c.shown /\ d.open = c.open
      /\ d.writes = c.writes \cup {n}
  BY <1>2 DEF Consoles
<1>9. RowWriteOK(n, booking)
  <2>1. c.shown.version <= booking.version /\ (c.shown.version = booking.version => c.shown = booking)
    BY <1>2 DEF Fine, ShownOK
  <2>2. Console!Resolvable(c.shown.status, a, timed)
    BY <1>1, OfferedResolves
  <2>3. None # "conflict"
    BY ConsoleAssumption
  <2>4. timed \in BOOLEAN /\ (windows # {}) \in BOOLEAN
    BY DEF Console!BookingActionNeedsInterval
  <2> HIDE DEF c, timed
  <2>5. (windows # {}) = timed
    BY <1>4, <2>4
  <2> QED  BY <1>5, <2>1, <2>2, <2>3, <2>5 DEF RowWriteOK
<1> HIDE DEF d
<1>10. Fine(d, booking)
  BY <1>2, <1>6, <1>7, <1>8, <1>9 DEF Fine, ShownOK, RowWritesOK, ConflictOK
<1>11. AsksNoMore(c, d)
  BY <1>5, <1>8 DEF AsksNoMore
<1> QED  BY <1>1, <1>10, <1>11, UpdateKeepsInv

LEMMA MistypedStep ==
  ASSUME Inv, NEW p \in Person, NEW a \in Console!Action, Console!Mistyped(p, a)
  PROVE  Inv'
<1> DEFINE c == console[p]
           r == [busy |-> FALSE, feedback |-> "invalid", refused |-> 0]
           d == [c EXCEPT !.row = r]
<1>1. /\ console' = [console EXCEPT ![p] = d]
      /\ UNCHANGED <<roleOf, signed, booking, avail, opened>>
  BY DEF Console!Mistyped, Console!Acts, Console!Update, Console!Server
<1>2. c \in Consoles
  BY DEF Inv, StoreOpsTypeOK
<1>3. r \in Rows /\ r.feedback # "conflict"
  BY DEF Rows, Feedbacks
<1> HIDE DEF r
<1>4. d \in Consoles
  BY <1>2, <1>3 DEF Consoles
<1>5. d.row = r /\ d.form = c.form /\ d.shown = c.shown /\ d.open = c.open /\ d.writes = c.writes
  BY <1>2 DEF Consoles
<1> HIDE DEF d
<1>6. Tame(c, d)
  BY <1>2, <1>3, <1>4, <1>5, SameParts
<1> QED  BY <1>1, <1>6, TameKeepsInv

LEMMA SaveStep ==
  ASSUME Inv, NEW p \in Person, Console!Save(p)
  PROVE  Inv'
<1> DEFINE c == console[p]
           windows == c.editor.windows \cup {p}
           n == [Console!Write("editor") EXCEPT !.version = c.base, !.windows = windows]
           e == [busy |-> TRUE, windows |-> windows]
           d == [c EXCEPT !.editor = e, !.writes = @ \cup {n}]
<1>1. c \in Consoles /\ Fine(c, booking)
  BY DEF Inv, StoreOpsTypeOK
<1>2. /\ console' = [console EXCEPT ![p] = d]
      /\ UNCHANGED <<roleOf, signed, booking, avail, opened>>
  BY <1>1 DEF Console!Save, Console!Acts, Console!Update, Console!Server, Consoles
<1>3. c.base \in Nat /\ windows \subseteq Person /\ c.writes \subseteq Writes
  BY <1>1, ConsoleFields DEF Editors
<1> HIDE DEF windows
<1>4. n \in Writes /\ n.control = "editor"
  BY <1>3 DEF Console!Write, Writes, Console!Control
<1>5. e \in Editors
  BY <1>3 DEF Editors
<1> HIDE DEF n, e
<1>6. d \in Consoles
  BY <1>1, <1>3, <1>4, <1>5 DEF Consoles
<1>7. /\ d.row = c.row /\ d.form = c.form /\ d.shown = c.shown /\ d.open = c.open
      /\ d.newest = c.newest /\ d.reads = c.reads /\ d.writes = c.writes \cup {n}
  BY <1>1 DEF Consoles
<1> HIDE DEF d
<1>8. Fine(d, booking)
  BY <1>1, <1>4, <1>6, <1>7 DEF Fine, ShownOK, RowWritesOK, ConflictOK
<1>9. AsksNoMore(c, d)
  BY <1>4, <1>7 DEF AsksNoMore
<1> QED  BY <1>2, <1>8, <1>9, UpdateKeepsInv

\* Every ask has a number, and a key in use.
LEMMA AsksInUse ==
  ASSUME StoreOpsTypeOK, NEW q \in Person, NEW x \in Asks(q, console[q], opened)
  PROVE  x.attempt \in Nat /\ x.key \in Console!InUse
<1> DEFINE c == console[q]
<1>0. c \in Consoles /\ c.writes \subseteq Writes /\ c.form \in Forms
  BY ConsoleFields DEF StoreOpsTypeOK
<1>1. CASE x \in {Ask(b) : b \in {y \in opened : y.by = q}}
  <2>1. PICK b \in opened : x = Ask(b)
    BY <1>1
  <2> QED  BY <2>1 DEF Ask, StoreOpsTypeOK, Opened, Console!InUse
<1>2. CASE x \in {Ask(w) : w \in {y \in c.writes : y.control = "form"}}
  <2>1. PICK w \in c.writes : x = Ask(w)
    BY <1>2
  <2>2. w.attempt \in Nat
    BY <1>0 DEF Writes
  <2>3. w.key \in {v.key : v \in console[q].writes}
    OBVIOUS
  <2> QED  BY <2>1, <2>2, <2>3 DEF Ask, Console!InUse
<1>3. CASE x = Ask(c.form)
  BY <1>0, <1>3 DEF Ask, Forms, Console!InUse
<1> QED  BY <1>1, <1>2, <1>3 DEF Asks

\* An ask with a new number and a new key.
LEMMA NewAttempt ==
  ASSUME Inv, NEW p \in Person, NEW x, console[p].open,
         x = Ask(x), x.key \in ConsoleKey, x.key \notin Console!InUse, x.draft \in ConsoleDraft,
         x.attempt = console[p].form.attempt + 1, console'[p].form.attempt = x.attempt,
         opened' = opened, \A q \in Person : q # p => console'[q] = console[q],
         Asks(p, console'[p], opened) \subseteq Asks(p, console[p], opened) \cup {x}
  PROVE  AttemptInv'
<1>1. console[p].form.attempt \in Nat
  BY ConsoleFields DEF Inv, StoreOpsTypeOK, Forms
<1>2. ASSUME NEW q \in Person, NEW y \in Asks(q, console[q], opened)
      PROVE  y.attempt \in Nat /\ y.key # x.key /\ y.key \in ConsoleKey /\ y.draft \in ConsoleDraft
  BY <1>2, AsksInUse DEF Inv, AttemptInv
<1>3. ASSUME NEW y \in Asks(p, console[p], opened)
      PROVE  y.attempt < x.attempt /\ y.attempt <= console'[p].form.attempt
  <2>1. y.attempt <= console[p].form.attempt /\ y.attempt \in Nat
    BY <1>2 DEF Inv, AttemptInv
  <2> QED  BY <1>1, <2>1
<1>4. ASSUME NEW q \in Person, NEW y \in Asks(q, console'[q], opened')
      PROVE  \/ y \in Asks(q, console[q], opened)
             \/ q = p /\ y = x
  BY <1>4
<1>5. ASSUME NEW q \in Person, NEW y \in Asks(q, console'[q], opened')
      PROVE  y.key \in ConsoleKey /\ y.draft \in ConsoleDraft
  BY <1>2, <1>4, <1>5
<1>6. ASSUME NEW q \in Person, console'[q].open, NEW y \in Asks(q, console'[q], opened')
      PROVE  y.attempt <= console'[q].form.attempt
  <2>1. x.attempt \in Nat
    BY <1>1
  <2> QED  BY <1>3, <1>4, <1>6, <2>1 DEF Inv, AttemptInv
<1>7. ASSUME NEW q \in Person, NEW y \in Asks(q, console'[q], opened'), NEW z \in Asks(q, console'[q], opened'),
             y.attempt = z.attempt
      PROVE  y = z
  <2>1. y \in Asks(q, console[q], opened) /\ z \in Asks(q, console[q], opened) => y = z
    BY <1>7 DEF Inv, AttemptInv
  <2>2. x.attempt \in Nat /\ ~(x.attempt < x.attempt)
    BY <1>1
  <2> QED  BY <1>3, <1>4, <1>7, <2>1, <2>2
<1>8. ASSUME NEW q \in Person, NEW r \in Person,
             NEW y \in Asks(q, console'[q], opened'), NEW z \in Asks(r, console'[r], opened'), y.key = z.key
      PROVE  q = r /\ y.attempt = z.attempt
  <2>1. y \in Asks(q, console[q], opened) /\ z \in Asks(r, console[r], opened) => q = r /\ y.attempt = z.attempt
    BY <1>8 DEF Inv, AttemptInv
  <2> QED  BY <1>2, <1>4, <1>8, <2>1
<1> QED  BY <1>5, <1>6, <1>7, <1>8 DEF AttemptInv

LEMMA CreateSubmitStep ==
  ASSUME Inv, NEW p \in Person, NEW dr \in ConsoleDraft, Console!CreateSubmit(p, dr)
  PROVE  Inv'
<1> DEFINE c == console[p]
           f == Console!Submitted(c.form, dr)
           n == [Console!Write("form") EXCEPT !.draft = dr, !.key = f.key, !.attempt = f.attempt]
           d == [c EXCEPT !.form = f, !.writes = @ \cup {n}]
<1>1. c \in Consoles /\ Fine(c, booking) /\ c.form \in Forms /\ c.writes \subseteq Writes
  BY ConsoleFields DEF Inv, StoreOpsTypeOK
<1>2. /\ console' = [console EXCEPT ![p] = d] /\ c.open
      /\ c.form.draft = dr \/ \E k \in ConsoleKey : k \notin Console!InUse
      /\ UNCHANGED <<roleOf, signed, booking, avail, opened>>
  BY DEF Console!CreateSubmit, Console!Acts, Console!Update, Console!Server
<1>3. c.form.draft # dr => Console!NewKey \in ConsoleKey /\ Console!NewKey \notin Console!InUse
  BY <1>2 DEF Console!NewKey
<1>4. /\ f \in Forms /\ f.draft = dr
      /\ c.form.draft = dr => f.key = c.form.key /\ f.attempt = c.form.attempt
      /\ c.form.draft # dr => f.key = Console!NewKey /\ f.attempt = c.form.attempt + 1
  <2>1. CASE c.form.draft = dr
    BY <1>1, <2>1 DEF Console!Submitted, Forms
  <2>2. CASE c.form.draft # dr
    <3> DEFINE k == Console!NewKey
               a == c.form.attempt + 1
               g == [c.form EXCEPT !.busy = TRUE, !.draft = dr, !.key = k, !.attempt = a]
    <3>1. a \in Nat /\ k \in ConsoleKey
      BY <1>1, <1>3, <2>2 DEF Forms
    <3>2. f = g
      BY <1>1, <2>2 DEF Console!Submitted, Forms
    <3> HIDE DEF k, a, f
    <3>3. g \in Forms /\ g.draft = dr /\ g.key = k /\ g.attempt = a
      BY <1>1, <3>1 DEF Forms
    <3> QED  BY <2>2, <3>2, <3>3 DEF k, a
  <2> QED  BY <2>1, <2>2
<1> HIDE DEF f
<1>5. n \in Writes /\ n.control = "form" /\ n.draft = dr /\ n.key = f.key /\ n.attempt = f.attempt
  BY <1>4 DEF Console!Write, Writes, Forms, Console!Control
<1> HIDE DEF n
<1>6. d \in Consoles
  BY <1>1, <1>4, <1>5 DEF Consoles
<1>7. /\ d.row = c.row /\ d.form = f /\ d.shown = c.shown /\ d.open = c.open
      /\ d.newest = c.newest /\ d.reads = c.reads /\ d.writes = c.writes \cup {n}
  BY <1>1 DEF Consoles
<1> HIDE DEF d
<1>8. Fine(d, booking)
  BY <1>1, <1>5, <1>6, <1>7 DEF Fine, ShownOK, RowWritesOK, ConflictOK
<1>9. /\ \A q \in Person : console'[q] = IF q = p THEN d ELSE console[q]
      /\ StoreOpsTypeOK'
  BY <1>2, <1>6 DEF Inv, StoreOpsTypeOK
<1>10. Asks(p, d, opened) \subseteq Asks(p, c, opened) \cup {Ask(f)}
  <2>1. Ask(n) = Ask(f)
    BY <1>4, <1>5 DEF Ask
  <2> HIDE DEF c
  <2> QED  BY <1>7, <2>1 DEF Asks
<1>11. AttemptInv'
  <2>1. CASE c.form.draft = dr
    <3>1. dr # None
      BY ConsoleAssumption
    <3>2. Ask(f) \in Asks(p, c, opened)
      BY <1>4, <2>1, <3>1 DEF Asks, Ask
    <3>3. ASSUME NEW q \in Person
          PROVE  /\ Asks(q, console'[q], opened') \subseteq Asks(q, console[q], opened)
                 /\ console'[q].open => console[q].open /\ console'[q].form.attempt = console[q].form.attempt
      BY <1>2, <1>4, <1>7, <1>9, <1>10, <2>1, <3>2
    <3> QED  BY <3>3, AttemptKept DEF Inv
  <2>2. CASE c.form.draft # dr
    <3> DEFINE x == Ask(f)
    <3>1. x = Ask(x) /\ x.key = Console!NewKey /\ x.draft = dr /\ x.attempt = c.form.attempt + 1
      <4>1. x.key = f.key /\ x.draft = f.draft /\ x.attempt = f.attempt /\ x = Ask(x)
        BY DEF Ask
      <4> QED  BY <1>4, <2>2, <4>1
    <3> HIDE DEF x
    <3>2. console'[p].form.attempt = x.attempt /\ \A q \in Person : q # p => console'[q] = console[q]
      BY <1>4, <1>7, <1>9, <2>2, <3>1
    <3>3. Asks(p, console'[p], opened) \subseteq Asks(p, console[p], opened) \cup {x}
      BY <1>9, <1>10 DEF x
    <3> QED  BY <1>2, <1>3, <2>2, <3>1, <3>2, <3>3, NewAttempt
  <2> QED  BY <2>1, <2>2
<1>12. \A q \in Person : Fine(console'[q], booking')
  BY <1>2, <1>8, <1>9 DEF Inv
<1> QED  BY <1>9, <1>11, <1>12 DEF Inv

-----------------------------------------------------------------------------
(* What the server does.                                                   *)

Replied(c, w, reply) == [c EXCEPT !.writes = (@ \ {w}) \cup {[w EXCEPT !.reply = reply]}]

LEMMA RepliedShape ==
  ASSUME NEW c \in Consoles, NEW w \in c.writes, NEW reply \in Replies
  PROVE  LET d == Replied(c, w, reply)
             n == [w EXCEPT !.reply = reply]
         IN  /\ d \in Consoles /\ AsksNoMore(c, d)
             /\ d.shown = c.shown /\ d.row = c.row /\ d.newest = c.newest /\ d.reads = c.reads
             /\ d.writes = (c.writes \ {w}) \cup {n}
             /\ n.control = w.control /\ n.action = w.action /\ n.version = w.version /\ n.reply = reply
<1> DEFINE n == [w EXCEPT !.reply = reply]
           d == [c EXCEPT !.writes = (@ \ {w}) \cup {n}]
<1>1. c.writes \subseteq Writes
  BY ConsoleFields
<1>2. /\ n \in Writes /\ n.control = w.control /\ n.action = w.action /\ n.version = w.version
      /\ n.reply = reply /\ n.attempt = w.attempt /\ n.draft = w.draft /\ n.key = w.key
  BY <1>1 DEF Writes
<1> HIDE DEF n
<1>3. d \in Consoles
  BY <1>1, <1>2 DEF Consoles
<1>4. /\ d.shown = c.shown /\ d.row = c.row /\ d.newest = c.newest /\ d.reads = c.reads
      /\ d.form = c.form /\ d.open = c.open /\ d.writes = (c.writes \ {w}) \cup {n}
  BY DEF Consoles
<1> HIDE DEF d
<1>5. AsksNoMore(c, d)
  BY <1>2, <1>4 DEF AsksNoMore, Ask
<1> QED  BY <1>2, <1>3, <1>4, <1>5 DEF Replied, n, d

\* When the row gets a new version, what was asked for before it is refused.
LEMMA FineLater ==
  ASSUME NEW c, NEW b \in Bookings, NEW e \in Bookings, Fine(c, b), e.version = b.version + 1
  PROVE  Fine(c, e)
<1>1. c \in Consoles /\ c.shown.version \in Nat /\ b.version \in Nat /\ c.row.refused \in Nat
  BY ConsoleFields DEF Fine, ShownRows, Bookings, Rows
<1>2. ShownOK(c, e)
  BY <1>1 DEF Fine, ShownOK
<1>3. ASSUME NEW w \in c.writes, w.control = "row" PROVE RowWriteOK(w, e)
  <2>1. w.version \in Nat
    BY <1>1, ConsoleFields DEF Writes
  <2> QED  BY <1>1, <1>3, <2>1 DEF Fine, RowWritesOK, RowWriteOK
<1>4. ConflictOK(c, e)
  BY <1>1 DEF Fine, ConflictOK
<1> QED  BY <1>1, <1>2, <1>3, <1>4 DEF Fine, RowWritesOK

LEMMA ServeTransitionStep ==
  ASSUME Inv, NEW p \in Person, NEW w \in console[p].writes, Console!ServeTransition(p, w)
  PROVE  Inv'
<1> DEFINE c == console[p]
           timed == w.windows # {}
           reply == Console!TransitionReply(p, w.action, w.version, timed)
           d == Replied(c, w, reply)
           n == [w EXCEPT !.reply = reply]
<1>1. /\ w.reply = None /\ w.control = "row"
      /\ console' = [console EXCEPT ![p] = d]
      /\ booking' = IF reply = "success"
                      THEN [status |-> Console!StatusAfter[w.action], version |-> booking.version + 1] ELSE booking
      /\ UNCHANGED <<roleOf, signed, avail, opened>>
  BY DEF Console!ServeTransition, Console!Serves, Console!Reply, Console!Update, Replied
<1>2. c \in Consoles /\ Fine(c, booking) /\ booking \in Bookings /\ w \in Writes
  BY ConsoleFields DEF Inv, StoreOpsTypeOK
<1>3. RowWriteOK(w, booking)
  BY <1>1, <1>2 DEF Fine, RowWritesOK
<1>4. /\ reply \in Replies
      /\ reply = "conflict" => w.version # booking.version \/ ~Console!Resolvable(booking.status, w.action, timed)
  BY DEF Console!TransitionReply, Replies
<1>5. /\ d \in Consoles /\ AsksNoMore(c, d)
      /\ d.shown = c.shown /\ d.row = c.row /\ d.newest = c.newest /\ d.reads = c.reads
      /\ d.writes = (c.writes \ {w}) \cup {n}
      /\ n.control = w.control /\ n.action = w.action /\ n.version = w.version /\ n.reply = reply
  BY <1>2, <1>4, RepliedShape
<1> HIDE DEF reply
<1>6. booking' \in Bookings
  <2>1. w.action \in Console!Action
    BY <1>3 DEF RowWriteOK
  <2>2. Console!StatusAfter[w.action] \in Status
    BY <2>1 DEF Console!StatusAfter, Console!Action, Status
  <2> QED  BY <1>1, <1>2, <2>2 DEF Bookings
<1>7. \A q \in Person : Fine(console[q], booking')
  BY <1>1, <1>2, <1>6, FineLater DEF Inv, Bookings
<1>8. RowWriteOK(n, booking')
  <2>1. reply # None
    BY <1>4, ConsoleAssumption DEF Replies
  <2>2. reply = "conflict" => w.version < booking.version /\ booking' = booking
    <3>1. w.version \in Nat /\ booking.version \in Nat
      BY <1>2 DEF Writes, Bookings
    <3> QED  BY <1>1, <1>3, <1>4, <3>1 DEF RowWriteOK
  <2> HIDE DEF n
  <2> QED  BY <1>3, <1>5, <2>1, <2>2 DEF RowWriteOK
<1> HIDE DEF d, n
<1>9. Fine(d, booking')
  <2>1. Fine(c, booking')
    BY <1>7
  <2> QED  BY <1>5, <1>8, <2>1 DEF Fine, ShownOK, RowWritesOK, ConflictOK
<1>10. StoreOpsTypeOK' /\ \A q \in Person : console'[q] = IF q = p THEN d ELSE console[q]
  BY <1>1, <1>5, <1>6 DEF Inv, StoreOpsTypeOK
<1>11. \A q \in Person : Fine(console'[q], booking')
  BY <1>7, <1>9, <1>10
<1>12. AttemptInv'
  <2>1. ASSUME NEW q \in Person
        PROVE  /\ Asks(q, console'[q], opened') \subseteq Asks(q, console[q], opened)
               /\ console'[q].open => console[q].open /\ console'[q].form.attempt = console[q].form.attempt
    <3>1. CASE q = p
      BY <1>1, <1>5, <1>10, <3>1, AsksShrink DEF AsksNoMore
    <3>2. CASE q # p
      BY <1>1, <1>10, <3>2
    <3> QED  BY <3>1, <3>2
  <2> QED  BY <2>1, AttemptKept DEF Inv
<1> QED  BY <1>10, <1>11, <1>12 DEF Inv

\* A booking is opened for an ask that is already there.
LEMMA ServeCreateStep ==
  ASSUME Inv, NEW p \in Person, NEW w \in console[p].writes, Console!ServeCreate(p, w)
  PROVE  Inv'
<1> DEFINE c == console[p]
           x == [key |-> w.key, draft |-> w.draft, by |-> p, attempt |-> w.attempt]
<1>1. PICK reply \in Replies :
        /\ w.control = "form"
        /\ console' = [console EXCEPT ![p] = Replied(c, w, reply)]
        /\ opened' = opened \/ opened' = opened \cup {x}
        /\ UNCHANGED <<roleOf, signed, booking, avail>>
  BY DEF Console!ServeCreate, Console!Serves, Console!Reply, Console!Update, Replied, Replies
<1> DEFINE d == Replied(c, w, reply)
           n == [w EXCEPT !.reply = reply]
<1>2. c \in Consoles /\ Fine(c, booking) /\ w \in Writes
  BY ConsoleFields DEF Inv, StoreOpsTypeOK
<1>3. /\ d \in Consoles /\ AsksNoMore(c, d)
      /\ d.shown = c.shown /\ d.row = c.row /\ d.newest = c.newest /\ d.reads = c.reads
      /\ d.writes = (c.writes \ {w}) \cup {n}
      /\ n.control = w.control
  BY <1>2, RepliedShape
<1> HIDE DEF d, n
<1>4. Fine(d, booking)
  BY <1>1, <1>2, <1>3 DEF Fine, ShownOK, RowWritesOK, ConflictOK
<1>5. Ask(w) \in Asks(p, c, opened)
  BY <1>1 DEF Asks
<1>6. x \in Opened /\ Ask(x) = Ask(w) /\ x.by = p
  <2>1. Ask(w).key \in ConsoleKey /\ Ask(w).draft \in ConsoleDraft
    BY <1>5 DEF Inv, AttemptInv
  <2>2. w.key \in ConsoleKey /\ w.draft \in ConsoleDraft /\ w.attempt \in Nat
    BY <1>2, <2>1 DEF Ask, Writes
  <2> QED  BY <2>2 DEF Opened, Ask
<1> HIDE DEF x
<1>7. StoreOpsTypeOK' /\ \A q \in Person : console'[q] = IF q = p THEN d ELSE console[q]
  BY <1>1, <1>3, <1>6 DEF Inv, StoreOpsTypeOK, d
<1>8. \A q \in Person : Fine(console'[q], booking')
  BY <1>1, <1>4, <1>7 DEF Inv
<1>9. ASSUME NEW q \in Person
      PROVE  /\ Asks(q, console'[q], opened') \subseteq Asks(q, console[q], opened)
             /\ console'[q].open => console[q].open /\ console'[q].form.attempt = console[q].form.attempt
  <2>1. CASE q = p
    <3>1. Asks(p, d, opened) \subseteq Asks(p, c, opened)
      BY <1>3, AsksShrink
    <3>2. Asks(p, d, opened') \subseteq Asks(p, d, opened) \cup {Ask(w)}
      BY <1>1, <1>6 DEF Asks
    <3> QED  BY <1>3, <1>5, <1>7, <2>1, <3>1, <3>2 DEF AsksNoMore
  <2>2. CASE q # p
    <3>1. {y \in opened' : y.by = q} = {y \in opened : y.by = q}
      BY <1>1, <1>6, <2>2
    <3>2. console'[q] = console[q]
      BY <1>7, <2>2
    <3> QED  BY <3>1, <3>2 DEF Asks
  <2> QED  BY <2>1, <2>2
<1>10. AttemptInv'
  BY <1>9, AttemptKept DEF Inv
<1> QED  BY <1>7, <1>8, <1>10 DEF Inv

LEMMA ServeSaveStep ==
  ASSUME Inv, NEW p \in Person, NEW w \in console[p].writes, Console!ServeSave(p, w)
  PROVE  Inv'
<1> DEFINE c == console[p]
<1>1. PICK reply \in Replies :
        /\ w.control = "editor"
        /\ console' = [console EXCEPT ![p] = Replied(c, w, reply)]
        /\ avail' = IF reply = "success" THEN [version |-> avail.version + 1, windows |-> w.windows] ELSE avail
        /\ UNCHANGED <<roleOf, signed, booking, opened>>
  BY DEF Console!ServeSave, Console!Serves, Console!Reply, Console!Update, Replied, Replies
<1> DEFINE d == Replied(c, w, reply)
           n == [w EXCEPT !.reply = reply]
<1>2. c \in Consoles /\ Fine(c, booking) /\ w \in Writes
  BY ConsoleFields DEF Inv, StoreOpsTypeOK
<1>3. /\ d \in Consoles /\ AsksNoMore(c, d)
      /\ d.shown = c.shown /\ d.row = c.row /\ d.newest = c.newest /\ d.reads = c.reads
      /\ d.writes = (c.writes \ {w}) \cup {n}
      /\ n.control = w.control
  BY <1>2, RepliedShape
<1> HIDE DEF d, n
<1>4. Fine(d, booking)
  BY <1>1, <1>2, <1>3 DEF Fine, ShownOK, RowWritesOK, ConflictOK
<1>5. avail' \in [version : Nat, windows : SUBSET Person]
  BY <1>1, <1>2 DEF Inv, StoreOpsTypeOK, Writes
<1>6. StoreOpsTypeOK' /\ \A q \in Person : console'[q] = IF q = p THEN d ELSE console[q]
  BY <1>1, <1>3, <1>5 DEF Inv, StoreOpsTypeOK, d
<1>7. \A q \in Person : Fine(console'[q], booking')
  BY <1>1, <1>4, <1>6 DEF Inv
<1>8. ASSUME NEW q \in Person
      PROVE  /\ Asks(q, console'[q], opened') \subseteq Asks(q, console[q], opened)
             /\ console'[q].open => console[q].open /\ console'[q].form.attempt = console[q].form.attempt
  <2>1. CASE q = p
    BY <1>1, <1>3, <1>6, <2>1, AsksShrink DEF AsksNoMore
  <2>2. CASE q # p
    BY <1>1, <1>6, <2>2
  <2> QED  BY <2>1, <2>2
<1>9. AttemptInv'
  BY <1>8, AttemptKept DEF Inv
<1> QED  BY <1>6, <1>7, <1>9 DEF Inv

-----------------------------------------------------------------------------
(* What a console does with the answers.                                   *)

\* An answered transition is told at its row; a conflict names a version that is gone.
LEMMA FeedbackShape ==
  ASSUME NEW c \in Consoles, NEW reply \in {"success", "conflict", "error"}, NEW version \in Nat
  PROVE  LET d == Console!Feedback(c, reply, version)
         IN  /\ d \in Consoles /\ AsksNoMore(c, d)
             /\ d.shown = c.shown /\ d.writes = c.writes
             /\ d.row.feedback = reply /\ (reply = "conflict" => d.row.refused = version)
<1> DEFINE r == [busy |-> FALSE, feedback |-> reply, refused |-> IF reply = "conflict" THEN version ELSE 0]
           d == [c EXCEPT !.row = r]
<1>1. r \in Rows /\ r.feedback = reply /\ (reply = "conflict" => r.refused = version)
  BY DEF Rows, Feedbacks
<1>2. Console!Feedback(c, reply, version) = d
  BY DEF Console!Feedback
<1> HIDE DEF r
<1>3. d \in Consoles
  BY <1>1 DEF Consoles
<1>4. d.row = r /\ d.form = c.form /\ d.shown = c.shown /\ d.open = c.open /\ d.writes = c.writes
  BY DEF Consoles
<1> HIDE DEF d
<1>5. AsksNoMore(c, d)
  BY <1>4 DEF AsksNoMore
<1> QED  BY <1>1, <1>2, <1>3, <1>4, <1>5

LEMMA BusyTame ==
  ASSUME NEW c \in Consoles
  PROVE  LET d == [c EXCEPT !.row.busy = TRUE]
         IN  /\ Tame(c, d) /\ d.shown = c.shown /\ d.writes = c.writes
             /\ d.row.feedback = c.row.feedback /\ d.row.refused = c.row.refused
<1> DEFINE r == [c.row EXCEPT !.busy = TRUE]
           d == [c EXCEPT !.row = r]
<1>1. r \in Rows /\ r.feedback = c.row.feedback /\ r.refused = c.row.refused
  BY ConsoleFields DEF Rows
<1>2. [c EXCEPT !.row.busy = TRUE] = d
  BY DEF Consoles
<1> HIDE DEF r
<1>3. d \in Consoles
  BY <1>1 DEF Consoles
<1>4. /\ d.row = r /\ d.form = c.form /\ d.shown = c.shown /\ d.open = c.open /\ d.writes = c.writes
      /\ d.reads = c.reads /\ d.newest = c.newest
  BY DEF Consoles
<1> HIDE DEF d
<1>5. Tame(c, d)
  BY <1>1, <1>3, <1>4, SameParts
<1> QED  BY <1>1, <1>2, <1>4, <1>5

LEMMA DeliverRowStep ==
  ASSUME Inv, NEW p \in Person, NEW w \in console[p].writes, Console!DeliverRow(p, w)
  PROVE  Inv'
<1> DEFINE c0 == console[p]
           c == Console!Without(c0, w)
           told == Console!Feedback(c, w.reply, w.version)
           busy == [told EXCEPT !.row.busy = TRUE]
<1>1. c0 \in Consoles /\ Fine(c0, booking) /\ booking \in Bookings /\ w \in Writes /\ w.reply \in Replies \cup {None}
  BY ConsoleFields DEF Inv, StoreOpsTypeOK, Writes
<1>2. /\ w.control = "row" /\ w.reply # None /\ w.reply \in Replies
      /\ UNCHANGED <<roleOf, signed, booking, avail, opened>>
      /\ \E d : /\ console' = [console EXCEPT ![p] = d]
                /\ w.reply = "unauthenticated" => d = Console!Closed(c)
                /\ w.reply = "forbidden" => d = Console!Rerendered(c)
                /\ w.reply \in {"success", "conflict"} /\ w.held => d = Console!Reload(busy, "row")
                /\ w.reply \in {"success", "conflict"} /\ ~w.held => d = Console!Reload(c, "view")
  BY <1>1 DEF Console!DeliverRow, Console!Update, Console!Server, Console!Counters, Console!Reloads, Replies
<1>3. PICK d : /\ console' = [console EXCEPT ![p] = d]
               /\ w.reply = "unauthenticated" => d = Console!Closed(c)
               /\ w.reply = "forbidden" => d = Console!Rerendered(c)
               /\ w.reply \in {"success", "conflict"} /\ w.held => d = Console!Reload(busy, "row")
               /\ w.reply \in {"success", "conflict"} /\ ~w.held => d = Console!Reload(c, "view")
  BY <1>2
<1>4. Tame(c0, c) /\ c \in Consoles
  BY <1>1, WithoutTame DEF Tame
<1>5. RowWriteOK(w, booking) /\ w.version \in Nat
  BY <1>1, <1>2 DEF Fine, RowWritesOK, Writes
<1> HIDE DEF c
<1>6. CASE w.reply = "unauthenticated"
  BY <1>2, <1>3, <1>4, <1>6, ClosedTame, TameTransitive, TameKeepsInv
<1>7. CASE w.reply = "forbidden"
  BY <1>2, <1>3, <1>4, <1>7, RerenderedTame, TameTransitive, TameKeepsInv
<1>8. CASE w.reply \in {"success", "conflict"} /\ ~w.held
  <2>1. "view" \in Reader
    BY DEF Reader
  <2>2. Tame(c, Console!Reload(c, "view"))
    BY <1>4, <2>1, ReloadTame
  <2> QED  BY <1>2, <1>3, <1>4, <1>8, <2>2, TameTransitive, TameKeepsInv
<1>9. CASE w.reply \in {"success", "conflict"} /\ w.held
  <2>1. "row" \in Reader
    BY DEF Reader, Console!Control
  <2>2. /\ busy \in Consoles /\ AsksNoMore(c, busy)
        /\ busy.shown = c.shown /\ busy.writes = c.writes
        /\ busy.row.feedback = w.reply /\ (w.reply = "conflict" => busy.row.refused = w.version)
    <3>1. w.reply \in {"success", "conflict", "error"}
      BY <1>9
    <3>2. /\ told \in Consoles /\ AsksNoMore(c, told)
          /\ told.shown = c.shown /\ told.writes = c.writes
          /\ told.row.feedback = w.reply /\ (w.reply = "conflict" => told.row.refused = w.version)
      BY <1>4, <1>5, <3>1, FeedbackShape
    <3> HIDE DEF told
    <3>3. /\ Tame(told, busy) /\ busy.shown = told.shown /\ busy.writes = told.writes
          /\ busy.row.feedback = told.row.feedback /\ busy.row.refused = told.row.refused
      BY <3>2, BusyTame
    <3> HIDE DEF busy
    <3>4. AsksNoMore(c, busy)
      BY <3>2, <3>3 DEF Tame, AsksNoMore
    <3> QED  BY <3>2, <3>3, <3>4 DEF Tame
  <2> HIDE DEF busy
  <2>3. /\ Tame(busy, d) /\ d.newest \in d.reads
        /\ d.row = busy.row /\ d.shown = busy.shown /\ d.writes = busy.writes
    <3>1. d = Console!Reload(busy, "row")
      BY <1>3, <1>9
    <3>2. d.row = busy.row /\ d.shown = busy.shown /\ d.writes = busy.writes
      BY <2>2, <3>1 DEF Console!Reload, Consoles
    <3> QED  BY <2>1, <2>2, <3>1, <3>2, ReloadTame
  <2>4. Tame(c0, c) /\ Fine(c, booking)
    BY <1>1, <1>4 DEF Tame, Keeps
  <2>5. AsksNoMore(c0, d)
    <3>1. AsksNoMore(c, d)
      BY <2>2, <2>3 DEF Tame, AsksNoMore
    <3> QED  BY <2>4, <3>1 DEF Tame, AsksNoMore
  <2>6. w.reply = "conflict" => w.version < booking.version
    BY <1>5 DEF RowWriteOK
  <2>7. Fine(d, booking)
    BY <2>2, <2>3, <2>4, <2>6 DEF Tame, Fine, ShownOK, RowWritesOK, ConflictOK
  <2> QED  BY <1>2, <1>3, <2>5, <2>7, UpdateKeepsInv
<1> QED  BY <1>2, <1>6, <1>7, <1>8, <1>9 DEF Replies

LEMMA DeliverFormStep ==
  ASSUME Inv, NEW p \in Person, NEW w \in console[p].writes, Console!DeliverForm(p, w)
  PROVE  Inv'
<1> DEFINE c0 == console[p]
           c == Console!Without(c0, w)
           done == Console!FormDone(c, w.reply)
           f == IF w.reply = "success" THEN [done.form EXCEPT !.busy = TRUE] ELSE c.form
           e == [c EXCEPT !.form = f]
<1>1. c0 \in Consoles /\ w \in Writes /\ w.reply \in Replies \cup {None}
  BY ConsoleFields DEF Inv, StoreOpsTypeOK, Writes
<1>2. Tame(c0, c) /\ c \in Consoles
  BY <1>1, WithoutTame DEF Tame
<1>3. c = [c EXCEPT !.form = c.form]
  BY <1>2 DEF Consoles
<1>4. /\ w.reply \in Replies
      /\ UNCHANGED <<roleOf, signed, booking, avail, opened>>
      /\ \E d : /\ console' = [console EXCEPT ![p] = d]
                /\ w.reply = "unauthenticated" => d = Console!Closed(c)
                /\ w.reply = "forbidden" => d = Console!Rerendered(done)
                /\ w.reply \in {"success", "conflict"} => d = Console!Reload(e, "form")
  BY <1>1 DEF Console!DeliverForm, Console!Update, Console!Server, Console!Counters, Replies
<1>5. PICK d : /\ console' = [console EXCEPT ![p] = d]
               /\ w.reply = "unauthenticated" => d = Console!Closed(c)
               /\ w.reply = "forbidden" => d = Console!Rerendered(done)
               /\ w.reply \in {"success", "conflict"} => d = Console!Reload(e, "form")
  BY <1>4
<1> HIDE DEF c
<1>6. Tame(c, done) /\ done \in Consoles
  BY <1>2, FormDoneTame DEF Tame
<1>7. CASE w.reply = "unauthenticated"
  BY <1>4, <1>5, <1>2, <1>7, ClosedTame, TameTransitive, TameKeepsInv
<1>8. CASE w.reply = "forbidden"
  <2>1. Tame(done, d)
    BY <1>5, <1>6, <1>8, RerenderedTame
  <2>2. Tame(c0, d)
    BY <1>2, <1>6, <2>1, TameTransitive
  <2> QED  BY <1>4, <1>5, <2>2, TameKeepsInv
<1>9. CASE w.reply \in {"success", "conflict"}
  <2>1. /\ f \in Forms /\ f.attempt = c.form.attempt
        /\ f.draft # None => f.draft = c.form.draft /\ f.key = c.form.key
    <3>1. c.form \in Forms
      BY <1>2, ConsoleFields
    <3>2. CASE w.reply # "success"
      BY <3>1, <3>2
    <3>3. CASE w.reply = "success"
      <4> DEFINE g == [c.form EXCEPT !.busy = FALSE, !.draft = None, !.key = None]
      <4>1. done.form = g
        BY <1>2, <3>3 DEF Console!FormDone, Consoles
      <4>2. g \in Forms /\ g.attempt = c.form.attempt /\ g.draft = None
        BY <3>1 DEF Forms
      <4> HIDE DEF done, g
      <4>3. f = [g EXCEPT !.busy = TRUE]
        BY <3>3, <4>1
      <4> QED  BY <4>2, <4>3 DEF Forms
    <3> QED  BY <3>2, <3>3
  <2> HIDE DEF f
  <2>2. e \in Consoles
    BY <1>2, <2>1 DEF Consoles
  <2>3. /\ e.row = c.row /\ e.form = f /\ e.shown = c.shown /\ e.open = c.open /\ e.writes = c.writes
        /\ e.reads = c.reads /\ e.newest = c.newest
    BY <1>2 DEF Consoles
  <2> HIDE DEF e
  <2>4. Tame(c, e)
    BY <1>2, <2>1, <2>2, <2>3, SameParts
  <2>5. "form" \in Reader
    BY DEF Reader, Console!Control
  <2>6. Tame(e, d)
    BY <1>5, <1>9, <2>2, <2>5, ReloadTame
  <2>7. Tame(c0, d)
    BY <1>2, <2>4, <2>6, TameTransitive
  <2> QED  BY <1>4, <1>5, <2>7, TameKeepsInv
<1> QED  BY <1>4, <1>7, <1>8, <1>9 DEF Replies

\* What becomes of the editor and of the board is nothing to the list and the form.
LEMMA BoardTame ==
  ASSUME NEW c \in Consoles, NEW e \in Editors, NEW base \in Nat,
         NEW board \in {"loading", "ready", "unavailable"}, NEW rereads \in BOOLEAN
  PROVE  Tame(c, [c EXCEPT !.editor = e, !.base = base, !.board = board, !.rereads = rereads])
<1> DEFINE d == [c EXCEPT !.editor = e, !.base = base, !.board = board, !.rereads = rereads]
<1>1. d \in Consoles
  BY DEF Consoles
<1>2. /\ d.row = c.row /\ d.form = c.form /\ d.shown = c.shown /\ d.open = c.open /\ d.writes = c.writes
      /\ d.reads = c.reads /\ d.newest = c.newest
  BY DEF Consoles
<1> QED  BY <1>1, <1>2, SameParts

LEMMA EditorTame ==
  ASSUME NEW c \in Consoles
  PROVE  Tame(c, [c EXCEPT !.editor.busy = FALSE]) /\ Tame(c, [c EXCEPT !.rereads = TRUE])
<1> DEFINE e == [c.editor EXCEPT !.busy = FALSE]
<1>1. e \in Editors /\ c.editor \in Editors
  BY ConsoleFields DEF Editors
<1>2. c.base \in Nat /\ c.board \in {"loading", "ready", "unavailable"} /\ c.rereads \in BOOLEAN
  BY ConsoleFields
<1>3. /\ [c EXCEPT !.editor.busy = FALSE]
           = [c EXCEPT !.editor = e, !.base = c.base, !.board = c.board, !.rereads = c.rereads]
      /\ [c EXCEPT !.rereads = TRUE]
           = [c EXCEPT !.editor = c.editor, !.base = c.base, !.board = c.board, !.rereads = TRUE]
  BY DEF Consoles
<1> HIDE DEF e
<1>4. Tame(c, [c EXCEPT !.editor = e, !.base = c.base, !.board = c.board, !.rereads = c.rereads])
  BY <1>1, <1>2, BoardTame
<1>5. Tame(c, [c EXCEPT !.editor = c.editor, !.base = c.base, !.board = c.board, !.rereads = TRUE])
  BY <1>1, <1>2, BoardTame
<1> QED  BY <1>3, <1>4, <1>5

LEMMA DeliverEditorStep ==
  ASSUME Inv, NEW p \in Person, NEW w \in console[p].writes, Console!DeliverEditor(p, w)
  PROVE  Inv'
<1> DEFINE c0 == console[p]
           c == Console!Without(c0, w)
           released == [c EXCEPT !.editor.busy = FALSE]
           loading == [c EXCEPT !.rereads = TRUE]
<1>1. c0 \in Consoles /\ w \in Writes /\ w.reply \in Replies \cup {None}
  BY ConsoleFields DEF Inv, StoreOpsTypeOK, Writes
<1>2. Tame(c0, c) /\ c \in Consoles
  BY <1>1, WithoutTame DEF Tame
<1>3. /\ w.reply \in Replies
      /\ UNCHANGED <<roleOf, signed, booking, avail, opened>>
      /\ \E d \in {Console!Closed(c), Console!Rerendered(released), loading} : console' = [console EXCEPT ![p] = d]
  BY <1>1 DEF Console!DeliverEditor, Console!Update, Console!Server, Console!Counters, Replies
<1> HIDE DEF c
<1>4. Tame(c, released) /\ Tame(c, loading)
  BY <1>2, EditorTame
<1>5. Tame(c, Console!Closed(c))
  BY <1>2, ClosedTame
<1>6. Tame(c, Console!Rerendered(released))
  <2>1. released \in Consoles
    BY <1>4 DEF Tame
  <2> HIDE DEF released
  <2> QED  BY <1>4, <2>1, RerenderedTame, TameTransitive
<1> HIDE DEF released, loading
<1>7. PICK d \in {Console!Closed(c), Console!Rerendered(released), loading} : console' = [console EXCEPT ![p] = d]
  BY <1>3
<1>8. Tame(c0, d)
  BY <1>2, <1>4, <1>5, <1>6, TameTransitive
<1> QED  BY <1>3, <1>7, <1>8, TameKeepsInv

LEMMA LoseWriteStep ==
  ASSUME Inv, NEW p \in Person, NEW w \in console[p].writes, Console!LoseWrite(p, w)
  PROVE  Inv'
<1> DEFINE c0 == console[p]
           c == Console!Without(c0, w)
           told == Console!Feedback(c, "error", 0)
           done == Console!FormDone(c, "error")
           released == [c EXCEPT !.editor.busy = FALSE]
<1>1. c0 \in Consoles /\ w \in Writes /\ w.control \in Console!Control
  BY ConsoleFields DEF Inv, StoreOpsTypeOK, Writes
<1>2. Tame(c0, c) /\ c \in Consoles
  BY <1>1, WithoutTame DEF Tame
<1>3. /\ UNCHANGED <<roleOf, signed, booking, avail, opened>>
      /\ \E d \in {told, c, done, released} : console' = [console EXCEPT ![p] = d]
  BY <1>1 DEF Console!LoseWrite, Console!Update, Console!Server, Console!Counters, Console!Control
<1> HIDE DEF c
<1>4. Tame(c, told)
  <2>1. /\ told \in Consoles /\ AsksNoMore(c, told) /\ told.shown = c.shown /\ told.writes = c.writes
        /\ told.row.feedback = "error"
    BY <1>2, FeedbackShape
  <2> HIDE DEF told
  <2> QED  BY <1>2, <2>1 DEF Tame, Keeps, Fine, ShownOK, RowWritesOK, ConflictOK
<1>5. Tame(c, done) /\ Tame(c, released)
  BY <1>2, FormDoneTame, EditorTame
<1> HIDE DEF told, done, released
<1>6. PICK d \in {told, c, done, released} : console' = [console EXCEPT ![p] = d]
  BY <1>3
<1>7. Tame(c0, d)
  BY <1>2, <1>4, <1>5, TameTransitive
<1> QED  BY <1>3, <1>6, <1>7, TameKeepsInv

\* The list that counts is what the server has now.
LEMMA DeliverListStep ==
  ASSUME Inv, NEW p \in Person, NEW by, NEW ok, Console!DeliverList(p, by, ok)
  PROVE  Inv'
<1> DEFINE c == console[p]
           r == Console!Released(c, by)
           listed == [r EXCEPT !.list = "ready", !.shown = booking]
<1>1. c \in Consoles /\ Fine(c, booking) /\ booking \in Bookings
  BY DEF Inv, StoreOpsTypeOK
<1>2. /\ UNCHANGED <<roleOf, signed, booking, avail, opened>>
      /\ \E d : /\ console' = [console EXCEPT ![p] = d]
                /\ \/ c.newest # by /\ d = r
                   \/ d = Console!Closed(c)
                   \/ d = Console!Unlisted(r, "unavailable")
                   \/ d = listed
  BY DEF Console!DeliverList, Console!Update, Console!Server, Console!Counters, Console!ListBookingIntents
<1>3. /\ r \in Consoles /\ AsksNoMore(c, r) /\ (c.newest # by => Tame(c, r))
      /\ r.writes = c.writes /\ r.shown = c.shown
      /\ r.row.refused = c.row.refused /\ r.row.feedback = c.row.feedback
  BY <1>1, ReleasedTame
<1> HIDE DEF r, c
<1>4. Tame(c, Console!Closed(c))
  BY <1>1, ClosedTame
<1>5. /\ Fine(Console!Unlisted(r, "unavailable"), booking)
      /\ AsksNoMore(c, Console!Unlisted(r, "unavailable"))
  <2> DEFINE u == Console!Unlisted(r, "unavailable")
  <2>1. Tame(r, u) /\ \A b \in Bookings : ShownOK(r, b) /\ RowWritesOK(r, b) => Fine(u, b)
    BY <1>3, UnlistedTame
  <2>2. ShownOK(r, booking) /\ RowWritesOK(r, booking)
    BY <1>1, <1>3 DEF Fine, ShownOK, RowWritesOK
  <2> HIDE DEF u
  <2>3. AsksNoMore(c, u)
    BY <1>3, <2>1 DEF Tame, AsksNoMore
  <2> QED  BY <1>1, <2>1, <2>2, <2>3 DEF u
<1>6. Fine(listed, booking) /\ AsksNoMore(c, listed)
  <2>1. booking \in ShownRows /\ booking.version \in Nat
    BY <1>1 DEF Bookings, ShownRows
  <2>2. listed \in Consoles
    BY <1>3, <2>1 DEF Consoles
  <2>3. /\ listed.shown = booking /\ listed.writes = r.writes /\ listed.row = r.row
        /\ listed.form = r.form /\ listed.open = r.open
    BY <1>3 DEF Consoles
  <2> HIDE DEF listed
  <2>4. AsksNoMore(c, listed)
    BY <1>3, <2>3 DEF AsksNoMore
  <2>5. c.row.feedback = "conflict" => c.row.refused # booking.version
    <3>1. c.row.refused \in Nat
      BY <1>1, ConsoleFields DEF Rows
    <3> QED  BY <1>1, <2>1, <3>1 DEF Fine, ConflictOK
  <2> QED  BY <1>1, <1>3, <2>1, <2>2, <2>3, <2>4, <2>5 DEF Fine, ShownOK, RowWritesOK, ConflictOK
<1> HIDE DEF listed
<1>7. PICK d : /\ console' = [console EXCEPT ![p] = d]
               /\ \/ c.newest # by /\ d = r
                  \/ d = Console!Closed(c)
                  \/ d = Console!Unlisted(r, "unavailable")
                  \/ d = listed
  BY <1>2
<1>8. Fine(d, booking) /\ AsksNoMore(c, d)
  BY <1>1, <1>3, <1>4, <1>5, <1>6, <1>7 DEF Tame, Keeps
<1> QED  BY <1>2, <1>7, <1>8, UpdateKeepsInv DEF c

LEMMA DeliverBoardStep ==
  ASSUME Inv, NEW p \in Person, NEW ok \in BOOLEAN, Console!DeliverBoard(p, ok)
  PROVE  Inv'
<1> DEFINE c == console[p]
           away == [c EXCEPT !.board = "unavailable"]
           shown == [c EXCEPT !.board = "ready", !.base = avail.version, !.editor.windows = avail.windows]
           reread(base) == [c EXCEPT !.rereads = FALSE, !.editor.busy = FALSE, !.base = base]
<1>1. c \in Consoles /\ avail.version \in Nat /\ avail.windows \subseteq Person
  BY DEF Inv, StoreOpsTypeOK
<1>2. /\ UNCHANGED <<roleOf, signed, booking, avail, opened>>
      /\ \E d \in {Console!Closed(c), away, shown, reread(avail.version), reread(c.base)} :
           console' = [console EXCEPT ![p] = d]
  BY <1>1 DEF Console!DeliverBoard, Console!Update, Console!Server, Console!Counters, Console!ListAvailability, Consoles
<1>3. /\ c.editor \in Editors /\ c.base \in Nat /\ c.board \in {"loading", "ready", "unavailable"}
      /\ c.rereads \in BOOLEAN
  BY <1>1, ConsoleFields
<1>4. Tame(c, away)
  <2>1. away = [c EXCEPT !.editor = c.editor, !.base = c.base, !.board = "unavailable", !.rereads = c.rereads]
    BY <1>1 DEF Consoles
  <2>2. Tame(c, [c EXCEPT !.editor = c.editor, !.base = c.base, !.board = "unavailable", !.rereads = c.rereads])
    BY <1>1, <1>3, BoardTame
  <2> QED  BY <2>1, <2>2
<1>5. Tame(c, shown)
  <2> DEFINE e == [c.editor EXCEPT !.windows = avail.windows]
  <2>1. e \in Editors
    BY <1>1, <1>3 DEF Editors
  <2>2. shown = [c EXCEPT !.editor = e, !.base = avail.version, !.board = "ready", !.rereads = c.rereads]
    BY <1>1 DEF Consoles
  <2> HIDE DEF e
  <2>3. Tame(c, [c EXCEPT !.editor = e, !.base = avail.version, !.board = "ready", !.rereads = c.rereads])
    BY <1>1, <1>3, <2>1, BoardTame
  <2> QED  BY <2>2, <2>3
<1>6. ASSUME NEW base \in Nat PROVE Tame(c, reread(base))
  <2> DEFINE e == [c.editor EXCEPT !.busy = FALSE]
  <2>1. e \in Editors
    BY <1>3 DEF Editors
  <2>2. reread(base) = [c EXCEPT !.editor = e, !.base = base, !.board = c.board, !.rereads = FALSE]
    BY <1>1 DEF Consoles
  <2> HIDE DEF e
  <2>3. Tame(c, [c EXCEPT !.editor = e, !.base = base, !.board = c.board, !.rereads = FALSE])
    BY <1>1, <1>3, <2>1, BoardTame
  <2> QED  BY <2>2, <2>3
<1>7. Tame(c, Console!Closed(c))
  BY <1>1, ClosedTame
<1> HIDE DEF away, shown, reread
<1>8. PICK d \in {Console!Closed(c), away, shown, reread(avail.version), reread(c.base)} :
        console' = [console EXCEPT ![p] = d]
  BY <1>2
<1>9. Tame(c, d)
  BY <1>1, <1>3, <1>4, <1>5, <1>6, <1>7
<1> QED  BY <1>2, <1>8, <1>9, TameKeepsInv

-----------------------------------------------------------------------------
(* Every behaviour of the consoles.                                        *)

LEMMA InitInv == Console!Init => Inv
<1> SUFFICES ASSUME Console!Init PROVE Inv
  OBVIOUS
<1>1. /\ roleOf \in [Person -> Role] /\ focus \in SUBSET Console!Control
      /\ booking \in Bookings /\ opened = {} /\ signed = Person
      /\ avail \in [version : Nat, windows : SUBSET Person]
      /\ console = [p \in Person |-> Console!Opening(roleOf[p], focus)]
  BY ConsoleAssumption DEF Console!Init, Console!Control, Bookings, Status
<1>2. ASSUME NEW p \in Person
      PROVE  /\ console[p] \in Consoles /\ console[p].shown.version = 0
             /\ console[p].row.feedback = "idle" /\ console[p].writes = {} /\ console[p].form.draft = None
  <2>1. roleOf[p] \in Role
    BY <1>1
  <2>2. console[p] = Console!Opening(roleOf[p], focus)
    BY <1>1
  <2> QED  BY <1>1, <2>1, <2>2, OpeningShape
<1>3. StoreOpsTypeOK
  <2>1. console \in [Person -> Consoles]
    BY <1>1, <1>2
  <2> QED  BY <1>1, <2>1 DEF StoreOpsTypeOK
<1>4. \A p \in Person : Fine(console[p], booking)
  BY <1>1, <1>2 DEF Fine, ShownOK, RowWritesOK, ConflictOK, Bookings
<1>5. \A p \in Person : Asks(p, console[p], opened) = {}
  BY <1>1, <1>2 DEF Asks
<1>6. AttemptInv
  BY <1>5 DEF AttemptInv
<1> QED  BY <1>3, <1>4, <1>6 DEF Inv

\* What happens to roles and sessions is nothing to the invariant.
LEMMA OutsideKeepsInv ==
  ASSUME Inv, UNCHANGED <<console, booking, avail, opened>>,
         roleOf' \in [Person -> Role], signed' \subseteq Person
  PROVE  Inv'
<1>1. StoreOpsTypeOK'
  BY DEF Inv, StoreOpsTypeOK
<1>2. \A q \in Person : Fine(console'[q], booking')
  BY DEF Inv
<1>3. AttemptInv'
  BY DEF Inv, AttemptInv
<1> QED  BY <1>1, <1>2, <1>3 DEF Inv

LEMMA NextInv == Inv /\ [Console!Next]_(Console!vars) => Inv'
<1> SUFFICES ASSUME Inv, [Console!Next]_(Console!vars) PROVE Inv'
  OBVIOUS
<1>1. CASE UNCHANGED Console!vars
  <2>1. /\ UNCHANGED <<console, booking, avail, opened>>
        /\ roleOf' \in [Person -> Role] /\ signed' \subseteq Person
    BY <1>1 DEF Console!vars, Inv, StoreOpsTypeOK
  <2> QED  BY <2>1, OutsideKeepsInv
<1>2. ASSUME NEW p \in Person, NEW a \in Console!Action, Console!RowAction(p, a) PROVE Inv'
  BY <1>2, RowActionStep
<1>3. ASSUME NEW p \in Person, NEW a \in Console!Action, Console!Mistyped(p, a) PROVE Inv'
  BY <1>3, MistypedStep
<1>4. ASSUME NEW p \in Person, NEW d \in ConsoleDraft, Console!CreateSubmit(p, d) PROVE Inv'
  BY <1>4, CreateSubmitStep
<1>5. ASSUME NEW p \in Person, Console!Save(p) PROVE Inv'
  BY <1>5, SaveStep
<1>6. ASSUME NEW p \in Person, Console!Answer(p) PROVE Inv'
  <2>1. ASSUME NEW w \in console[p].writes,
               \/ Console!ServeTransition(p, w) \/ Console!ServeCreate(p, w) \/ Console!ServeSave(p, w)
        PROVE  Inv'
    BY <2>1, ServeTransitionStep, ServeCreateStep, ServeSaveStep
  <2>2. ASSUME NEW w \in console[p].writes,
               \/ Console!DeliverRow(p, w) \/ Console!DeliverForm(p, w)
               \/ Console!DeliverEditor(p, w) \/ Console!LoseWrite(p, w)
        PROVE  Inv'
    BY <2>2, DeliverRowStep, DeliverFormStep, DeliverEditorStep, LoseWriteStep
  <2>3. ASSUME NEW by, NEW ok \in BOOLEAN, Console!DeliverList(p, by, ok) \/ Console!DeliverBoard(p, ok)
        PROVE  Inv'
    BY <2>3, DeliverListStep, DeliverBoardStep
  <2> QED  BY <1>6, <2>1, <2>2, <2>3 DEF Console!Answer
<1>7. ASSUME NEW p \in Person, Console!Rerender(p) PROVE Inv'
  <2>1. Tame(console[p], Console!Rerendered(console[p]))
    BY RerenderedTame DEF Inv, StoreOpsTypeOK
  <2>2. /\ console' = [console EXCEPT ![p] = Console!Rerendered(console[p])]
        /\ UNCHANGED <<roleOf, signed, booking, avail, opened>>
    BY <1>7 DEF Console!Rerender, Console!Changes, Console!Update
  <2> QED  BY <2>1, <2>2, TameKeepsInv
<1>8. ASSUME NEW p \in Person, Console!Lapse(p) PROVE Inv'
  <2>1. /\ UNCHANGED <<console, booking, avail, opened>>
        /\ roleOf' \in [Person -> Role] /\ signed' \subseteq Person
    BY <1>8 DEF Console!Lapse, Console!Changes, Inv, StoreOpsTypeOK
  <2> QED  BY <2>1, OutsideKeepsInv
<1>9. ASSUME NEW p \in Person, NEW r \in ConsoleNewRole, Console!SetRole(p, r) PROVE Inv'
  <2>1. /\ UNCHANGED <<console, booking, avail, opened>>
        /\ roleOf' \in [Person -> Role] /\ signed' \subseteq Person
    BY <1>9, ConsoleAssumption DEF Console!SetRole, Console!Changes, Inv, StoreOpsTypeOK
  <2> QED  BY <2>1, OutsideKeepsInv
<1> QED  BY <1>1, <1>2, <1>3, <1>4, <1>5, <1>6, <1>7, <1>8, <1>9 DEF Console!Next

LEMMA Always == Console!Spec => []Inv
BY InitInv, NextInv, PTL DEF Console!Spec

\* What the consoles hold, and the row of the server they work on, are of their types.
THEOREM StoreOpsTypeCorrect == Console!Spec => []StoreOpsTypeOK
<1>1. Inv => StoreOpsTypeOK
  BY DEF Inv
<1> QED  BY <1>1, Always, PTL

\* Whatever answers are lost or late, and however often a person submits the same
\* draft again, one attempt of a person opens at most one booking: the key of the
\* draft stays with it until a booking is known to be recorded, and no other draft
\* and nobody else's has that key.
THEOREM OneBookingPerAttemptHolds == Console!Spec => []OneBookingPerAttempt
<1>1. Inv => OneBookingPerAttempt
  <2> SUFFICES ASSUME Inv, NEW b1 \in opened, NEW b2 \in opened, b1.by = b2.by, b1.attempt = b2.attempt
               PROVE  b1 = b2
    BY DEF OneBookingPerAttempt, Console!OneBookingPerAttempt
  <2>1. b1 \in Opened /\ b2 \in Opened /\ b1.by \in Person
    BY DEF Inv, StoreOpsTypeOK, Opened
  <2>2. /\ Ask(b1) \in Asks(b1.by, console[b1.by], opened)
        /\ Ask(b2) \in Asks(b1.by, console[b1.by], opened)
    BY DEF Asks
  <2>3. Ask(b1) = Ask(b2)
    <3>1. Ask(b1).attempt = b1.attempt /\ Ask(b2).attempt = b2.attempt
      BY DEF Ask
    <3> QED  BY <2>1, <2>2, <3>1 DEF Inv, AttemptInv
  <2>4. b1.draft = b2.draft /\ b1.key = b2.key
    BY <2>3 DEF Ask
  <2> QED  BY <2>1, <2>4 DEF Opened
<1> QED  BY <1>1, Always, PTL

\* The console offers the actions the server accepts, no more and no fewer: its
\* permittedBookingActions and the authority and status checks of the route agree
\* in every role, for the creator and for everybody else, in every status.
THEOREM OffersMatchServerHolds == Console!Spec => []OffersMatchServer
<1>1. StoreOpsTypeOK => OffersMatchServer
  <2> SUFFICES ASSUME StoreOpsTypeOK, NEW p \in signed, console[p].shown = booking, console[p].role = roleOf[p],
                      NEW a \in Console!Action
               PROVE  a \in Console!PermittedBookingActions(p, roleOf[p], booking)
                        <=> Console!TransitionReply(p, a, booking.version,
                              Console!BookingActionNeedsInterval(a, booking.status)) = "success"
    BY DEF OffersMatchServer, Console!OffersMatchServer, Console!PermittedBookingActions
  <2>1. roleOf[p] \in Role /\ booking.status \in Status
    BY DEF StoreOpsTypeOK, Bookings
  <2> QED
    BY <2>1 DEF Console!PermittedBookingActions, Console!MayCancel, Console!TransitionReply, Console!Resolvable,
                Console!BookingActionNeedsInterval, Console!Can, Console!CapabilitiesForRole,
                Console!Action, Role, Status
<1> QED  BY <1>1, StoreOpsTypeCorrect, PTL

\* Whatever reads, renders and answers come in between, a row that reports a
\* conflict beside the very version the server refused has a read under way whose
\* list will be shown: the refused version is one of the past, and no read that
\* counts shows the past.
THEOREM RefusedVersionGoesHolds == Console!Spec => []RefusedVersionGoes
<1>1. Inv => RefusedVersionGoes
  BY DEF Inv, Fine, ConflictOK, RefusedVersionGoes, Console!RefusedVersionGoes
<1> QED  BY <1>1, Always, PTL
=============================================================================
