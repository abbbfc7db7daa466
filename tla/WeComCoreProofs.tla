--------------------------- MODULE WeComCoreProofs ---------------------------
(* Proofs about WeComCore for every set of messages, subjects, identities,  *)
(* conversations and handlers, and whatever statements fail.                *)
EXTENDS WeComCore, TLAPS

-----------------------------------------------------------------------------
(* Calls and what an edit does to one.                                     *)

Busy(h) == handler[h] # Idle
Phases == {"resolve", "map", "verify", "attach", "locked", "respond", "recheck", "mark",
           "send", "finish", "catch"}

\* The fields of a call.
Holds(c, p, m, i, v, d, u, s) ==
  /\ c.phase = p /\ c.message = m /\ c.identity = i /\ c.conversation = v
  /\ c.dispatched = d /\ c.uncertain = u /\ c.seen = s

LEMMA CallFields ==
  ASSUME NEW c \in Call
  PROVE  /\ c.phase \in Phases /\ c.message \in Message
         /\ c.identity \in Identity \cup {None} /\ c.conversation \in Conversation \cup {None}
         /\ c.dispatched \in BOOLEAN /\ c.uncertain \in BOOLEAN
         /\ c.seen \in SUBSET (Identity \cup {None})
         /\ c # Idle
BY DEF Call, Idle, Phases

\* The edits of the handler's steps.
LEMMA Edits ==
  ASSUME NEW c \in Call, NEW p \in Phases, NEW e,
         NEW i \in Identity \cup {None}, NEW v \in Conversation \cup {None},
         NEW s \in SUBSET (Identity \cup {None})
  PROVE  /\ e = [c EXCEPT !.phase = p] =>
              e \in Call /\ Holds(e, p, c.message, c.identity, c.conversation, c.dispatched, c.uncertain, c.seen)
         /\ e = [c EXCEPT !.identity = i, !.phase = p] =>
              e \in Call /\ Holds(e, p, c.message, i, c.conversation, c.dispatched, c.uncertain, c.seen)
         /\ e = [c EXCEPT !.conversation = v, !.phase = p] =>
              e \in Call /\ Holds(e, p, c.message, c.identity, v, c.dispatched, c.uncertain, c.seen)
         /\ e = [c EXCEPT !.phase = p, !.dispatched = TRUE] =>
              e \in Call /\ Holds(e, p, c.message, c.identity, c.conversation, TRUE, c.uncertain, c.seen)
         /\ e = [c EXCEPT !.phase = p, !.seen = s] =>
              e \in Call /\ Holds(e, p, c.message, c.identity, c.conversation, c.dispatched, c.uncertain, s)
         /\ e = [c EXCEPT !.uncertain = TRUE, !.phase = p] =>
              e \in Call /\ Holds(e, p, c.message, c.identity, c.conversation, c.dispatched, TRUE, c.seen)
         /\ e = [c EXCEPT !.seen = s] =>
              e \in Call /\ Holds(e, c.phase, c.message, c.identity, c.conversation, c.dispatched, c.uncertain, s)
<1>1. ASSUME e = [c EXCEPT !.phase = p] PROVE e \in Call /\ Holds(e, p, c.message, c.identity, c.conversation, c.dispatched, c.uncertain, c.seen)
  BY <1>1 DEF Call, Phases, Holds
<1>2. ASSUME e = [c EXCEPT !.identity = i, !.phase = p] PROVE e \in Call /\ Holds(e, p, c.message, i, c.conversation, c.dispatched, c.uncertain, c.seen)
  BY <1>2 DEF Call, Phases, Holds
<1>3. ASSUME e = [c EXCEPT !.conversation = v, !.phase = p] PROVE e \in Call /\ Holds(e, p, c.message, c.identity, v, c.dispatched, c.uncertain, c.seen)
  BY <1>3 DEF Call, Phases, Holds
<1>4. ASSUME e = [c EXCEPT !.phase = p, !.dispatched = TRUE] PROVE e \in Call /\ Holds(e, p, c.message, c.identity, c.conversation, TRUE, c.uncertain, c.seen)
  BY <1>4 DEF Call, Phases, Holds
<1>5. ASSUME e = [c EXCEPT !.phase = p, !.seen = s] PROVE e \in Call /\ Holds(e, p, c.message, c.identity, c.conversation, c.dispatched, c.uncertain, s)
  BY <1>5 DEF Call, Phases, Holds
<1>6. ASSUME e = [c EXCEPT !.uncertain = TRUE, !.phase = p] PROVE e \in Call /\ Holds(e, p, c.message, c.identity, c.conversation, c.dispatched, TRUE, c.seen)
  BY <1>6 DEF Call, Phases, Holds
<1>7. ASSUME e = [c EXCEPT !.seen = s] PROVE e \in Call /\ Holds(e, c.phase, c.message, c.identity, c.conversation, c.dispatched, c.uncertain, s)
  BY <1>7 DEF Call, Phases, Holds
<1> QED  BY <1>1, <1>2, <1>3, <1>4, <1>5, <1>6, <1>7

-----------------------------------------------------------------------------
(* The invariant.                                                          *)

Early == {"resolve", "map", "verify", "attach", "locked"}
Working == {"respond", "recheck", "mark"}
Sending == {"send", "finish"}

Unsent(m) == m \notin outbox /\ delivered[m] = 0

\* What the phase of a call says of its row and its reply.
CallInv(h) ==
  LET c == handler[h]
      m == handler[h].message
      row == rows[handler[h].message]
  IN  Busy(h) =>
        /\ row \in Row
        /\ c.phase \in Early => row = NewRow /\ ~c.dispatched /\ ~c.uncertain
        /\ c.phase \in {"verify", "attach", "locked"} => c.conversation \in Conversation
        /\ c.phase \in Working \cup Sending =>
             row.state = "processing" /\ row.conversation = c.conversation /\ row.conversation # None
             /\ c.dispatched
        /\ c.phase \in Working => row.delivery = "not_sent" /\ ~c.uncertain
        /\ c.phase \in Sending => row.delivery = "indeterminate" /\ c.uncertain
        /\ c.phase = "send" => m \in outbox \/ delivered[m] = 1
        /\ c.phase = "finish" => m \notin outbox /\ delivered[m] = 1
        /\ c.phase = "catch" /\ c.uncertain => c.dispatched
        /\ c.phase = "catch" /\ c.dispatched => row.conversation # None
        /\ c.phase = "catch" /\ ~c.uncertain => row.state = "processing" /\ row.delivery = "not_sent"

\* Two calls are never at one message: only one of them claimed it.
Exclusive ==
  \A h, g \in Handler : h # g /\ Busy(h) /\ Busy(g) => handler[h].message # handler[g].message

\* What a row says of its reply.
RowInv(m) ==
  /\ delivered[m] \in {0, 1}
  /\ m \in outbox => delivered[m] = 0
  /\ rows[m] = NoRow => Unsent(m)
  /\ rows[m] # NoRow =>
       /\ rows[m].delivery = "not_sent" => Unsent(m)
       /\ rows[m].delivery # "not_sent" => rows[m].conversation # None
       /\ rows[m].state = "completed" => m \notin outbox /\ delivered[m] = 1
       /\ rows[m].state = "failed" => rows[m].delivery = "not_sent"

ReplyInv ==
  /\ TypeOK
  /\ Exclusive
  /\ \A h \in Handler : CallInv(h)
  /\ \A m \in Message : RowInv(m)

LEMMA RowFields ==
  /\ \A row \in Row : row # NoRow /\ row.state \in {"processing"} \cup Settled
       /\ row.delivery \in Delivery /\ row.conversation \in Conversation \cup {None}
  /\ NewRow \in Row /\ NewRow # NoRow
  /\ NewRow.state = "processing" /\ NewRow.delivery = "not_sent" /\ NewRow.conversation = None
<1>1. ASSUME NEW row \in Row
      PROVE  row # NoRow /\ row.state \in {"processing"} \cup Settled
             /\ row.delivery \in Delivery /\ row.conversation \in Conversation \cup {None}
  BY DEF Row, NoRow, Settled
<1>2. NewRow \in Row
  BY DEF Row, NewRow, Delivery
<1>3. NewRow # NoRow /\ NewRow.state = "processing" /\ NewRow.delivery = "not_sent" /\ NewRow.conversation = None
  BY <1>1, <1>2 DEF NewRow
<1> QED  BY <1>1, <1>2, <1>3

LEMMA ReplyInit == Init => ReplyInv
<1> SUFFICES ASSUME Init PROVE ReplyInv
  OBVIOUS
<1>1. TypeOK
  BY CoreAssumption DEF Init, TypeOK
<1>2. (\A h \in Handler : ~Busy(h)) /\ \A m \in Message : RowInv(m)
  BY DEF Init, Busy, RowInv, Unsent
<1> QED  BY <1>1, <1>2 DEF ReplyInv, Exclusive, CallInv

\* A step that touches only one call, its row and its reply needs to be looked
\* at there only.
Local(h) ==
  /\ handler' \in [Handler -> Call \cup {Idle}]
  /\ \A g \in Handler \ {h} : handler'[g] = handler[g]
  /\ handler'[h] # Idle => handler'[h].message = handler[h].message
  /\ rows' \in [Message -> Row \cup {NoRow}]
  /\ \A m \in Message \ {handler[h].message} : rows'[m] = rows[m]
  /\ outbox' \subseteq Message
  /\ \A m \in Message \ {handler[h].message} : m \in outbox' <=> m \in outbox
  /\ left' \subseteq Message
  /\ UNCHANGED <<identity, delivered>>

LEMMA MessageIsMessage ==
  ASSUME TypeOK, NEW h \in Handler, Busy(h)
  PROVE  handler[h] \in Call /\ handler[h].message \in Message
BY CallFields DEF TypeOK, Busy

LEMMA Locality ==
  ASSUME ReplyInv, NEW h \in Handler, Busy(h), Local(h), CallInv(h)',
         NEW m \in Message, m = handler[h].message, RowInv(m)'
  PROVE  ReplyInv'
<1>1. ASSUME NEW n \in Message PROVE RowInv(n)'
  <2>1. CASE n = m
    BY <2>1
  <2>2. CASE n # m
    BY <2>2 DEF Local, RowInv, Unsent, ReplyInv
  <2> QED  BY <2>1, <2>2
<1>2. TypeOK'
  <2>1. \A n \in Message : rows'[n] # NoRow /\ rows'[n].delivery # "not_sent" => rows'[n].conversation # None
    BY <1>1 DEF RowInv
  <2> QED  BY <2>1 DEF Local, TypeOK, ReplyInv
<1>3. Exclusive'
  <2>1. ASSUME NEW f \in Handler, NEW g \in Handler, f # g, Busy(f)', Busy(g)'
        PROVE  handler'[f].message # handler'[g].message
    <3>1. handler'[f].message = handler[f].message /\ Busy(f)
      BY <2>1 DEF Local, Busy
    <3>2. handler'[g].message = handler[g].message /\ Busy(g)
      BY <2>1 DEF Local, Busy
    <3> QED  BY <2>1, <3>1, <3>2 DEF ReplyInv, Exclusive
  <2> QED  BY <2>1 DEF Exclusive
<1>4. ASSUME NEW g \in Handler PROVE CallInv(g)'
  <2>1. CASE g = h
    BY <2>1
  <2>2. CASE g # h /\ Busy(g)
    <3>1. handler'[g] = handler[g] /\ handler[g].message # m
      BY <2>2 DEF Local, ReplyInv, Exclusive
    <3>2. handler[g].message \in Message
      BY <2>2, MessageIsMessage DEF ReplyInv
    <3>3. /\ rows'[handler[g].message] = rows[handler[g].message]
          /\ handler[g].message \in outbox' <=> handler[g].message \in outbox
          /\ delivered' = delivered
      BY <3>1, <3>2 DEF Local
    <3>4. CallInv(g)
      BY DEF ReplyInv
    <3> QED  BY <2>2, <3>1, <3>3, <3>4 DEF CallInv, Busy
  <2>3. CASE g # h /\ ~Busy(g)
    BY <2>3 DEF Local, Busy, CallInv
  <2> QED  BY <2>1, <2>2, <2>3
<1> QED  BY <1>1, <1>2, <1>3, <1>4 DEF ReplyInv

-----------------------------------------------------------------------------
(* The steps of a call.                                                    *)

\* The call of h gets these fields; the other calls stay.
Becomes(h, p, i, v, d, u, s) ==
  /\ handler' \in [Handler -> Call \cup {Idle}]
  /\ \A g \in Handler \ {h} : handler'[g] = handler[g]
  /\ handler'[h] \in Call
  /\ Holds(handler'[h], p, handler[h].message, i, v, d, u, s)

\* A step that only moves the call on, and may note what it has read.
Moves(h, p) ==
  /\ \E i \in Identity \cup {None}, v \in Conversation \cup {None}, s \in SUBSET (Identity \cup {None}) :
       /\ Becomes(h, p, i, v, handler[h].dispatched, handler[h].uncertain, s)
       /\ handler[h].phase # "map" => v = handler[h].conversation
       /\ p = "verify" => v \in Conversation
  /\ UNCHANGED <<identity, rows, outbox, delivered, left>>

LEMMA ToBecomes ==
  ASSUME TypeOK, NEW h \in Handler, Busy(h), NEW p \in Phases, To(h, p)
  PROVE  Becomes(h, p, handler[h].identity, handler[h].conversation,
                 handler[h].dispatched, handler[h].uncertain, handler[h].seen)
<1>1. handler \in [Handler -> Call \cup {Idle}] /\ handler[h] \in Call
  BY MessageIsMessage DEF TypeOK
<1>2. handler'[h] = [handler[h] EXCEPT !.phase = p] /\ \A g \in Handler \ {h} : handler'[g] = handler[g]
  BY <1>1 DEF To
<1>3. handler'[h] \in Call /\ Holds(handler'[h], p, handler[h].message, handler[h].identity,
        handler[h].conversation, handler[h].dispatched, handler[h].uncertain, handler[h].seen)
  BY <1>1, <1>2, CallFields, Edits
<1>4. handler' = [handler EXCEPT ![h] = handler'[h]]
  BY <1>1, <1>2 DEF To
<1>5. handler' \in [Handler -> Call \cup {Idle}]
  BY <1>1, <1>3, <1>4
<1> QED  BY <1>2, <1>3, <1>5 DEF Becomes

LEMMA ToMoves ==
  ASSUME TypeOK, NEW h \in Handler, Busy(h), NEW p \in Phases, p # "verify", To(h, p),
         UNCHANGED <<identity, rows, outbox, delivered, left>>
  PROVE  Moves(h, p)
<1>1. handler[h] \in Call
  BY MessageIsMessage
<1> QED  BY <1>1, ToBecomes, CallFields DEF Moves

LEMMA IdentityType ==
  ASSUME TypeOK, NEW h \in Handler, Busy(h)
  PROVE  IdentityOf(h) \in Identity \cup {None}
BY CoreAssumption, MessageIsMessage DEF TypeOK, IdentityOf, MessageOf

\* Where the steps that only move a call lead.
Follows(h, p) ==
  \/ handler[h].phase \in Early /\ p = "catch"
  \/ <<handler[h].phase, p>> \in
       {<<"resolve", "map">>, <<"map", "verify">>, <<"verify", "attach">>, <<"attach", "locked">>}
  \/ handler[h].phase = "respond" /\ p \in {"recheck", "catch"}
  \/ handler[h].phase = "recheck" /\ p \in {"mark", "catch"}
  \/ handler[h].phase = "send" /\ p = "finish" /\ handler[h].message \notin outbox
  \/ handler[h].phase = "send" /\ p = "catch"

Quiet(h) ==
  \/ \E o \in Outcome("read") : ResolveIdentity(h, o) \/ Verify(h, o) \/ Recheck(h, o)
  \/ ResolveConversation(h)
  \/ \E o \in Outcome("attach") : AttachLock(h, o)
  \/ Respond(h)
  \/ Send(h)

LEMMA AtBusy ==
  ASSUME NEW h \in Handler, NEW p \in Phases, At(h, p)
  PROVE  Busy(h) /\ handler[h].phase = p
BY DEF At, Busy, Idle, Phases

LEMMA QuietMoves ==
  ASSUME TypeOK, NEW h \in Handler, Quiet(h)
  PROVE  Busy(h) /\ \E p \in Phases : Moves(h, p) /\ Follows(h, p)
<1> USE DEF Phases, Early
<1>1. ASSUME NEW o \in Outcome("read"), ResolveIdentity(h, o)
      PROVE  Busy(h) /\ \E p \in Phases : Moves(h, p) /\ Follows(h, p)
  <2>1. Busy(h) /\ handler[h].phase = "resolve"
    BY <1>1, AtBusy DEF ResolveIdentity
  <2>2. PICK p \in {"map", "catch"} :
          handler' = [handler EXCEPT ![h].identity = IdentityOf(h), ![h].phase = p]
    BY <1>1 DEF ResolveIdentity
  <2>3. handler \in [Handler -> Call \cup {Idle}] /\ handler[h] \in Call
    BY <2>1, MessageIsMessage DEF TypeOK
  <2>4. PICK i \in Identity \cup {None} : i = IdentityOf(h)
    BY <2>1, IdentityType
  <2>5. /\ handler'[h] = [handler[h] EXCEPT !.identity = i, !.phase = p]
        /\ \A g \in Handler \ {h} : handler'[g] = handler[g]
    BY <2>2, <2>3, <2>4
  <2>6. handler[h].seen \in SUBSET (Identity \cup {None}) /\ handler[h].conversation \in Conversation \cup {None}
    BY <2>3, CallFields
  <2>7. handler'[h] \in Call /\ Holds(handler'[h], p, handler[h].message, i,
          handler[h].conversation, handler[h].dispatched, handler[h].uncertain, handler[h].seen)
    <3>1. handler[h] \in Call /\ p \in Phases
      BY <2>3
    <3> HIDE DEF Phases
    <3> QED  BY <3>1, <2>5, <2>6, Edits
  <2>8. handler' = [handler EXCEPT ![h] = handler'[h]]
    BY <2>2, <2>3
  <2>9. Becomes(h, p, i, handler[h].conversation, handler[h].dispatched,
                handler[h].uncertain, handler[h].seen)
    BY <2>3, <2>5, <2>7, <2>8 DEF Becomes
  <2>10. Moves(h, p)
    BY <1>1, <2>6, <2>9 DEF Moves, ResolveIdentity
  <2> QED  BY <2>1, <2>10 DEF Follows
<1>2. ASSUME NEW o \in Outcome("read"), Verify(h, o)
      PROVE  Busy(h) /\ \E p \in Phases : Moves(h, p) /\ Follows(h, p)
  <2>1. Busy(h) /\ handler[h].phase = "verify"
    BY <1>2, AtBusy DEF Verify
  <2>2. PICK p \in {"attach", "catch"} : To(h, p)
    BY <1>2 DEF Verify
  <2> QED  BY <1>2, <2>1, <2>2, ToMoves DEF Verify, Follows
<1>3. ASSUME NEW o \in Outcome("read"), Recheck(h, o)
      PROVE  Busy(h) /\ \E p \in Phases : Moves(h, p) /\ Follows(h, p)
  <2>1. Busy(h) /\ handler[h].phase = "recheck"
    BY <1>3, AtBusy DEF Recheck
  <2>2. PICK p \in {"mark", "catch"} : To(h, p)
    BY <1>3 DEF Recheck
  <2> QED  BY <1>3, <2>1, <2>2, ToMoves DEF Recheck, Follows
<1>4. ASSUME ResolveConversation(h)
      PROVE  Busy(h) /\ \E p \in Phases : Moves(h, p) /\ Follows(h, p)
  <2>1. Busy(h) /\ handler[h].phase = "map"
    BY <1>4, AtBusy DEF ResolveConversation
  <2>2. CASE To(h, "catch")
    BY <1>4, <2>1, <2>2, ToMoves DEF ResolveConversation, Follows
  <2>3. ASSUME NEW v \in Conversation, handler' = [handler EXCEPT ![h].conversation = v, ![h].phase = "verify"]
        PROVE  Moves(h, "verify") /\ Follows(h, "verify")
    <3>1. handler \in [Handler -> Call \cup {Idle}] /\ handler[h] \in Call
      BY <2>1, MessageIsMessage DEF TypeOK
    <3>2. /\ handler'[h] = [handler[h] EXCEPT !.conversation = v, !.phase = "verify"]
          /\ \A g \in Handler \ {h} : handler'[g] = handler[g]
      BY <2>3, <3>1
    <3>3. handler'[h] \in Call /\ Holds(handler'[h], "verify", handler[h].message, handler[h].identity,
            v, handler[h].dispatched, handler[h].uncertain, handler[h].seen)
      BY <3>1, <3>2, CallFields, Edits
    <3>4. handler' = [handler EXCEPT ![h] = handler'[h]]
      BY <2>3, <3>1, <3>2
    <3>5. Becomes(h, "verify", handler[h].identity, v, handler[h].dispatched,
                  handler[h].uncertain, handler[h].seen)
      BY <3>1, <3>2, <3>3, <3>4 DEF Becomes
    <3> QED  BY <1>4, <2>1, <3>1, <3>5, CallFields DEF Moves, Follows, ResolveConversation
  <2> QED  BY <1>4, <2>1, <2>2, <2>3 DEF ResolveConversation
<1>5. ASSUME NEW o \in Outcome("attach"), AttachLock(h, o)
      PROVE  Busy(h) /\ \E p \in Phases : Moves(h, p) /\ Follows(h, p)
  <2>1. Busy(h) /\ handler[h].phase = "attach"
    BY <1>5, AtBusy DEF AttachLock
  <2>2. PICK p \in {"locked", "catch"} : To(h, p)
    BY <1>5 DEF AttachLock
  <2> QED  BY <1>5, <2>1, <2>2, ToMoves DEF AttachLock, Follows
<1>6. ASSUME Respond(h)
      PROVE  Busy(h) /\ \E p \in Phases : Moves(h, p) /\ Follows(h, p)
  <2>1. Busy(h) /\ handler[h].phase = "respond"
    BY <1>6, AtBusy DEF Respond
  <2>2. CASE To(h, "catch")
    BY <1>6, <2>1, <2>2, ToMoves DEF Respond, Follows
  <2>3. CASE handler' = [handler EXCEPT ![h].phase = "recheck", ![h].seen = {IdentityOf(h)}]
    <3>1. handler \in [Handler -> Call \cup {Idle}] /\ handler[h] \in Call
      BY <2>1, MessageIsMessage DEF TypeOK
    <3>2. /\ handler'[h] = [handler[h] EXCEPT !.phase = "recheck", !.seen = {IdentityOf(h)}]
          /\ \A g \in Handler \ {h} : handler'[g] = handler[g]
      BY <2>3, <3>1
    <3>3. {IdentityOf(h)} \in SUBSET (Identity \cup {None})
      BY <2>1, IdentityType
    <3>4. handler'[h] \in Call /\ Holds(handler'[h], "recheck", handler[h].message, handler[h].identity,
            handler[h].conversation, handler[h].dispatched, handler[h].uncertain, {IdentityOf(h)})
      BY <3>1, <3>2, <3>3, CallFields, Edits
    <3>5. handler' = [handler EXCEPT ![h] = handler'[h]]
      BY <2>3, <3>1, <3>2
    <3>6. Becomes(h, "recheck", handler[h].identity, handler[h].conversation, handler[h].dispatched,
                  handler[h].uncertain, {IdentityOf(h)})
      BY <3>1, <3>2, <3>4, <3>5 DEF Becomes
    <3> QED  BY <1>6, <2>1, <3>1, <3>3, <3>6, CallFields DEF Moves, Follows, Respond
  <2> QED  BY <1>6, <2>2, <2>3 DEF Respond
<1>7. ASSUME Send(h)
      PROVE  Busy(h) /\ \E p \in Phases : Moves(h, p) /\ Follows(h, p)
  <2>1. Busy(h) /\ handler[h].phase = "send"
    BY <1>7, AtBusy DEF Send
  <2>2. PICK p \in {"finish", "catch"} : To(h, p) /\ (p = "finish" => MessageOf(h) \notin outbox)
    BY <1>7 DEF Send
  <2> QED  BY <1>7, <2>1, <2>2, ToMoves DEF Send, Follows, MessageOf
<1> QED  BY <1>1, <1>2, <1>3, <1>4, <1>5, <1>6, <1>7 DEF Quiet

\* What a step of a call does to the row of m, and to no other: nothing, or it
\* edits a row in progress, and what it then settles is a fact.
Writes(m) ==
  /\ \A n \in Message \ {m} : rows'[n] = rows[n]
  /\ delivered' = delivered
  /\ rows' \in [Message -> Row \cup {NoRow}]
  /\ \/ rows'[m] = rows[m]
     \/ /\ rows[m] \in Row /\ rows'[m] \in Row /\ rows[m].state = "processing"
        /\ rows'[m].state = "completed" => delivered[m] = 1
        /\ rows'[m].state = "failed" => delivered[m] = 0
        /\ rows'[m].state # "processing" /\ rows'[m].delivery = "not_sent" => delivered[m] = 0

Keeps(m) == rows'[m].conversation = rows[m].conversation

LEMMA QuietStep ==
  ASSUME ReplyInv, NEW h \in Handler, Quiet(h)
  PROVE  ReplyInv' /\ rows' = rows /\ delivered' = delivered
<1>1. Busy(h) /\ handler[h] \in Call
  BY QuietMoves, MessageIsMessage DEF ReplyInv
<1>2. PICK p \in Phases : Moves(h, p) /\ Follows(h, p)
  BY QuietMoves DEF ReplyInv
<1>3. PICK i \in Identity \cup {None}, v \in Conversation \cup {None}, s \in SUBSET (Identity \cup {None}) :
        /\ Becomes(h, p, i, v, handler[h].dispatched, handler[h].uncertain, s)
        /\ handler[h].phase # "map" => v = handler[h].conversation
        /\ p = "verify" => v \in Conversation
  BY <1>2 DEF Moves
<1>4. PICK m \in Message : m = handler[h].message
  BY <1>1, CallFields
<1>5. UNCHANGED <<identity, rows, outbox, delivered, left>>
  BY <1>2 DEF Moves
<1>6. Local(h)
  BY <1>3, <1>5 DEF Local, Becomes, Holds, ReplyInv, TypeOK
<1>7. RowInv(m)'
  BY <1>5 DEF ReplyInv, RowInv, Unsent
<1>8. CallInv(h)'
  <2>1. CallInv(h) /\ RowInv(m)
    BY DEF ReplyInv
  <2>2. /\ handler'[h].phase = p /\ handler'[h].message = m /\ handler'[h].conversation = v
        /\ handler'[h].dispatched = handler[h].dispatched /\ handler'[h].uncertain = handler[h].uncertain
    BY <1>3, <1>4 DEF Becomes, Holds
  <2>3. rows' = rows /\ outbox' = outbox /\ delivered' = delivered
    BY <1>5
  <2>4. rows[m] \in Row
    BY <1>1, <1>4, <2>1 DEF CallInv
  <2>5. /\ NewRow.state = "processing" /\ NewRow.delivery = "not_sent" /\ delivered[m] \in {0, 1}
    BY <2>1, RowFields DEF RowInv
  <2> QED  BY <1>1, <1>2, <1>3, <1>4, <2>1, <2>2, <2>3, <2>4, <2>5
           DEF CallInv, Follows, Early, Working, Sending, Busy
<1> QED  BY <1>1, <1>4, <1>5, <1>6, <1>7, <1>8, Locality

-----------------------------------------------------------------------------
(* The steps that write.                                                   *)

\* Edits of one row.
LEMMA RowEdits ==
  ASSUME TypeOK, NEW m \in Message, rows[m] \in Row, NEW new \in Row,
         rows' = [rows EXCEPT ![m] = new] \/ (rows' = rows /\ new = rows[m])
  PROVE  rows' \in [Message -> Row \cup {NoRow}] /\ rows'[m] = new
         /\ \A n \in Message \ {m} : rows'[n] = rows[n]
BY DEF TypeOK

LEMMA RowAttached ==
  ASSUME NEW old \in Row, NEW v \in Conversation \cup {None}, NEW new, new = [old EXCEPT !.conversation = v]
  PROVE  new \in Row /\ new.state = old.state /\ new.delivery = old.delivery /\ new.conversation = v
BY DEF Row

LEMMA RowMarked ==
  ASSUME NEW old \in Row, NEW d \in Delivery, NEW new, new = [old EXCEPT !.delivery = d]
  PROVE  new \in Row /\ new.state = old.state /\ new.delivery = d /\ new.conversation = old.conversation
BY DEF Row

LEMMA AttachUpdateStep ==
  ASSUME ReplyInv, NEW h \in Handler, NEW o \in Outcome("attach"), AttachUpdate(h, o)
  PROVE  /\ ReplyInv' /\ Writes(handler[h].message)
         /\ ~Keeps(handler[h].message) =>
              Attachable(h) /\ rows'[handler[h].message].conversation = handler[h].conversation
<1>1. Busy(h) /\ handler[h].phase = "locked"
  BY AtBusy DEF AttachUpdate, Phases
<1>2. TypeOK /\ handler[h] \in Call /\ handler \in [Handler -> Call \cup {Idle}]
  BY <1>1, MessageIsMessage DEF ReplyInv, TypeOK
<1>3. PICK m \in Message : m = handler[h].message
  BY <1>2, CallFields
<1>4. PICK v \in Conversation \cup {None} : v = handler[h].conversation
  BY <1>2, CallFields
<1>5. CallInv(h) /\ RowInv(m)
  BY DEF ReplyInv
<1>6. /\ rows[m] = NewRow /\ rows[m] \in Row /\ rows[m] # NoRow
      /\ rows[m].state = "processing" /\ rows[m].delivery = "not_sent" /\ rows[m].conversation = None
      /\ ~handler[h].dispatched /\ ~handler[h].uncertain
  BY <1>1, <1>3, <1>5, RowFields DEF CallInv, Early
<1>7. Unsent(m)
  BY <1>5, <1>6 DEF RowInv
<1>8. UNCHANGED <<identity, outbox, delivered, left>>
  BY DEF AttachUpdate
<1>9. PICK new \in Row :
        /\ rows' = [rows EXCEPT ![m] = new] \/ (rows' = rows /\ new = rows[m])
        /\ new.state = "processing" /\ new.delivery = "not_sent"
        /\ Attaches(h) /\ o = "answers" => new.conversation = v
        /\ new.conversation = rows[m].conversation \/ (Attachable(h) /\ new.conversation = v)
  <2>1. CASE Attachable(h) /\ ~KeyTaken(h) /\ o # "fails"
    <3>1. rows' = [rows EXCEPT ![m].conversation = v]
      BY <1>3, <1>4, <2>1 DEF AttachUpdate, MessageOf
    <3>2. PICK new : new = [rows[m] EXCEPT !.conversation = v]
      OBVIOUS
    <3>4. new \in Row /\ new.state = rows[m].state /\ new.delivery = rows[m].delivery /\ new.conversation = v
      BY <1>6, <3>2, RowAttached
    <3>5. rows' = [rows EXCEPT ![m] = new]
      BY <1>2, <3>1, <3>2 DEF TypeOK
    <3> QED  BY <2>1, <1>6, <3>4, <3>5
  <2>2. CASE ~(Attachable(h) /\ ~KeyTaken(h) /\ o # "fails")
    BY <1>6, <2>2 DEF AttachUpdate, Attaches
  <2> QED  BY <2>1, <2>2
<1>10. /\ rows' \in [Message -> Row \cup {NoRow}] /\ rows'[m] = new
       /\ \A n \in Message \ {m} : rows'[n] = rows[n]
  BY <1>2, <1>6, <1>9, RowEdits
<1>11. RowInv(m)'
  BY <1>5, <1>7, <1>8, <1>9, <1>10, RowFields DEF RowInv, Unsent
<1>12. Writes(m) /\ (Keeps(m) \/ (Attachable(h) /\ rows'[m].conversation = v))
  BY <1>6, <1>8, <1>9, <1>10 DEF Writes, Keeps
<1>13. CASE Attaches(h) /\ o = "answers"
  <2>1. handler' = [handler EXCEPT ![h].phase = "respond", ![h].dispatched = TRUE]
    BY <1>13 DEF AttachUpdate
  <2>2. /\ handler'[h] = [handler[h] EXCEPT !.phase = "respond", !.dispatched = TRUE]
        /\ \A g \in Handler \ {h} : handler'[g] = handler[g]
    BY <1>2, <2>1
  <2>3. "respond" \in Phases /\ handler[h].identity \in Identity \cup {None}
        /\ handler[h].seen \in SUBSET (Identity \cup {None})
    BY <1>2, CallFields DEF Phases
  <2>4. handler'[h] \in Call /\ Holds(handler'[h], "respond", m, handler[h].identity, v,
          TRUE, handler[h].uncertain, handler[h].seen)
    BY <1>2, <1>3, <1>4, <2>2, <2>3, Edits
  <2>5. handler' = [handler EXCEPT ![h] = handler'[h]]
    BY <1>2, <2>1
  <2>6. handler' \in [Handler -> Call \cup {Idle}]
    BY <1>2, <2>4, <2>5
  <2>7. Local(h)
    BY <1>2, <1>3, <1>8, <1>10, <2>2, <2>4, <2>6 DEF Local, Holds, TypeOK
  <2>8. v # None
    BY <1>1, <1>2, <1>4, <1>5, CoreAssumption DEF CallInv
  <2>9. CallInv(h)'
    BY <1>3, <1>4, <1>6, <1>9, <1>10, <1>13, <2>4, <2>8 DEF CallInv, Holds, Early, Working, Sending
  <2> QED  BY <1>1, <1>3, <1>4, <1>11, <1>12, <2>7, <2>9, Locality
<1>14. CASE ~(Attaches(h) /\ o = "answers")
  <2>1. Becomes(h, "catch", handler[h].identity, v, handler[h].dispatched, handler[h].uncertain, handler[h].seen)
    BY <1>1, <1>2, <1>4, <1>14, ToBecomes DEF AttachUpdate, Phases
  <2>2. Local(h)
    BY <1>2, <1>3, <1>8, <1>10, <2>1 DEF Local, Becomes, Holds, TypeOK
  <2>3. CallInv(h)'
    BY <1>3, <1>6, <1>9, <1>10, <2>1 DEF CallInv, Becomes, Holds, Early, Working, Sending
  <2> QED  BY <1>1, <1>3, <1>4, <1>11, <1>12, <2>2, <2>3, Locality
<1> QED  BY <1>13, <1>14

LEMMA MarkStep ==
  ASSUME ReplyInv, NEW h \in Handler, NEW o \in Outcome("mark"), Mark(h, o)
  PROVE  ReplyInv' /\ Writes(handler[h].message) /\ Keeps(handler[h].message)
<1>1. Busy(h) /\ handler[h].phase = "mark"
  BY AtBusy DEF Mark, Phases
<1>2. TypeOK /\ handler[h] \in Call /\ handler \in [Handler -> Call \cup {Idle}]
  BY <1>1, MessageIsMessage DEF ReplyInv, TypeOK
<1>3. PICK m \in Message : m = handler[h].message
  BY <1>2, CallFields
<1>4. CallInv(h) /\ RowInv(m)
  BY DEF ReplyInv
<1>5. /\ rows[m] \in Row /\ rows[m].state = "processing" /\ rows[m].delivery = "not_sent"
      /\ rows[m].conversation = handler[h].conversation /\ rows[m].conversation # None
      /\ handler[h].dispatched /\ ~handler[h].uncertain
  BY <1>1, <1>3, <1>4 DEF CallInv, Working
<1>6. rows[m] # NoRow /\ Unsent(m)
  BY <1>4, <1>5, RowFields DEF RowInv
<1>7. UNCHANGED <<identity, delivered, left>>
  BY DEF Mark
<1>8. PICK new \in Row :
        /\ rows' = [rows EXCEPT ![m] = new] \/ (rows' = rows /\ new = rows[m])
        /\ new.state = "processing" /\ new.delivery \in {"not_sent", "indeterminate"}
        /\ new.conversation = rows[m].conversation
        /\ o = "answers" => new.delivery = "indeterminate"
  <2>1. CASE o # "fails"
    <3>1. rows' = [rows EXCEPT ![m].delivery = "indeterminate"]
      BY <1>3, <1>5, <2>1 DEF Mark, MessageOf
    <3>2. PICK new : new = [rows[m] EXCEPT !.delivery = "indeterminate"]
      OBVIOUS
    <3>3. "indeterminate" \in Delivery
      BY DEF Delivery
    <3>4. new \in Row /\ new.state = rows[m].state /\ new.delivery = "indeterminate"
          /\ new.conversation = rows[m].conversation
      BY <1>5, <3>2, <3>3, RowMarked
    <3>5. rows' = [rows EXCEPT ![m] = new]
      BY <1>2, <3>1, <3>2 DEF TypeOK
    <3> QED  BY <1>5, <3>4, <3>5
  <2>2. CASE o = "fails"
    BY <1>5, <2>2 DEF Mark
  <2> QED  BY <2>1, <2>2
<1>9. /\ rows' \in [Message -> Row \cup {NoRow}] /\ rows'[m] = new
      /\ \A n \in Message \ {m} : rows'[n] = rows[n]
  BY <1>2, <1>5, <1>8, RowEdits
<1>10. outbox' = IF o = "answers" THEN outbox \cup {m} ELSE outbox
  BY <1>3, <1>5 DEF Mark, MessageOf
<1>11. RowInv(m)'
  BY <1>4, <1>6, <1>7, <1>8, <1>9, <1>10, RowFields, <1>5 DEF RowInv, Unsent
<1>12. PICK p \in {"send", "catch"} :
         /\ handler' = [handler EXCEPT ![h].uncertain = TRUE, ![h].phase = p]
         /\ p = "send" => o = "answers"
  BY <1>3, <1>5 DEF Mark, MessageOf
<1>13. /\ handler'[h] = [handler[h] EXCEPT !.uncertain = TRUE, !.phase = p]
       /\ \A g \in Handler \ {h} : handler'[g] = handler[g]
  BY <1>2, <1>12
<1>14. /\ p \in Phases /\ handler[h].identity \in Identity \cup {None}
       /\ handler[h].conversation \in Conversation \cup {None}
       /\ handler[h].seen \in SUBSET (Identity \cup {None})
  BY <1>2, CallFields DEF Phases
<1>15. handler'[h] \in Call /\ Holds(handler'[h], p, m, handler[h].identity, handler[h].conversation,
         handler[h].dispatched, TRUE, handler[h].seen)
  BY <1>2, <1>3, <1>13, <1>14, Edits
<1>16. handler' = [handler EXCEPT ![h] = handler'[h]]
  BY <1>2, <1>12
<1>17. handler' \in [Handler -> Call \cup {Idle}]
  BY <1>2, <1>15, <1>16
<1>18. Local(h)
  BY <1>2, <1>3, <1>7, <1>9, <1>10, <1>13, <1>15, <1>17 DEF Local, Holds, TypeOK
<1>19. CallInv(h)'
  <2>1. /\ handler'[h].phase = p /\ handler'[h].message = m /\ handler'[h].dispatched
        /\ handler'[h].conversation = handler[h].conversation /\ handler'[h].uncertain
    BY <1>5, <1>15 DEF Holds
  <2>2. /\ rows'[m] \in Row /\ rows'[m].state = "processing"
        /\ rows'[m].conversation = handler[h].conversation /\ rows'[m].conversation # None
        /\ o = "answers" => rows'[m].delivery = "indeterminate" /\ m \in outbox'
    BY <1>5, <1>8, <1>9, <1>10
  <2> QED  BY <1>12, <2>1, <2>2 DEF CallInv, Early, Working, Sending
<1>20. Writes(m) /\ Keeps(m)
  BY <1>5, <1>7, <1>8, <1>9 DEF Writes, Keeps
<1> QED  BY <1>1, <1>3, <1>11, <1>18, <1>19, <1>20, Locality

\* A call that ends leaves nothing to say about itself.
LEMMA EndsLocally ==
  ASSUME TypeOK, NEW h \in Handler, handler' = [handler EXCEPT ![h] = Idle]
  PROVE  /\ handler' \in [Handler -> Call \cup {Idle}]
         /\ \A g \in Handler \ {h} : handler'[g] = handler[g]
         /\ handler'[h] = Idle /\ CallInv(h)'
BY DEF TypeOK, CallInv, Busy

LEMMA FinishStep ==
  ASSUME ReplyInv, NEW h \in Handler, NEW o \in Outcome("finish"), Finish(h, o)
  PROVE  ReplyInv' /\ Writes(handler[h].message) /\ Keeps(handler[h].message)
<1>1. Busy(h) /\ handler[h].phase = "finish"
  BY AtBusy DEF Finish, Phases
<1>2. TypeOK /\ handler[h] \in Call /\ handler \in [Handler -> Call \cup {Idle}]
  BY <1>1, MessageIsMessage DEF ReplyInv, TypeOK
<1>3. PICK m \in Message : m = handler[h].message
  BY <1>2, CallFields
<1>4. CallInv(h) /\ RowInv(m)
  BY DEF ReplyInv
<1>5. /\ rows[m] \in Row /\ rows[m].state = "processing" /\ rows[m].delivery = "indeterminate"
      /\ rows[m].conversation # None /\ handler[h].dispatched /\ handler[h].uncertain
      /\ m \notin outbox /\ delivered[m] = 1
  BY <1>1, <1>3, <1>4 DEF CallInv, Sending
<1>6. rows[m] # NoRow
  BY <1>5, RowFields
<1>7. UNCHANGED <<identity, outbox, delivered, left>>
  BY DEF Finish
<1>8. PICK new \in Row :
        /\ rows' = [rows EXCEPT ![m] = new] \/ (rows' = rows /\ new = rows[m])
        /\ new.state \in {"processing", "completed"} /\ new.delivery \in {"sent", "indeterminate"}
        /\ new.conversation = rows[m].conversation
  <2>1. CASE o # "fails"
    <3>1. rows' = [rows EXCEPT ![m].state = "completed", ![m].delivery = "sent"]
      BY <1>3, <1>5, <2>1 DEF Finish, FinishRow, Finishable, MessageOf
    <3>2. PICK new : new = [rows[m] EXCEPT !.state = "completed", !.delivery = "sent"]
      OBVIOUS
    <3>4. new \in Row /\ new.state = "completed" /\ new.delivery = "sent"
          /\ new.conversation = rows[m].conversation
      BY <1>5, <3>2 DEF Row, Settled, Delivery
    <3>5. rows' = [rows EXCEPT ![m] = new]
      BY <1>2, <3>1, <3>2 DEF TypeOK
    <3> QED  BY <1>5, <3>4, <3>5
  <2>2. CASE o = "fails"
    BY <1>5, <2>2 DEF Finish, FinishRow
  <2> QED  BY <2>1, <2>2
<1>9. /\ rows' \in [Message -> Row \cup {NoRow}] /\ rows'[m] = new
      /\ \A n \in Message \ {m} : rows'[n] = rows[n]
  BY <1>2, <1>5, <1>8, RowEdits
<1>10. RowInv(m)'
  BY <1>4, <1>5, <1>7, <1>8, <1>9, RowFields DEF RowInv, Unsent
<1>11. Writes(m) /\ Keeps(m)
  BY <1>5, <1>7, <1>8, <1>9 DEF Writes, Keeps
<1>12. CASE handler' = [handler EXCEPT ![h] = Idle]
  <2>1. Local(h) /\ CallInv(h)'
    BY <1>2, <1>3, <1>7, <1>9, <1>12, EndsLocally DEF Local, TypeOK
  <2> QED  BY <1>1, <1>3, <1>10, <1>11, <2>1, Locality
<1>13. CASE To(h, "catch")
  <2>1. Becomes(h, "catch", handler[h].identity, handler[h].conversation, handler[h].dispatched,
                handler[h].uncertain, handler[h].seen)
    BY <1>1, <1>2, <1>13, ToBecomes DEF Phases
  <2>2. Local(h)
    BY <1>2, <1>3, <1>7, <1>9, <2>1 DEF Local, Becomes, Holds, TypeOK
  <2>3. CallInv(h)'
    BY <1>3, <1>5, <1>8, <1>9, <2>1 DEF CallInv, Becomes, Holds, Early, Working, Sending
  <2> QED  BY <1>1, <1>3, <1>10, <1>11, <2>2, <2>3, Locality
<1> QED  BY <1>12, <1>13 DEF Finish

LEMMA CatchStep ==
  ASSUME ReplyInv, NEW h \in Handler, NEW o \in Outcome("finish"), Catch(h, o)
  PROVE  ReplyInv' /\ Writes(handler[h].message) /\ Keeps(handler[h].message)
<1>1. Busy(h) /\ handler[h].phase = "catch"
  BY AtBusy DEF Catch, Phases
<1>2. TypeOK /\ handler[h] \in Call /\ handler \in [Handler -> Call \cup {Idle}]
  BY <1>1, MessageIsMessage DEF ReplyInv, TypeOK
<1>3. PICK m \in Message : m = handler[h].message
  BY <1>2, CallFields
<1>4. CallInv(h) /\ RowInv(m)
  BY DEF ReplyInv
<1>5. /\ rows[m] \in Row
      /\ handler[h].uncertain => handler[h].dispatched
      /\ handler[h].dispatched => rows[m].conversation # None
      /\ ~handler[h].uncertain => rows[m].state = "processing" /\ rows[m].delivery = "not_sent"
  BY <1>1, <1>3, <1>4 DEF CallInv
<1>6. rows[m] # NoRow /\ (~handler[h].uncertain => Unsent(m))
  BY <1>4, <1>5, RowFields DEF RowInv
<1>7. UNCHANGED <<identity, outbox, delivered>> /\ handler' = [handler EXCEPT ![h] = Idle]
      /\ (left' = left \cup {m} \/ left' = left)
  BY <1>3 DEF Catch, MessageOf
<1>8. PICK new \in Row :
        /\ rows' = [rows EXCEPT ![m] = new] \/ (rows' = rows /\ new = rows[m])
        /\ \/ new = rows[m]
           \/ /\ rows[m].state = "processing"
              /\ new.conversation = rows[m].conversation
              /\ new.state = IF handler[h].dispatched THEN "indeterminate" ELSE "failed"
              /\ new.delivery = IF handler[h].uncertain THEN "indeterminate" ELSE "not_sent"
  <2>1. CASE Finishable(m) /\ o # "fails"
    <3>1. PICK s \in Settled, d \in Delivery :
            /\ s = IF handler[h].dispatched THEN "indeterminate" ELSE "failed"
            /\ d = IF handler[h].uncertain THEN "indeterminate" ELSE "not_sent"
      BY DEF Settled, Delivery
    <3>2. rows' = [rows EXCEPT ![m].state = s, ![m].delivery = d]
      BY <1>3, <2>1, <3>1 DEF Catch, Catches, CatchDelivery, FinishRow, MessageOf
    <3>3. PICK new : new = [rows[m] EXCEPT !.state = s, !.delivery = d]
      OBVIOUS
    <3>4. new \in Row /\ new.state = s /\ new.delivery = d /\ new.conversation = rows[m].conversation
      BY <1>5, <3>1, <3>3 DEF Row, Settled
    <3>5. rows' = [rows EXCEPT ![m] = new]
      BY <1>2, <3>2, <3>3 DEF TypeOK
    <3> QED  BY <2>1, <3>1, <3>4, <3>5 DEF Finishable
  <2>2. CASE ~(Finishable(m) /\ o # "fails")
    BY <1>3, <1>5, <2>2 DEF Catch, Catches, FinishRow, MessageOf
  <2> QED  BY <2>1, <2>2
<1>9. /\ rows' \in [Message -> Row \cup {NoRow}] /\ rows'[m] = new
      /\ \A n \in Message \ {m} : rows'[n] = rows[n]
  BY <1>2, <1>5, <1>8, RowEdits
<1>10. RowInv(m)'
  <2>1. CASE new = rows[m]
    BY <1>4, <1>7, <1>9, <2>1 DEF RowInv, Unsent
  <2>2. CASE new # rows[m]
    BY <1>4, <1>5, <1>6, <1>7, <1>8, <1>9, <2>2, RowFields DEF RowInv, Unsent
  <2> QED  BY <2>1, <2>2
<1>11. Local(h) /\ CallInv(h)'
  BY <1>2, <1>3, <1>7, <1>9, EndsLocally DEF Local, TypeOK
<1>12. Writes(m) /\ Keeps(m)
  <2>1. CASE new = rows[m]
    BY <1>7, <1>9, <2>1 DEF Writes, Keeps
  <2>2. CASE new # rows[m]
    BY <1>5, <1>6, <1>7, <1>8, <1>9, <2>2 DEF Writes, Keeps, Unsent
  <2> QED  BY <2>1, <2>2
<1> QED  BY <1>1, <1>3, <1>10, <1>11, <1>12, Locality

-----------------------------------------------------------------------------
(* The other steps.                                                        *)

LEMMA ClaimStep ==
  ASSUME ReplyInv, NEW h \in Handler, NEW m \in Message, NEW o \in Outcome("claim"), Claim(h, m, o)
  PROVE  ReplyInv'
<1>1. TypeOK /\ ~Busy(h) /\ rows[m] = NoRow /\ RowInv(m) /\ Unsent(m)
      /\ handler \in [Handler -> Call \cup {Idle}]
  BY DEF ReplyInv, TypeOK, Claim, Busy, RowInv
<1>2. \A g \in Handler : Busy(g) => handler[g].message \in Message /\ handler[g].message # m
  BY <1>1, MessageIsMessage, RowFields DEF ReplyInv, CallInv
<1>3. UNCHANGED <<identity, outbox, delivered>>
  BY DEF Claim
<1>4. PICK new \in Row \cup {NoRow} :
        /\ rows' = [rows EXCEPT ![m] = new] \/ (rows' = rows /\ new = rows[m])
        /\ new \in {NoRow, NewRow}
        /\ o = "answers" => new = NewRow
  BY <1>1, RowFields DEF Claim
<1>5. /\ rows' \in [Message -> Row \cup {NoRow}] /\ rows'[m] = new
      /\ \A n \in Message \ {m} : rows'[n] = rows[n]
  BY <1>1, <1>4 DEF TypeOK
<1>6. PICK c \in Call \cup {Idle} :
        /\ handler' = [handler EXCEPT ![h] = c]
        /\ c = Idle \/ (o = "answers" /\ c = NewCall(m))
  <2>1. NewCall(m) \in Call
    BY DEF NewCall, Call
  <2>2. CASE o = "answers"
    BY <2>1, <2>2 DEF Claim
  <2>3. CASE o # "answers"
    <3>1. handler' = handler /\ handler[h] = Idle
      BY <1>1, <2>3 DEF Claim, Busy
    <3>2. handler' = [handler EXCEPT ![h] = Idle]
      BY <1>1, <3>1
    <3> QED  BY <3>2
  <2> QED  BY <2>2, <2>3
<1>7. /\ handler' \in [Handler -> Call \cup {Idle}] /\ handler'[h] = c
      /\ \A g \in Handler \ {h} : handler'[g] = handler[g]
  BY <1>1, <1>6
<1>8. c # Idle => c.phase = "resolve" /\ c.message = m /\ ~c.dispatched /\ ~c.uncertain /\ new = NewRow
  BY <1>4, <1>6 DEF NewCall
<1>9. ASSUME NEW n \in Message PROVE RowInv(n)'
  <2>1. CASE n = m
    BY <1>1, <1>3, <1>4, <1>5, <2>1, RowFields DEF RowInv, Unsent
  <2>2. CASE n # m
    <3>1. RowInv(n) /\ rows'[n] = rows[n]
      BY <1>5, <2>2 DEF ReplyInv
    <3> QED  BY <1>3, <3>1 DEF RowInv, Unsent
  <2> QED  BY <2>1, <2>2
<1>10. TypeOK'
  <2>1. \A n \in Message : rows'[n] # NoRow /\ rows'[n].delivery # "not_sent" => rows'[n].conversation # None
    BY <1>9 DEF RowInv
  <2>2. left' \subseteq Message
    BY <1>1 DEF Claim, TypeOK
  <2> QED  BY <1>1, <1>3, <1>5, <1>7, <2>1, <2>2 DEF TypeOK
<1>11. Exclusive'
  <2>1. ASSUME NEW f \in Handler, NEW g \in Handler, f # g, Busy(f)', Busy(g)'
        PROVE  handler'[f].message # handler'[g].message
    BY <1>2, <1>7, <1>8, <2>1 DEF ReplyInv, Exclusive, Busy
  <2> QED  BY <2>1 DEF Exclusive
<1>12. ASSUME NEW g \in Handler PROVE CallInv(g)'
  <2>1. CASE g = h
    BY <1>5, <1>7, <1>8, <2>1, RowFields DEF CallInv, Busy, Early, Working, Sending
  <2>2. CASE g # h /\ Busy(g)
    <3>1. handler'[g] = handler[g] /\ rows'[handler[g].message] = rows[handler[g].message] /\ CallInv(g)
      BY <1>2, <1>5, <1>7, <2>2 DEF ReplyInv
    <3> QED  BY <1>3, <3>1 DEF CallInv, Busy
  <2>3. CASE g # h /\ ~Busy(g)
    BY <1>7, <2>3 DEF CallInv, Busy
  <2> QED  BY <2>1, <2>2, <2>3
<1> QED  BY <1>9, <1>10, <1>11, <1>12 DEF ReplyInv

LEMMA DeliverStep ==
  ASSUME ReplyInv, Deliver
  PROVE  ReplyInv'
<1>1. PICK m \in outbox : /\ outbox' = outbox \ {m}
                          /\ delivered' = [delivered EXCEPT ![m] = @ + 1]
                          /\ UNCHANGED <<identity, rows, handler, left>>
  BY DEF Deliver
<1>2. m \in Message /\ TypeOK /\ delivered[m] = 0
  BY DEF ReplyInv, TypeOK, RowInv
<1>3. /\ delivered'[m] = 1 /\ \A n \in Message \ {m} : delivered'[n] = delivered[n]
      /\ delivered' \in [Message -> Nat]
  BY <1>1, <1>2 DEF TypeOK
<1>4. ASSUME NEW n \in Message PROVE RowInv(n)'
  <2>1. RowInv(n)
    BY DEF ReplyInv
  <2>2. CASE n = m
    BY <1>1, <1>2, <1>3, <2>1, <2>2 DEF RowInv, Unsent
  <2>3. CASE n # m
    BY <1>1, <1>2, <1>3, <2>1, <2>3 DEF RowInv, Unsent
  <2> QED  BY <2>2, <2>3
<1>5. TypeOK'
  BY <1>1, <1>2, <1>3 DEF TypeOK
<1>6. Exclusive'
  BY <1>1 DEF ReplyInv, Exclusive, Busy
<1>7. ASSUME NEW g \in Handler PROVE CallInv(g)'
  <2>1. CallInv(g) /\ (Busy(g) => handler[g].message \in Message)
    BY <1>2, MessageIsMessage DEF ReplyInv
  <2>2. CASE Busy(g) /\ handler[g].message = m
    BY <1>1, <1>2, <1>3, <2>1, <2>2 DEF CallInv, Busy
  <2>3. CASE ~(Busy(g) /\ handler[g].message = m)
    BY <1>1, <1>2, <1>3, <2>1, <2>3 DEF CallInv, Busy
  <2> QED  BY <2>2, <2>3
<1> QED  BY <1>4, <1>5, <1>6, <1>7 DEF ReplyInv

LEMMA SetIdentityStep ==
  ASSUME ReplyInv, NEW s \in Subject, NEW i \in Change, SetIdentity(s, i)
  PROVE  ReplyInv'
<1>1. TypeOK /\ UNCHANGED <<rows, outbox, delivered, left>>
  BY DEF ReplyInv, SetIdentity
<1>2. identity' \in [Subject -> Identity \cup {None}]
  BY <1>1, CoreAssumption DEF SetIdentity, TypeOK
<1>3. ASSUME NEW g \in Handler
      PROVE  /\ handler'[g] \in Call \cup {Idle}
             /\ Busy(g)' <=> Busy(g)
             /\ Busy(g) => /\ handler'[g].phase = handler[g].phase /\ handler'[g].message = handler[g].message
                           /\ handler'[g].conversation = handler[g].conversation
                           /\ handler'[g].dispatched = handler[g].dispatched
                           /\ handler'[g].uncertain = handler[g].uncertain
  <2>1. CASE handler'[g] = handler[g]
    BY <1>1, <2>1 DEF TypeOK, Busy
  <2>2. CASE handler'[g] # handler[g]
    <3>1. Busy(g) /\ handler'[g] = [handler[g] EXCEPT !.seen = handler[g].seen \cup {i}]
      BY <2>2 DEF SetIdentity, Busy
    <3>2. handler[g] \in Call
      BY <1>1, <3>1, MessageIsMessage
    <3>3. PICK t \in SUBSET (Identity \cup {None}) : t = handler[g].seen \cup {i}
      BY <3>2, CallFields, CoreAssumption
    <3>4. handler'[g] \in Call /\ Holds(handler'[g], handler[g].phase, handler[g].message, handler[g].identity,
            handler[g].conversation, handler[g].dispatched, handler[g].uncertain, t)
      BY <3>1, <3>2, <3>3 DEF Call, Holds
    <3> QED  BY <3>1, <3>4, CallFields DEF Holds, Busy
  <2> QED  BY <2>1, <2>2
<1>4. handler' \in [Handler -> Call \cup {Idle}]
  BY <1>3 DEF SetIdentity
<1>5. TypeOK'
  BY <1>1, <1>2, <1>4 DEF TypeOK
<1>6. Exclusive'
  BY <1>3 DEF ReplyInv, Exclusive
<1>7. ASSUME NEW g \in Handler PROVE CallInv(g)'
  BY <1>1, <1>3 DEF ReplyInv, CallInv
<1>8. \A m \in Message : RowInv(m)'
  BY <1>1 DEF ReplyInv, RowInv, Unsent
<1> QED  BY <1>5, <1>6, <1>7, <1>8 DEF ReplyInv

LEMMA CrashStep ==
  ASSUME ReplyInv, Crash
  PROVE  ReplyInv'
<1>1. TypeOK /\ UNCHANGED <<identity, rows, outbox, delivered>> /\ handler' = [h \in Handler |-> Idle]
  BY DEF ReplyInv, Crash
<1>2. left' \subseteq Message
  BY <1>1, MessageIsMessage DEF Crash, TypeOK, Busy, MessageOf
<1>3. TypeOK'
  BY <1>1, <1>2 DEF TypeOK
<1>4. \A m \in Message : RowInv(m)'
  BY <1>1 DEF ReplyInv, RowInv, Unsent
<1> QED  BY <1>1, <1>3, <1>4 DEF ReplyInv, Exclusive, CallInv, Busy

LEMMA ReplyStep == ReplyInv /\ [Next]_vars => ReplyInv'
<1> SUFFICES ASSUME ReplyInv, [Next]_vars PROVE ReplyInv'
  OBVIOUS
<1>1. CASE UNCHANGED vars
  BY <1>1 DEF vars, ReplyInv, TypeOK, Exclusive, CallInv, Busy, RowInv, Unsent
<1>2. ASSUME NEW h \in Handler, HandlerStep(h) PROVE ReplyInv'
  BY <1>2, QuietStep, AttachUpdateStep, MarkStep, FinishStep, CatchStep DEF HandlerStep, Quiet
<1>3. ASSUME NEW h \in Handler, NEW m \in Message, NEW o \in Outcome("claim"), Claim(h, m, o) PROVE ReplyInv'
  BY <1>3, ClaimStep
<1>4. ASSUME NEW s \in Subject, NEW i \in Change, SetIdentity(s, i) PROVE ReplyInv'
  BY <1>4, SetIdentityStep
<1> QED  BY <1>1, <1>2, <1>3, <1>4, DeliverStep, CrashStep DEF Next

\* The rows of wecom_inbound_messages keep the CHECK constraints of the table,
\* and only an attached row is ever marked or sent (core.ts handle).
THEOREM TypeCorrect == Spec => []TypeOK
<1>1. ReplyInv => TypeOK
  BY DEF ReplyInv
<1> QED  BY <1>1, ReplyInit, ReplyStep, PTL DEF Spec

-----------------------------------------------------------------------------
(* The promise of MessageDelivery.                                         *)

Verdicts == [m \in Message |-> Verdict(rows[m])]

LEMMA VerdictOf ==
  /\ Verdict(NoRow) = "unseen" /\ Verdict(NewRow) = "open"
  /\ \A row \in Row :
       /\ row.state = "processing" => Verdict(row) = "open"
       /\ row.state = "completed" => Verdict(row) = "replied"
       /\ row.state = "failed" => Verdict(row) = "unreplied"
       /\ row.state = "indeterminate" =>
            Verdict(row) = IF row.delivery = "not_sent" THEN "unreplied" ELSE "unknown"
<1>1. Verdict(NoRow) = "unseen" /\ Verdict(NewRow) = "open"
  BY DEF Verdict, NoRow, NewRow
<1>2. ASSUME NEW row \in Row
      PROVE  /\ row.state = "processing" => Verdict(row) = "open"
             /\ row.state = "completed" => Verdict(row) = "replied"
             /\ row.state = "failed" => Verdict(row) = "unreplied"
             /\ row.state = "indeterminate" =>
                  Verdict(row) = IF row.delivery = "not_sent" THEN "unreplied" ELSE "unknown"
  BY DEF Verdict
<1> QED  BY <1>1, <1>2

\* A step that changes one row changes one verdict.
LEMMA VerdictChanges ==
  ASSUME NEW m \in Message, \A n \in Message \ {m} : rows'[n] = rows[n]
  PROVE  Verdicts' = [Verdicts EXCEPT ![m] = Verdict(rows'[m])]
BY DEF Verdicts

LEMMA PromiseInit == Init => Promise!Init
BY VerdictOf DEF Init, Promise!Init

LEMMA WritesKeepPromise ==
  ASSUME ReplyInv, NEW m \in Message, Writes(m)
  PROVE  [Promise!Next]_<<Verdicts, delivered>>
<1>1. Verdicts' = [Verdicts EXCEPT ![m] = Verdict(rows'[m])] /\ delivered' = delivered
  BY VerdictChanges DEF Writes
<1>2. CASE Verdict(rows'[m]) = Verdict(rows[m])
  <2>1. Verdicts' = Verdicts
    BY <1>1, <1>2 DEF Verdicts
  <2> QED  BY <1>1, <2>1
<1>3. CASE Verdict(rows'[m]) # Verdict(rows[m])
  <2>1. /\ rows[m] \in Row /\ rows'[m] \in Row /\ rows[m].state = "processing"
        /\ rows'[m].state = "completed" => delivered[m] = 1
        /\ rows'[m].state = "failed" => delivered[m] = 0
        /\ rows'[m].state # "processing" /\ rows'[m].delivery = "not_sent" => delivered[m] = 0
    BY <1>3 DEF Writes
  <2>2. Verdicts[m] = "open"
    BY <2>1, VerdictOf DEF Verdicts
  <2>3. rows'[m].state \in Settled
    BY <1>3, <2>1, VerdictOf, RowFields
  <2>4. PICK v \in Promise!Recorded : v = Verdict(rows'[m])
    BY <2>1, <2>3, VerdictOf DEF Settled, Promise!Recorded
  <2>5. (v = "replied" => delivered[m] = 1) /\ (v = "unreplied" => delivered[m] = 0)
    BY <2>1, <2>3, <2>4, VerdictOf DEF Settled
  <2>6. Promise!Record(m, v)
    BY <1>1, <2>2, <2>4, <2>5 DEF Promise!Record, Verdicts
  <2> QED  BY <2>6 DEF Promise!Next
<1> QED  BY <1>2, <1>3

LEMMA PromiseStep == ReplyInv /\ ReplyInv' /\ [Next]_vars => [Promise!Next]_<<Verdicts, delivered>>
<1> SUFFICES ASSUME ReplyInv, ReplyInv', [Next]_vars PROVE [Promise!Next]_<<Verdicts, delivered>>
  OBVIOUS
<1>1. CASE UNCHANGED <<rows, delivered>>
  BY <1>1 DEF Verdicts
<1>2. ASSUME NEW h \in Handler, HandlerStep(h) PROVE [Promise!Next]_<<Verdicts, delivered>>
  <2>1. CASE Quiet(h)
    BY <1>1, <2>1, QuietStep
  <2>2. CASE ~Quiet(h)
    <3>1. Writes(handler[h].message) /\ Busy(h)
      BY <1>2, <2>2, AttachUpdateStep, MarkStep, FinishStep, CatchStep, AtBusy
         DEF HandlerStep, Quiet, AttachUpdate, Mark, Finish, Catch, Phases
    <3>2. handler[h].message \in Message
      BY <3>1, MessageIsMessage DEF ReplyInv
    <3> QED  BY <3>1, <3>2, WritesKeepPromise
  <2> QED  BY <2>1, <2>2
<1>3. ASSUME NEW h \in Handler, NEW m \in Message, NEW o \in Outcome("claim"), Claim(h, m, o)
      PROVE  [Promise!Next]_<<Verdicts, delivered>>
  <2>1. rows[m] = NoRow /\ delivered' = delivered
    BY <1>3 DEF Claim
  <2>2. CASE rows' = rows
    BY <1>1, <2>1, <2>2
  <2>3. CASE rows' = [rows EXCEPT ![m] = NewRow]
    <3>1. rows'[m] = NewRow /\ \A n \in Message \ {m} : rows'[n] = rows[n]
      BY <2>3 DEF ReplyInv, TypeOK
    <3>2. Verdicts' = [Verdicts EXCEPT ![m] = "open"]
      BY <3>1, VerdictChanges, VerdictOf
    <3>3. Promise!Claim(m)
      BY <2>1, <3>2, VerdictOf DEF Promise!Claim, Verdicts
    <3> QED  BY <3>3 DEF Promise!Next
  <2> QED  BY <1>3, <2>2, <2>3 DEF Claim
<1>4. CASE Deliver
  <2>1. PICK m \in outbox : delivered' = [delivered EXCEPT ![m] = @ + 1] /\ rows' = rows
    BY <1>4 DEF Deliver
  <2>2. m \in Message /\ RowInv(m) /\ rows[m] \in Row \cup {NoRow}
    BY DEF ReplyInv, TypeOK
  <2>3. delivered[m] = 0 /\ rows[m] \in Row /\ rows[m].delivery # "not_sent"
        /\ rows[m].state \in {"processing", "indeterminate"}
    BY <2>2, RowFields DEF RowInv, Unsent, Settled
  <2>4. Verdicts[m] \in {"open", "unknown"}
    BY <2>2, <2>3, VerdictOf DEF Verdicts
  <2>5. delivered' = [delivered EXCEPT ![m] = 1] /\ Verdicts' = Verdicts
    BY <2>1, <2>2, <2>3 DEF Verdicts, ReplyInv, TypeOK
  <2>6. Promise!Deliver(m)
    BY <2>3, <2>4, <2>5 DEF Promise!Deliver, Verdicts
  <2> QED  BY <2>2, <2>6 DEF Promise!Next
<1>5. ASSUME NEW s \in Subject, NEW i \in Change, SetIdentity(s, i)
      PROVE  [Promise!Next]_<<Verdicts, delivered>>
  BY <1>1, <1>5 DEF SetIdentity
<1> QED  BY <1>1, <1>2, <1>3, <1>4, <1>5 DEF Next, Crash, vars

\* handle answers a message at most once, and what a settled row of
\* wecom_inbound_messages says of its reply stays true, whatever statements fail.
THEOREM CoreKeepsPromise == Spec => DeliverySpec
BY ReplyInit, ReplyStep, PromiseInit, PromiseStep, PTL
   DEF Spec, DeliverySpec, Promise!Spec, Verdicts, Promise!dvars

-----------------------------------------------------------------------------
(* Serialized dispatch, and the authority it is under.                     *)

\* What a call that takes the conversation's lock, or reads the identity again,
\* has just established.
Enters(h) ==
  /\ Busy(h) /\ identity' = identity
  /\ \A g \in Handler \ {h} : handler'[g] = handler[g]
  /\ At(h, "locked")' =>
       /\ ~At(h, "locked") /\ Unlocked(handler[h].conversation) /\ ~Conflict(h) /\ rows' = rows
       /\ handler'[h].conversation = handler[h].conversation /\ handler'[h].message = handler[h].message
  /\ At(h, "recheck")' => IdentityOf(h) \in handler'[h].seen /\ handler'[h].message = handler[h].message
  /\ At(h, "mark")' => At(h, "recheck") /\ SameIdentity(h) /\ handler'[h].seen = handler[h].seen
                       /\ handler'[h].identity = handler[h].identity
  /\ \A m \in outbox' \ outbox : m = handler[h].message /\ At(h, "mark")

LEMMA ToEnters ==
  ASSUME TypeOK, NEW h \in Handler, Busy(h), NEW p \in Phases, To(h, p), identity' = identity, outbox' = outbox,
         p \notin {"locked", "recheck", "mark"}
  PROVE  Enters(h)
<1>1. Becomes(h, p, handler[h].identity, handler[h].conversation,
              handler[h].dispatched, handler[h].uncertain, handler[h].seen)
  BY ToBecomes
<1> QED  BY <1>1 DEF Enters, Becomes, Holds, At

LEMMA HandlerEnters ==
  ASSUME TypeOK, NEW h \in Handler, HandlerStep(h)
  PROVE  Enters(h)
<1> USE DEF Phases
<1>0. handler \in [Handler -> Call \cup {Idle}] /\ (Busy(h) => handler[h] \in Call)
  BY MessageIsMessage DEF TypeOK
<1>1. ASSUME NEW o, ResolveIdentity(h, o) PROVE Enters(h)
  <2>1. Busy(h) /\ identity' = identity /\ outbox' = outbox
    BY <1>1, AtBusy DEF ResolveIdentity
  <2>2. PICK p \in {"map", "catch"} :
          handler' = [handler EXCEPT ![h].identity = IdentityOf(h), ![h].phase = p]
    BY <1>1 DEF ResolveIdentity
  <2>3. /\ handler'[h] = [handler[h] EXCEPT !.identity = IdentityOf(h), !.phase = p]
        /\ \A g \in Handler \ {h} : handler'[g] = handler[g]
    BY <1>0, <2>2
  <2>4. handler'[h].phase = p
    BY <1>0, <2>1, <2>3 DEF Call
  <2> QED  BY <2>1, <2>3, <2>4 DEF Enters, At
<1>2. ASSUME NEW o, Verify(h, o) PROVE Enters(h)
  <2>1. PICK p \in {"attach", "catch"} : To(h, p)
    BY <1>2 DEF Verify
  <2> QED  BY <1>2, <2>1, AtBusy, ToEnters DEF Verify
<1>3. ASSUME NEW o, Recheck(h, o) PROVE Enters(h)
  <2>1. Busy(h) /\ handler[h].phase = "recheck"
    BY <1>3, AtBusy DEF Recheck
  <2>2. CASE To(h, "catch")
    BY <1>3, <2>1, <2>2, ToEnters DEF Recheck
  <2>3. CASE To(h, "mark") /\ SameIdentity(h)
    <3>1. Becomes(h, "mark", handler[h].identity, handler[h].conversation,
                  handler[h].dispatched, handler[h].uncertain, handler[h].seen)
      BY <2>1, <2>3, ToBecomes
    <3> QED  BY <1>3, <2>1, <2>3, <3>1 DEF Enters, Becomes, Holds, At, Recheck
  <2> QED  BY <1>3, <2>2, <2>3 DEF Recheck
<1>4. ASSUME ResolveConversation(h) PROVE Enters(h)
  <2>1. Busy(h) /\ identity' = identity /\ outbox' = outbox
    BY <1>4, AtBusy DEF ResolveConversation
  <2>2. CASE To(h, "catch")
    BY <2>1, <2>2, ToEnters
  <2>3. ASSUME NEW c \in Conversation, handler' = [handler EXCEPT ![h].conversation = c, ![h].phase = "verify"]
        PROVE  Enters(h)
    <3>1. /\ handler'[h] = [handler[h] EXCEPT !.conversation = c, !.phase = "verify"]
          /\ \A g \in Handler \ {h} : handler'[g] = handler[g]
      BY <1>0, <2>3
    <3>2. handler'[h].phase = "verify"
      BY <1>0, <2>1, <3>1 DEF Call
    <3> QED  BY <2>1, <3>1, <3>2 DEF Enters, At
  <2> QED  BY <1>4, <2>2, <2>3 DEF ResolveConversation
<1>5. ASSUME NEW o, AttachLock(h, o) PROVE Enters(h)
  <2>1. Busy(h) /\ handler[h].phase = "attach"
    BY <1>5, AtBusy DEF AttachLock
  <2>2. CASE To(h, "catch")
    BY <1>5, <2>1, <2>2, ToEnters DEF AttachLock
  <2>3. CASE To(h, "locked") /\ ~Conflict(h)
    <3>1. Becomes(h, "locked", handler[h].identity, handler[h].conversation,
                  handler[h].dispatched, handler[h].uncertain, handler[h].seen)
      BY <2>1, <2>3, ToBecomes
    <3> QED  BY <1>5, <2>1, <2>3, <3>1 DEF Enters, Becomes, Holds, At, AttachLock
  <2> QED  BY <1>5, <2>2, <2>3 DEF AttachLock
<1>6. ASSUME NEW o, AttachUpdate(h, o) PROVE Enters(h)
  <2>1. Busy(h) /\ identity' = identity /\ outbox' = outbox
    BY <1>6, AtBusy DEF AttachUpdate
  <2>2. CASE To(h, "catch")
    BY <2>1, <2>2, ToEnters
  <2>3. CASE handler' = [handler EXCEPT ![h].phase = "respond", ![h].dispatched = TRUE]
    <3>1. /\ handler'[h] = [handler[h] EXCEPT !.phase = "respond", !.dispatched = TRUE]
          /\ \A g \in Handler \ {h} : handler'[g] = handler[g]
      BY <1>0, <2>3
    <3>2. handler'[h].phase = "respond"
      BY <1>0, <2>1, <3>1 DEF Call
    <3> QED  BY <2>1, <3>1, <3>2 DEF Enters, At
  <2> QED  BY <1>6, <2>2, <2>3 DEF AttachUpdate
<1>7. ASSUME Respond(h) PROVE Enters(h)
  <2>1. Busy(h) /\ identity' = identity /\ outbox' = outbox
    BY <1>7, AtBusy DEF Respond
  <2>2. CASE To(h, "catch")
    BY <2>1, <2>2, ToEnters
  <2>3. CASE handler' = [handler EXCEPT ![h].phase = "recheck", ![h].seen = {IdentityOf(h)}]
    <3>1. /\ handler'[h] = [handler[h] EXCEPT !.phase = "recheck", !.seen = {IdentityOf(h)}]
          /\ \A g \in Handler \ {h} : handler'[g] = handler[g]
      BY <1>0, <2>3
    <3>2. handler'[h].phase = "recheck" /\ handler'[h].seen = {IdentityOf(h)}
          /\ handler'[h].message = handler[h].message
      BY <1>0, <2>1, <3>1 DEF Call
    <3> QED  BY <2>1, <3>1, <3>2 DEF Enters, At
  <2> QED  BY <1>7, <2>2, <2>3 DEF Respond
<1>8. ASSUME NEW o, Mark(h, o) PROVE Enters(h)
  <2>1. Busy(h) /\ handler[h].phase = "mark" /\ identity' = identity
    BY <1>8, AtBusy DEF Mark
  <2>2. PICK p \in {"send", "catch"} : handler' = [handler EXCEPT ![h].uncertain = TRUE, ![h].phase = p]
    BY <1>8 DEF Mark
  <2>3. /\ handler'[h] = [handler[h] EXCEPT !.uncertain = TRUE, !.phase = p]
        /\ \A g \in Handler \ {h} : handler'[g] = handler[g]
    BY <1>0, <2>2
  <2>4. handler'[h].phase = p
    BY <1>0, <2>1, <2>3 DEF Call
  <2>5. outbox' \in {outbox, outbox \cup {handler[h].message}}
    BY <1>8 DEF Mark, MessageOf
  <2> QED  BY <2>1, <2>3, <2>4, <2>5 DEF Enters, At
<1>9. ASSUME Send(h) PROVE Enters(h)
  <2>1. PICK p \in {"finish", "catch"} : To(h, p)
    BY <1>9 DEF Send
  <2> QED  BY <1>9, <2>1, AtBusy, ToEnters DEF Send
<1>10. ASSUME Busy(h), handler' = [handler EXCEPT ![h] = Idle], identity' = identity, outbox' = outbox
       PROVE  Enters(h)
  <2>1. handler'[h] = Idle /\ \A g \in Handler \ {h} : handler'[g] = handler[g]
    BY <1>0, <1>10
  <2> QED  BY <1>10, <2>1 DEF Enters, At, Idle
<1>11. ASSUME NEW o, Finish(h, o) PROVE Enters(h)
  BY <1>10, <1>11, AtBusy, ToEnters DEF Finish
<1>12. ASSUME NEW o, Catch(h, o) PROVE Enters(h)
  BY <1>10, <1>12, AtBusy DEF Catch
<1> QED  BY <1>1, <1>2, <1>3, <1>4, <1>5, <1>6, <1>7, <1>8, <1>9, <1>11, <1>12 DEF HandlerStep

\* While a call holds the lock of its conversation nothing conflicts with it,
\* and no other call holds the same lock.
LockInv ==
  \A h \in Handler : At(h, "locked") =>
    /\ ~Conflict(h)
    /\ \A g \in Handler \ {h} : At(g, "locked") => handler[g].conversation # handler[h].conversation

OpenInv ==
  \A m, n \in Message, c \in Conversation :
    m # n /\ Attached(m, c) /\ Attached(n, c) =>
      /\ Sender[m] = Sender[n]
      /\ {rows[m].state, rows[n].state} \cap {"completed", "failed"} # {}

SerialInv == LockInv /\ OpenInv

\* No row is attached, and a row that is not in progress stays as it is.
Steady ==
  \A n \in Message :
    \/ rows'[n] = rows[n]
    \/ rows'[n] = NewRow
    \/ rows[n] \in Row /\ rows'[n] \in Row /\ rows[n].state = "processing"
       /\ rows'[n].conversation = rows[n].conversation

LEMMA SteadyRow ==
  ASSUME Steady, NEW n \in Message, NEW c \in Conversation, Attached(n, c)'
  PROVE  /\ Attached(n, c)
         /\ rows'[n] = rows[n] \/ rows[n].state = "processing"
<1>1. rows'[n] # NewRow
  BY CoreAssumption, RowFields DEF Attached
<1> QED  BY <1>1, RowFields DEF Steady, Attached

LEMMA SteadyConflict ==
  ASSUME ReplyInv, Steady, NEW h \in Handler, At(h, "locked"), ~Conflict(h),
         handler'[h].conversation = handler[h].conversation, handler'[h].message = handler[h].message
  PROVE  ~Conflict(h)'
<1>1. PICK c \in Conversation : c = handler[h].conversation
  BY AtBusy DEF ReplyInv, CallInv, Phases
<1>2. ASSUME NEW n \in Message, Attached(n, c)',
             rows'[n].state \in {"processing", "indeterminate"} \/ Sender[n] # Sender[handler[h].message]
      PROVE  FALSE
  <2>1. Attached(n, c) /\ (rows'[n] = rows[n] \/ rows[n].state = "processing")
    BY <1>2, SteadyRow
  <2> QED  BY <1>1, <1>2, <2>1 DEF Conflict, Attached, MessageOf
<1> QED  BY <1>1, <1>2 DEF Conflict, Attached, MessageOf

LEMMA SteadyOpen == OpenInv /\ Steady => OpenInv'
<1> SUFFICES ASSUME OpenInv, Steady, NEW m \in Message, NEW n \in Message, NEW c \in Conversation,
                    m # n, Attached(m, c)', Attached(n, c)'
             PROVE  /\ Sender[m] = Sender[n]
                    /\ {rows'[m].state, rows'[n].state} \cap {"completed", "failed"} # {}
  BY DEF OpenInv
<1>1. Attached(m, c) /\ (rows'[m] = rows[m] \/ rows[m].state = "processing")
  BY SteadyRow
<1>2. Attached(n, c) /\ (rows'[n] = rows[n] \/ rows[n].state = "processing")
  BY SteadyRow
<1> QED  BY <1>1, <1>2 DEF OpenInv

LEMMA SteadySerial ==
  ASSUME ReplyInv, SerialInv, Steady,
         \A h \in Handler : At(h, "locked")' =>
           /\ At(h, "locked") /\ handler'[h].conversation = handler[h].conversation
           /\ handler'[h].message = handler[h].message
  PROVE  SerialInv'
<1>1. OpenInv'
  BY SteadyOpen DEF SerialInv
<1>2. LockInv'
  BY SteadyConflict DEF SerialInv, LockInv
<1> QED  BY <1>1, <1>2 DEF SerialInv

LEMMA AttachSerial ==
  ASSUME ReplyInv, SerialInv, NEW h \in Handler, NEW o \in Outcome("attach"), AttachUpdate(h, o)
  PROVE  SerialInv'
<1>1. At(h, "locked") /\ Busy(h) /\ Enters(h)
  BY AtBusy, HandlerEnters DEF AttachUpdate, Phases, ReplyInv, HandlerStep
<1>2. PICK m \in Message : m = handler[h].message
  BY <1>1, MessageIsMessage DEF ReplyInv
<1>3. PICK c \in Conversation : c = handler[h].conversation
  BY <1>1 DEF ReplyInv, CallInv, At
<1>4. Writes(m) /\ (Keeps(m) \/ rows'[m].conversation = c)
  BY <1>2, <1>3, AttachUpdateStep
<1>5. \A g \in Handler : At(g, "locked")' => g # h /\ handler'[g] = handler[g] /\ At(g, "locked")
  BY <1>1 DEF Enters, At
<1>6. CASE Keeps(m)
  BY <1>4, <1>5, <1>6, SteadySerial DEF Steady, Writes, Keeps
<1>7. CASE ~Keeps(m) /\ rows'[m].conversation = c
  <2>1. \A n \in Message \ {m} : rows'[n] = rows[n]
    BY <1>4 DEF Writes
  <2>2. \A n \in Message \ {m} : Attached(n, c) =>
          rows[n].state \notin {"processing", "indeterminate"} /\ Sender[n] = Sender[m]
    BY <1>1, <1>2, <1>3 DEF SerialInv, LockInv, Conflict, Attached, MessageOf
  <2>3. \A n \in Message : rows[n] # NoRow => rows[n].state \in {"processing"} \cup Settled
    BY RowFields DEF ReplyInv, TypeOK
  <2>4. \A n \in Message \ {m} : Attached(n, c) => rows[n].state \in {"completed", "failed"}
    BY <2>2, <2>3 DEF Attached, Settled
  <2>5. OpenInv'
    <3>1. ASSUME NEW k \in Message, NEW n \in Message, NEW d \in Conversation,
                 k # n, Attached(k, d)', Attached(n, d)'
          PROVE  /\ Sender[k] = Sender[n]
                 /\ {rows'[k].state, rows'[n].state} \cap {"completed", "failed"} # {}
      <4>1. CASE k # m /\ n # m
        BY <2>1, <3>1, <4>1 DEF SerialInv, OpenInv, Attached
      <4>2. CASE k = m
        BY <1>7, <2>1, <2>2, <2>4, <3>1, <4>2 DEF Attached
      <4>3. CASE n = m
        BY <1>7, <2>1, <2>2, <2>4, <3>1, <4>3 DEF Attached
      <4> QED  BY <4>1, <4>2, <4>3
    <3> QED  BY <3>1 DEF OpenInv
  <2>6. ASSUME NEW g \in Handler, At(g, "locked")' PROVE ~Conflict(g)'
    <3>1. handler'[g] = handler[g] /\ ~Conflict(g) /\ handler[g].conversation # c
      BY <1>1, <1>3, <1>5, <2>6 DEF SerialInv, LockInv
    <3> QED  BY <1>7, <2>1, <3>1 DEF Conflict, MessageOf
  <2>7. LockInv'
    BY <1>5, <2>6 DEF SerialInv, LockInv
  <2> QED  BY <2>5, <2>7 DEF SerialInv
<1> QED  BY <1>4, <1>6, <1>7

LEMMA SerialInit == Init => SerialInv
BY DEF Init, SerialInv, LockInv, OpenInv, Attached, At, Idle

LEMMA SerialStep == ReplyInv /\ ReplyInv' /\ SerialInv /\ [Next]_vars => SerialInv'
<1> SUFFICES ASSUME ReplyInv, ReplyInv', SerialInv, [Next]_vars PROVE SerialInv'
  OBVIOUS
<1>1. CASE UNCHANGED <<rows, handler>>
  BY <1>1, SteadySerial DEF Steady, At
<1>2. ASSUME NEW h \in Handler, HandlerStep(h) PROVE SerialInv'
  <2>1. Enters(h)
    BY <1>2, HandlerEnters DEF ReplyInv
  <2>2. CASE \E o \in Outcome("attach") : AttachUpdate(h, o)
    BY <2>2, AttachSerial
  <2>3. CASE ~\E o \in Outcome("attach") : AttachUpdate(h, o)
    <3>1. Steady
      <4>1. CASE Quiet(h)
        BY <4>1, QuietStep DEF Steady
      <4>2. CASE ~Quiet(h)
        <5>1. Writes(handler[h].message) /\ Keeps(handler[h].message)
          BY <1>2, <2>3, <4>2, MarkStep, FinishStep, CatchStep DEF HandlerStep, Quiet
        <5> QED  BY <5>1 DEF Steady, Writes, Keeps
      <4> QED  BY <4>1, <4>2
    <3>2. CASE ~At(h, "locked")'
      BY <2>1, <3>1, <3>2, SteadySerial DEF Enters, At
    <3>3. CASE At(h, "locked")'
      <4>1. /\ Unlocked(handler[h].conversation) /\ ~Conflict(h) /\ rows' = rows
            /\ handler'[h].conversation = handler[h].conversation /\ handler'[h].message = handler[h].message
            /\ \A g \in Handler \ {h} : handler'[g] = handler[g]
        BY <2>1, <3>3 DEF Enters
      <4>2. OpenInv'
        BY <3>1, SteadyOpen DEF SerialInv
      <4>3. LockInv'
        BY <4>1 DEF SerialInv, LockInv, At, Conflict, MessageOf, Unlocked
      <4> QED  BY <4>2, <4>3 DEF SerialInv
    <3> QED  BY <3>2, <3>3
  <2> QED  BY <2>2, <2>3
<1>3. ASSUME NEW h \in Handler, NEW m \in Message, NEW o \in Outcome("claim"), Claim(h, m, o)
      PROVE  SerialInv'
  <2>1. Steady
    BY <1>3 DEF Claim, Steady, ReplyInv, TypeOK
  <2>2. \A g \in Handler : At(g, "locked")' => handler'[g] = handler[g]
    BY <1>3 DEF Claim, At, NewCall, ReplyInv, TypeOK
  <2> QED  BY <2>1, <2>2, SteadySerial DEF At
<1>4. ASSUME NEW s \in Subject, NEW i \in Change, SetIdentity(s, i) PROVE SerialInv'
  <2>1. rows' = rows
    BY <1>4 DEF SetIdentity
  <2>2. ASSUME NEW g \in Handler, At(g, "locked")'
        PROVE  At(g, "locked") /\ handler'[g] = handler[g]
    BY <1>4, <2>2, MessageIsMessage DEF SetIdentity, At, Call, ReplyInv, Busy
  <2> QED  BY <2>1, <2>2, SteadySerial DEF Steady
<1>5. CASE Deliver
  BY <1>1, <1>5 DEF Deliver
<1>6. CASE Crash
  BY <1>6, SteadySerial DEF Crash, Steady, At, Idle
<1> QED  BY <1>1, <1>2, <1>3, <1>4, <1>5, <1>6 DEF Next, vars

\* Active dispatch is serialized per conversation: of the rows attached to one
\* at most one is open and all are from one sender, and no two calls of handle
\* are in respond for it (core.ts attachConversation).
THEOREM DispatchSerialized == Spec => []DispatchIsSerialized
<1>1. ReplyInv /\ SerialInv => DispatchIsSerialized
  <2> SUFFICES ASSUME ReplyInv, SerialInv, NEW h \in Handler, NEW g \in Handler, h # g,
                      At(h, "respond"), At(g, "respond"), handler[h].conversation = handler[g].conversation
               PROVE  FALSE
    BY DEF DispatchIsSerialized, SerialInv, OpenInv
  <2>1. Busy(h) /\ Busy(g) /\ handler[h].phase = "respond" /\ handler[g].phase = "respond"
    BY AtBusy DEF Phases
  <2>2. handler[h].message \in Message /\ handler[g].message \in Message
        /\ handler[h].message # handler[g].message
    BY <2>1, MessageIsMessage DEF ReplyInv, Exclusive
  <2>3. /\ rows[handler[h].message] \in Row /\ rows[handler[g].message] \in Row
        /\ rows[handler[h].message].state = "processing" /\ rows[handler[g].message].state = "processing"
        /\ rows[handler[h].message].conversation = handler[h].conversation
        /\ rows[handler[g].message].conversation = handler[h].conversation
        /\ rows[handler[h].message].conversation # None
    BY <2>1 DEF ReplyInv, CallInv, Working
  <2>4. handler[h].conversation \in Conversation
    BY <2>3, RowFields
  <2> QED  BY <2>2, <2>3, <2>4, RowFields DEF SerialInv, OpenInv, Attached
<1> QED  BY <1>1, ReplyInit, ReplyStep, SerialInit, SerialStep, PTL DEF Spec

\* What handle knows of the identity since respond returned.
SeenInv ==
  \A h \in Handler :
    /\ At(h, "recheck") => IdentityOf(h) \in handler[h].seen
    /\ At(h, "mark") => handler[h].identity \in handler[h].seen

LEMMA SeenInit == Init => SeenInv
BY DEF Init, SeenInv, At, Idle

LEMMA SeenStep == ReplyInv /\ SeenInv /\ [Next]_vars => SeenInv'
<1> SUFFICES ASSUME ReplyInv, SeenInv, [Next]_vars PROVE SeenInv'
  OBVIOUS
<1>1. CASE UNCHANGED <<identity, handler>>
  BY <1>1 DEF SeenInv, At, IdentityOf, MessageOf
<1>2. ASSUME NEW h \in Handler, HandlerStep(h) PROVE SeenInv'
  <2>1. Enters(h)
    BY <1>2, HandlerEnters DEF ReplyInv
  <2> QED  BY <2>1 DEF Enters, SeenInv, At, IdentityOf, MessageOf, SameIdentity
<1>3. ASSUME NEW h \in Handler, NEW m \in Message, NEW o \in Outcome("claim"), Claim(h, m, o)
      PROVE  SeenInv'
  BY <1>3 DEF Claim, SeenInv, At, IdentityOf, MessageOf, NewCall, ReplyInv, TypeOK
<1>4. ASSUME NEW s \in Subject, NEW i \in Change, SetIdentity(s, i) PROVE SeenInv'
  <2>1. ASSUME NEW g \in Handler, At(g, "recheck")' \/ At(g, "mark")'
        PROVE  /\ At(g, "recheck")' => IdentityOf(g)' \in handler'[g].seen
               /\ At(g, "mark")' => handler'[g].identity \in handler'[g].seen
    <3>1. Busy(g)
      BY <1>4, <2>1 DEF SetIdentity, At, Busy, Idle
    <3>2. handler[g] \in Call
      BY <3>1, MessageIsMessage DEF ReplyInv
    <3>3. CASE handler[g].phase \in {"recheck", "mark"} /\ Sender[MessageOf(g)] = s
      <4>1. handler'[g] = [handler[g] EXCEPT !.seen = handler[g].seen \cup {i}]
        BY <1>4, <3>1, <3>3 DEF SetIdentity, Busy
      <4>2. /\ handler'[g].seen = handler[g].seen \cup {i} /\ handler'[g].phase = handler[g].phase
            /\ handler'[g].identity = handler[g].identity /\ handler'[g].message = handler[g].message
        BY <3>2, <4>1 DEF Call
      <4>3. IdentityOf(g)' = i
        BY <1>4, <3>3, <4>2 DEF SetIdentity, IdentityOf, MessageOf, ReplyInv, TypeOK
      <4> QED  BY <4>2, <4>3 DEF SeenInv, At
    <3>4. CASE ~(handler[g].phase \in {"recheck", "mark"} /\ Sender[MessageOf(g)] = s)
      <4>1. handler'[g] = handler[g]
        BY <1>4, <3>4 DEF SetIdentity
      <4>2. Sender[MessageOf(g)] # s
        BY <2>1, <3>4, <4>1 DEF At
      <4>3. Sender[MessageOf(g)] \in Subject
        BY <3>1, MessageIsMessage, CoreAssumption DEF ReplyInv, MessageOf
      <4>4. IdentityOf(g)' = IdentityOf(g)
        BY <1>4, <4>1, <4>2, <4>3 DEF SetIdentity, IdentityOf, MessageOf, ReplyInv, TypeOK
      <4> QED  BY <4>1, <4>4 DEF SeenInv, At
    <3> QED  BY <3>3, <3>4
  <2> QED  BY <2>1 DEF SeenInv
<1>5. CASE Deliver
  BY <1>1, <1>5 DEF Deliver
<1>6. CASE Crash
  BY <1>6 DEF Crash, SeenInv, At, Idle
<1> QED  BY <1>1, <1>2, <1>3, <1>4, <1>5, <1>6 DEF Next, vars

\* The action of ActsUnderAuthority, for one call.
Authorized(h) ==
  /\ rows'[MessageOf(h)].state = "processing" /\ rows[MessageOf(h)].conversation = None
       /\ rows'[MessageOf(h)].conversation # None => IdentityOf(h) = handler[h].identity
  /\ MessageOf(h) \in outbox' \ outbox => handler[h].identity \in handler[h].seen

LEMMA AuthorityStep ==
  ReplyInv /\ SeenInv /\ [Next]_vars => [\A h \in Handler : Busy(h) => Authorized(h)]_vars
<1> SUFFICES ASSUME ReplyInv, SeenInv, Next, NEW g \in Handler, Busy(g) PROVE Authorized(g)
  OBVIOUS
<1>1. PICK m \in Message : m = handler[g].message
  BY MessageIsMessage DEF ReplyInv
<1>2. rows[m] \in Row
  BY <1>1 DEF ReplyInv, CallInv
<1>3. CASE UNCHANGED <<rows, outbox>>
  BY <1>1, <1>3 DEF Authorized, MessageOf
<1>4. ASSUME NEW h \in Handler, HandlerStep(h) PROVE Authorized(g)
  <2>1. Enters(h)
    BY <1>4, HandlerEnters DEF ReplyInv
  <2>2. CASE h # g
    <3>1. m # handler[h].message
      BY <1>1, <2>1, <2>2 DEF Enters, ReplyInv, Exclusive
    <3>2. m \notin outbox' \ outbox
      BY <2>1, <3>1 DEF Enters
    <3>3. rows'[m] = rows[m]
      <4>1. CASE Quiet(h)
        BY <4>1, QuietStep
      <4>2. CASE ~Quiet(h)
        <5>1. Writes(handler[h].message)
          BY <1>4, <4>2, AttachUpdateStep, MarkStep, FinishStep, CatchStep DEF HandlerStep, Quiet
        <5> QED  BY <3>1, <5>1 DEF Writes
      <4> QED  BY <4>1, <4>2
    <3> QED  BY <1>1, <3>2, <3>3 DEF Authorized, MessageOf
  <2>3. CASE h = g
    <3>1. m \in outbox' \ outbox => handler[g].identity \in handler[g].seen
      BY <1>1, <2>1, <2>3 DEF Enters, SeenInv
    <3>2. Keeps(m) \/ IdentityOf(g) = handler[g].identity
      <4>1. CASE Quiet(g)
        BY <4>1, QuietStep DEF Keeps
      <4>2. CASE ~Quiet(g)
        BY <1>1, <1>4, <2>3, <4>2, AttachUpdateStep, MarkStep, FinishStep, CatchStep
           DEF HandlerStep, Quiet, Attachable
      <4> QED  BY <4>1, <4>2
    <3> QED  BY <1>1, <3>1, <3>2 DEF Authorized, MessageOf, Keeps
  <2> QED  BY <2>2, <2>3
<1>5. ASSUME NEW h \in Handler, NEW n \in Message, NEW o \in Outcome("claim"), Claim(h, n, o)
      PROVE  Authorized(g)
  <2>1. n # m /\ outbox' = outbox
    BY <1>2, <1>5, RowFields DEF Claim
  <2>2. rows'[m] = rows[m]
    BY <1>5, <2>1 DEF Claim, ReplyInv, TypeOK
  <2> QED  BY <1>1, <2>1, <2>2 DEF Authorized, MessageOf
<1>6. ASSUME NEW s \in Subject, NEW i \in Change, SetIdentity(s, i) PROVE Authorized(g)
  BY <1>3, <1>6 DEF SetIdentity
<1>7. CASE Deliver
  BY <1>1, <1>7 DEF Deliver, Authorized, MessageOf
<1>8. CASE Crash
  BY <1>3, <1>8 DEF Crash
<1> QED  BY <1>4, <1>5, <1>6, <1>7, <1>8 DEF Next

\* A message is attached only under the identity that is current, and its reply
\* is sent only if that identity was current after respond had returned.
THEOREM AuthorityHolds == Spec => ActsUnderAuthority
<1>1. ReplyInv /\ SeenInv /\ [Next]_vars =>
        [\A h \in Handler : handler[h] # Idle =>
           /\ rows'[MessageOf(h)].state = "processing" /\ rows[MessageOf(h)].conversation = None
                /\ rows'[MessageOf(h)].conversation # None => IdentityOf(h) = handler[h].identity
           /\ MessageOf(h) \in outbox' \ outbox => handler[h].identity \in handler[h].seen]_vars
  BY AuthorityStep DEF Authorized, Busy
<1> QED  BY <1>1, ReplyInit, ReplyStep, SeenInit, SeenStep, PTL DEF Spec, ActsUnderAuthority
=============================================================================
