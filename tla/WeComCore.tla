------------------------------ MODULE WeComCore ------------------------------
(***************************************************************************)
(* WeComCore.handle (src/channels/wecom/core.ts) over                      *)
(* PostgresWeComRepository: the internal ingress for messages of bound     *)
(* members of staff.  Every awaited statement and call of handle is a step *)
(* of its handler; memberships and bindings may change between any two.    *)
(* The core is not wired into the running server: resolveConversation,     *)
(* respond and outbound are what its options promise.                      *)
(***************************************************************************)
EXTENDS Naturals, FiniteSets

CONSTANTS
  Message,      \* message ids (corp_id, application_id, message_id)
  Subject,      \* external subjects with a channel binding
  Sender,       \* the subject each message is from
  Identity,     \* what resolveIdentity may find for a binding (the role, say)
  First,        \* the identity every subject starts with
  Change,       \* bound: what operators change identities to
  Conversation, \* conversations resolveConversation may name
  Handler,      \* calls of handle under way at once
  Faulty,       \* statements that may fail: "claim", "read", "attach", "mark", "finish"; "process"
  None

ASSUME CoreAssumption ==
  /\ Sender \in [Message -> Subject]
  /\ First \in Identity
  /\ Change \subseteq Identity \cup {None}
  /\ None \notin Identity \cup Conversation

VARIABLES
  identity,   \* what resolveIdentity finds: None when disabled or ambiguous
  rows,       \* wecom_inbound_messages
  handler,    \* the calls of handle
  outbox,     \* messages whose reply the outbound has and has not acted on
  delivered,  \* how often the reply to a message was accepted
  left        \* messages a failed claim, finish or process left unsettled

vars == <<identity, rows, handler, outbox, delivered, left>>

Settled == {"completed", "failed", "indeterminate"}
Delivery == {"not_sent", "sent", "indeterminate"}

Row == [state : {"processing"} \cup Settled, delivery : Delivery, conversation : Conversation \cup {None}]
NoRow == [state |-> "absent"]
NewRow == [state |-> "processing", delivery |-> "not_sent", conversation |-> None]

\* "seen" is what the identity was since respond returned.
Call == [phase : {"resolve", "map", "verify", "attach", "locked", "respond", "recheck", "mark",
                  "send", "finish", "catch"},
         message : Message, identity : Identity \cup {None}, conversation : Conversation \cup {None},
         dispatched : BOOLEAN, uncertain : BOOLEAN, seen : SUBSET (Identity \cup {None})]
Idle == [phase |-> "idle"]
NewCall(m) ==
  [phase |-> "resolve", message |-> m, identity |-> None, conversation |-> None,
   dispatched |-> FALSE, uncertain |-> FALSE, seen |-> {}]

\* Rows satisfy the CHECK constraints, and only an attached row is marked or sent.
TypeOK ==
  /\ identity \in [Subject -> Identity \cup {None}]
  /\ rows \in [Message -> Row \cup {NoRow}]
  /\ handler \in [Handler -> Call \cup {Idle}]
  /\ outbox \subseteq Message
  /\ delivered \in [Message -> Nat]
  /\ left \subseteq Message
  /\ \A m \in Message : rows[m] # NoRow /\ rows[m].delivery # "not_sent" => rows[m].conversation # None

Init ==
  /\ identity = [s \in Subject |-> First]
  /\ rows = [m \in Message |-> NoRow]
  /\ handler = [h \in Handler |-> Idle]
  /\ outbox = {}
  /\ delivered = [m \in Message |-> 0]
  /\ left = {}

-----------------------------------------------------------------------------
\* A statement is answered, fails, or takes effect and loses its answer.
Outcome(statement) == IF statement \in Faulty THEN {"answers", "fails", "lost"} ELSE {"answers"}

At(h, phase) == handler[h].phase = phase
To(h, phase) == handler' = [handler EXCEPT ![h].phase = phase]
MessageOf(h) == handler[h].message
IdentityOf(h) == identity[Sender[MessageOf(h)]]

\* repository.claim; an existing row ("duplicate", "conflict") changes nothing.
Claim(h, m, o) ==
  /\ handler[h] = Idle
  /\ rows[m] = NoRow
  /\ rows' = IF o = "fails" THEN rows ELSE [rows EXCEPT ![m] = NewRow]
  /\ handler' = IF o = "answers" THEN [handler EXCEPT ![h] = NewCall(m)] ELSE handler
  /\ left' = IF o = "lost" THEN left \cup {m} ELSE left
  /\ UNCHANGED <<identity, outbox, delivered>>

ResolveIdentity(h, o) ==
  /\ At(h, "resolve")
  /\ handler' = [handler EXCEPT ![h].identity = IdentityOf(h),
       ![h].phase = IF o = "answers" /\ IdentityOf(h) # None THEN "map" ELSE "catch"]
  /\ UNCHANGED <<identity, rows, outbox, delivered, left>>

\* The mapping names a conversation, or it throws or names none.
ResolveConversation(h) ==
  /\ At(h, "map")
  /\ \/ \E c \in Conversation :
          handler' = [handler EXCEPT ![h].conversation = c, ![h].phase = "verify"]
     \/ To(h, "catch")
  /\ UNCHANGED <<identity, rows, outbox, delivered, left>>

\* Mutant: the second and third reads of the identity are not compared.
SameIdentityUnchecked(h) == TRUE

SameIdentity(h) == IdentityOf(h) = handler[h].identity

Verify(h, o) ==
  /\ At(h, "verify")
  /\ To(h, IF o = "answers" /\ SameIdentity(h) THEN "attach" ELSE "catch")
  /\ UNCHANGED <<identity, rows, outbox, delivered, left>>

\* Mutant: the conversation is read without FOR UPDATE.
UnlockedAlways(c) == TRUE

\* attachConversation holds the conversation FOR UPDATE until its transaction ends.
Unlocked(c) == \A h \in Handler : At(h, "locked") => handler[h].conversation # c

\* A row of the conversation that is open, or that another binding attached.
Conflict(h) ==
  \E m \in Message :
    /\ rows[m] # NoRow /\ rows[m].conversation = handler[h].conversation
    /\ rows[m].state \in {"processing", "indeterminate"} \/ Sender[m] # Sender[MessageOf(h)]

\* A conversation outside the identity's scope is refused, like a conflict.
AttachLock(h, o) ==
  /\ At(h, "attach")
  /\ Unlocked(handler[h].conversation)
  /\ \/ o = "answers" /\ ~Conflict(h) /\ To(h, "locked")
     \/ To(h, "catch")
  /\ UNCHANGED <<identity, rows, outbox, delivered, left>>

\* The UPDATE's condition: the claim is unattached and the identity is current.
Attachable(h) ==
  LET row == rows[MessageOf(h)]
  IN  row.state = "processing" /\ row.conversation = None /\ IdentityOf(h) = handler[h].identity

\* wecom_inbound_active_conversation_key
KeyTaken(h) ==
  \E m \in Message :
    rows[m].state = "processing" /\ rows[m].conversation = handler[h].conversation

\* rowCount === 1
Attaches(h) == Attachable(h) /\ ~KeyTaken(h)

\* The UPDATE and the COMMIT; dispatched is set once they are answered.
AttachUpdate(h, o) ==
  /\ At(h, "locked")
  /\ rows' = IF Attachable(h) /\ ~KeyTaken(h) /\ o # "fails"
               THEN [rows EXCEPT ![MessageOf(h)].conversation = handler[h].conversation] ELSE rows
  /\ IF Attaches(h) /\ o = "answers"
       THEN handler' = [handler EXCEPT ![h].phase = "respond", ![h].dispatched = TRUE]
       ELSE To(h, "catch")
  /\ UNCHANGED <<identity, outbox, delivered, left>>

\* The runtime returns a result, or throws.
Respond(h) ==
  /\ At(h, "respond")
  /\ \/ handler' = [handler EXCEPT ![h].phase = "recheck", ![h].seen = {IdentityOf(h)}]
     \/ To(h, "catch")
  /\ UNCHANGED <<identity, rows, outbox, delivered, left>>

Recheck(h, o) ==
  /\ At(h, "recheck")
  /\ To(h, IF o = "answers" /\ SameIdentity(h) THEN "mark" ELSE "catch")
  /\ UNCHANGED <<identity, rows, outbox, delivered, left>>

\* deliveryUncertain, markDeliveryUncertain, and the call of outbound.send.
Mark(h, o) ==
  LET m == MessageOf(h)
      marks == rows[m].state = "processing" /\ rows[m].delivery = "not_sent" /\ rows[m].conversation # None
  IN  /\ At(h, "mark")
      /\ rows' = IF marks /\ o # "fails" THEN [rows EXCEPT ![m].delivery = "indeterminate"] ELSE rows
      /\ handler' = [handler EXCEPT ![h].uncertain = TRUE,
                                    ![h].phase = IF marks /\ o = "answers" THEN "send" ELSE "catch"]
      /\ outbox' = IF marks /\ o = "answers" THEN outbox \cup {m} ELSE outbox
      /\ UNCHANGED <<identity, delivered, left>>

\* outbound.send resolves once the reply is accepted; it may reject anyway.
Send(h) ==
  /\ At(h, "send")
  /\ \/ MessageOf(h) \notin outbox /\ To(h, "finish")
     \/ To(h, "catch")
  /\ UNCHANGED <<identity, rows, outbox, delivered, left>>

\* Mutant: finish does not look at the state it leaves.
FinishableAlways(m) == TRUE

Finishable(m) == rows[m].state = "processing"

\* repository.finish(id, {state, deliveryState})
FinishRow(m, state, delivery, o) ==
  rows' = IF Finishable(m) /\ o # "fails"
            THEN [rows EXCEPT ![m].state = state, ![m].delivery = delivery] ELSE rows

Finish(h, o) ==
  /\ At(h, "finish")
  /\ FinishRow(MessageOf(h), "completed", "sent", o)
  /\ IF Finishable(MessageOf(h)) /\ o = "answers"
       THEN handler' = [handler EXCEPT ![h] = Idle] ELSE To(h, "catch")
  /\ UNCHANGED <<identity, outbox, delivered, left>>

\* Mutant: what was dispatched and then failed counts as not sent.
CatchDeliveryNone(h) == "not_sent"

CatchDelivery(h) == IF handler[h].uncertain THEN "indeterminate" ELSE "not_sent"

\* Mutant: a refused message is left as it was claimed.
CatchesDispatched(h) == handler[h].dispatched

\* The catch clause finishes whatever was claimed.
Catches(h) == TRUE

Catch(h, o) ==
  /\ At(h, "catch")
  /\ IF Catches(h)
       THEN FinishRow(MessageOf(h), IF handler[h].dispatched THEN "indeterminate" ELSE "failed", CatchDelivery(h), o)
       ELSE UNCHANGED rows
  /\ handler' = [handler EXCEPT ![h] = Idle]
  /\ left' = IF o = "fails" THEN left \cup {MessageOf(h)} ELSE left
  /\ UNCHANGED <<identity, outbox, delivered>>

-----------------------------------------------------------------------------
\* The outbound acts on a reply, possibly after send has rejected.
Deliver ==
  \E m \in outbox :
    /\ outbox' = outbox \ {m}
    /\ delivered' = [delivered EXCEPT ![m] = @ + 1]
    /\ UNCHANGED <<identity, rows, handler, left>>

\* A binding is disabled, or its membership changes.
SetIdentity(s, i) ==
  /\ identity[s] # i
  /\ identity' = [identity EXCEPT ![s] = i]
  /\ handler' = [h \in Handler |->
       IF handler[h] # Idle /\ handler[h].phase \in {"recheck", "mark"} /\ Sender[MessageOf(h)] = s
         THEN [handler[h] EXCEPT !.seen = @ \cup {i}] ELSE handler[h]]
  /\ UNCHANGED <<rows, outbox, delivered, left>>

Crash ==
  /\ "process" \in Faulty
  /\ \E h \in Handler : handler[h] # Idle
  /\ handler' = [h \in Handler |-> Idle]
  /\ left' = left \cup {MessageOf(h) : h \in {g \in Handler : handler[g] # Idle}}
  /\ UNCHANGED <<identity, rows, outbox, delivered>>

HandlerStep(h) ==
  \/ \E o \in Outcome("read") : ResolveIdentity(h, o) \/ Verify(h, o) \/ Recheck(h, o)
  \/ ResolveConversation(h)
  \/ \E o \in Outcome("attach") : AttachLock(h, o) \/ AttachUpdate(h, o)
  \/ Respond(h)
  \/ \E o \in Outcome("mark") : Mark(h, o)
  \/ Send(h)
  \/ \E o \in Outcome("finish") : Finish(h, o) \/ Catch(h, o)

Next ==
  \/ \E h \in Handler, m \in Message, o \in Outcome("claim") : Claim(h, m, o)
  \/ \E h \in Handler : HandlerStep(h)
  \/ \E s \in Subject, i \in Change : SetIdentity(s, i)
  \/ Deliver
  \/ Crash

Spec == Init /\ [][Next]_vars

\* Every awaited statement ends, and so do the mapping, respond and send.
Fairness == \A h \in Handler : WF_vars(HandlerStep(h))
FairSpec == Spec /\ Fairness

-----------------------------------------------------------------------------
(* Properties.                                                             *)

Attached(m, c) == rows[m] # NoRow /\ rows[m].conversation = c

\* "Node serializes active dispatch per scoped conversation" and keeps a
\* conversation with one verified binding (ARCHITECTURE_CONTRACT.md:172): of the
\* rows attached to a conversation at most one is open, and all are from one
\* sender; and no two calls are in respond for it.
DispatchIsSerialized ==
  /\ \A m, n \in Message, c \in Conversation :
       m # n /\ Attached(m, c) /\ Attached(n, c) =>
         /\ Sender[m] = Sender[n]
         /\ {rows[m].state, rows[n].state} \cap {"completed", "failed"} # {}
  /\ \A h, g \in Handler :
       h # g /\ At(h, "respond") /\ At(g, "respond") => handler[h].conversation # handler[g].conversation

\* A message is attached only while the identity it was mapped for is current,
\* and answered only if that was still so after the runtime had returned: no
\* reply is authorized by the state before a slow turn (core.ts 183 and 196).
ActsUnderAuthority ==
  [][\A h \in Handler : handler[h] # Idle =>
       /\ rows'[MessageOf(h)].state = "processing" /\ rows[MessageOf(h)].conversation = None
            /\ rows'[MessageOf(h)].conversation # None => IdentityOf(h) = handler[h].identity
       /\ MessageOf(h) \in outbox' \ outbox => handler[h].identity \in handler[h].seen]_vars

\* What a row says about the reply: "failed" and "not_sent" mean it was not sent.
Verdict(row) ==
  IF row.state = "absent" THEN "unseen"
  ELSE IF row.state = "processing" THEN "open"
  ELSE IF row.state = "completed" THEN "replied"
  ELSE IF row.state = "failed" \/ row.delivery = "not_sent" THEN "unreplied" ELSE "unknown"

\* At most one reply to a message, and a settled row is a fact
\* ("at most one send per claimed inbound record", ARCHITECTURE_CONTRACT.md:177).
Promise == INSTANCE MessageDelivery WITH
  verdict <- [m \in Message |-> Verdict(rows[m])],
  deliveries <- delivered
DeliverySpec == Promise!Spec

\* Every claimed message is settled: refused, completed or indeterminate, unless
\* the claim's answer, the last finish or the process was lost.
ClaimSettles ==
  \A m \in Message : rows[m].state = "processing" ~> rows[m].state \in Settled \/ m \in left
=============================================================================
