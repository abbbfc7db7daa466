-------------------------- MODULE CustomerRouting --------------------------
(***************************************************************************)
(* The live WeChat customer-service path: weComCallbackEvent and           *)
(* routeWeComCustomerTexts (src/enterprise/http-api.ts) over               *)
(* PostgresWeComCustomerRepository (src/channels/wecom/customer.ts) and    *)
(* the send half of createWeComKfClient (src/channels/wecom/client.ts).    *)
(* A handler is one callback request of the Node process; every awaited    *)
(* statement and network call is a step of its own, so that handlers       *)
(* interleave, statements fail or lose their acknowledgement, and the      *)
(* process dies between any two of them.                                   *)
(***************************************************************************)
EXTENDS Naturals, Sequences, FiniteSets

CONSTANTS
  Message,        \* (corp_id, open_kfid, message_id) keys of one channel
  Customer,       \* external_userid values
  Sender,         \* the customer who wrote each message
  Conversation,   \* conversation ids resolveRoute may draw
  Handler,        \* callback requests the process serves at a time
  Batch,          \* the text-message lists syncMessages may return
  None,
  MaxCallbacks,   \* bound: callback requests WeCom makes
  MaxFaults,      \* bound: database statements that fail or lose their answer
  MaxCrashes      \* bound: deaths of the process

ASSUME RoutingAssumption ==
  /\ Sender \in [Message -> Customer]
  /\ Batch \subseteq Seq(Message) \ {<<>>}
  /\ None \notin Conversation \cup Handler
  /\ MaxCallbacks \in Nat /\ MaxFaults \in Nat /\ MaxCrashes \in Nat

VARIABLES
  rows,           \* wecom_customer_inbound_messages, by message key
  bindings,       \* wecom_customer_bindings: the conversation of a customer
  conversations,  \* conversations committed by this channel
  channel,        \* wecom_kf_channels.status of the channel
  channelLock,    \* who holds the channel row FOR UPDATE
  pc, batch, next, route, refreshed, mark,    \* the frames of the handlers
  provider,       \* the last send_msg request for m, as WeCom sees it
  deliveries,     \* replies to m that WeCom accepted
  acked,          \* messages of the callbacks answered 200 "success"
  callbacks, faults, crashes

database == <<rows, bindings, conversations>>
frames == <<pc, batch, next, route, refreshed, mark>>
outbound == <<provider, deliveries>>
counters == <<callbacks, faults, crashes>>
vars == <<database, channel, channelLock, frames, outbound, acked, counters>>

RowState == {"absent", "processing", "routed", "completed", "failed", "indeterminate"}
Settled == {"completed", "failed", "indeterminate"}
ErrorCategory == {"unbound_channel", "route_attach_failed", "routing_error",
                  "agent_execution_error", "outbound_send_failed",
                  "outbound_send_indeterminate", "completion_persist_failed"}
ASSUME NoneIsNoError == None \notin ErrorCategory
Control == {"idle", "claim", "route", "read", "create", "attach", "respond",
            "send", "await", "complete", "mark"}

NoRow == [state |-> "absent", conversation |-> None, error |-> None]
NoMark == [state |-> "failed", error |-> "routing_error"]

Row == [state : RowState, conversation : Conversation \cup {None},
        error : ErrorCategory \cup {None}]
MarkRecord == [state : {"failed", "indeterminate"}, error : ErrorCategory]

\* Rows, locks and frames are well formed; in particular no handler reads past
\* the end of the list syncMessages returned.
TypeOK ==
  /\ rows \in [Message -> Row]
  /\ bindings \in [Customer -> Conversation \cup {None}]
  /\ conversations \subseteq Conversation
  /\ channel \in {"active", "disabled"}
  /\ channelLock \in Handler \cup {None}
  /\ pc \in [Handler -> Control]
  /\ batch \in [Handler -> Batch \cup {<<>>}]
  /\ next \in [Handler -> Nat]
  /\ \A h \in Handler : pc[h] # "idle" => batch[h] \in Batch /\ next[h] \in 1..Len(batch[h])
  /\ route \in [Handler -> Conversation \cup {None}]
  /\ refreshed \in [Handler -> BOOLEAN]
  /\ mark \in [Handler -> MarkRecord]
  /\ provider \in [Message -> {"idle", "inflight", "accepted", "refused", "stale"}]
  /\ deliveries \in [Message -> Nat]
  /\ acked \subseteq Message
  /\ callbacks \in 0..MaxCallbacks /\ faults \in 0..MaxFaults /\ crashes \in 0..MaxCrashes

Init ==
  /\ rows = [m \in Message |-> NoRow]
  /\ bindings = [c \in Customer |-> None]
  /\ conversations = {}
  /\ channel \in {"active", "disabled"}
  /\ channelLock = None
  /\ pc = [h \in Handler |-> "idle"]
  /\ batch = [h \in Handler |-> <<>>]
  /\ next = [h \in Handler |-> 1]
  /\ route = [h \in Handler |-> None]
  /\ refreshed = [h \in Handler |-> FALSE]
  /\ mark = [h \in Handler |-> NoMark]
  /\ provider = [m \in Message |-> "idle"]
  /\ deliveries = [m \in Message |-> 0]
  /\ acked = {}
  /\ callbacks = 0 /\ faults = 0 /\ crashes = 0

-----------------------------------------------------------------------------
(* Shared parts of the steps.                                              *)

Current(h) == batch[h][next[h]]
MessagesOf(b) == {b[i] : i \in 1..Len(b)}

\* A statement answers, is applied without its answer arriving, or fails.
Outcome == IF faults < MaxFaults THEN {"ok", "lost", "error"} ELSE {"ok"}
Applied(o) == o # "error"
Count(o) == faults' = IF o = "ok" THEN faults ELSE faults + 1

Goto(h, label) == pc' = [pc EXCEPT ![h] = label]

\* The handler is about to record a failure of its current message.
Fail(h, state, category) ==
  /\ Goto(h, "mark")
  /\ mark' = [mark EXCEPT ![h] = [state |-> state, error |-> category]]

LastOfBatch(h) == next[h] = Len(batch[h])

\* `continue` of the message loop; after the last message the callback is answered.
Advance(h) ==
  /\ IF LastOfBatch(h)
       THEN /\ Goto(h, "idle")
            /\ acked' = acked \cup MessagesOf(batch[h])
            /\ UNCHANGED next
       ELSE /\ Goto(h, "claim")
            /\ next' = [next EXCEPT ![h] = @ + 1]
            /\ UNCHANGED acked
  /\ UNCHANGED <<batch, route, refreshed, mark>>

\* Mutant: the callback is answered before its messages are claimed.
CallbackAckedEarly(h, b) ==
  /\ pc[h] = "idle" /\ callbacks < MaxCallbacks
  /\ Goto(h, "claim")
  /\ batch' = [batch EXCEPT ![h] = b]
  /\ next' = [next EXCEPT ![h] = 1]
  /\ callbacks' = callbacks + 1
  /\ acked' = acked \cup MessagesOf(b)
  /\ UNCHANGED <<database, channel, channelLock, route, refreshed, mark, outbound,
                 faults, crashes>>

\* A callback request arrives and sync_msg returns a list; WeCom repeats at will.
Callback(h, b) ==
  /\ pc[h] = "idle" /\ callbacks < MaxCallbacks
  /\ Goto(h, "claim")
  /\ batch' = [batch EXCEPT ![h] = b]
  /\ next' = [next EXCEPT ![h] = 1]
  /\ callbacks' = callbacks + 1
  /\ UNCHANGED <<database, channel, channelLock, route, refreshed, mark, outbound,
                 acked, faults, crashes>>

\* An operator enables or disables the channel row; the update waits for its lock.
SetChannel(status) ==
  /\ channelLock = None /\ channel # status
  /\ channel' = status
  /\ UNCHANGED <<database, channelLock, frames, outbound, acked, counters>>

-----------------------------------------------------------------------------
(* claim: INSERT ... ON CONFLICT DO NOTHING, then compare payload hashes.   *)

\* Mutant: an uncertain delivery is tried again.
ClaimableUncertain(m) == rows[m].state \in {"absent", "indeterminate"}

Claimable(m) == rows[m].state = "absent"

ClaimNew(h) ==
  /\ pc[h] = "claim" /\ Claimable(Current(h))
  /\ \E o \in Outcome :
       /\ Count(o)
       /\ rows' = IF Applied(o)
                    THEN [rows EXCEPT ![Current(h)] = [NoRow EXCEPT !.state = "processing"]]
                    ELSE rows
       /\ Goto(h, IF o = "ok" THEN "route" ELSE "idle")
  /\ refreshed' = [refreshed EXCEPT ![h] = FALSE]
  /\ UNCHANGED <<bindings, conversations, channel, channelLock, batch, next, route, mark,
                 outbound, acked, callbacks, crashes>>

\* A row exists: "duplicate" or "conflict", and both are skipped.
ClaimSeen(h) ==
  /\ pc[h] = "claim" /\ ~Claimable(Current(h))
  /\ Advance(h)
  /\ UNCHANGED <<database, channel, channelLock, outbound, counters>>

\* claim throws on a row that exists: the batch is abandoned, the callback gets 502.
ClaimThrows(h) ==
  /\ pc[h] = "claim" /\ ~Claimable(Current(h)) /\ faults < MaxFaults
  /\ faults' = faults + 1
  /\ Goto(h, "idle")
  /\ UNCHANGED <<database, channel, channelLock, batch, next, route, refreshed, mark,
                 outbound, acked, callbacks, crashes>>

-----------------------------------------------------------------------------
(* resolveRoute: one transaction holding the channel row.                   *)

LockFree(h) == channelLock = None

RouteLock(h) ==
  /\ pc[h] = "route" /\ LockFree(h)
  /\ \E o \in Outcome :
       /\ Count(o)
       /\ \/ /\ o = "ok" /\ channel = "active"
             /\ channelLock' = h
             /\ Goto(h, "read")
             /\ UNCHANGED mark
          \/ /\ o = "ok" /\ channel = "disabled"
             /\ Fail(h, "failed", "unbound_channel")
             /\ UNCHANGED channelLock
          \/ /\ o # "ok"
             /\ Fail(h, "failed", "routing_error")
             /\ UNCHANGED channelLock
  /\ UNCHANGED <<database, channel, batch, next, route, refreshed, outbound, acked,
                 callbacks, crashes>>

\* SELECT of the customer binding; an existing one ends the transaction.
RouteRead(h) ==
  /\ pc[h] = "read"
  /\ \E o \in Outcome :
       /\ Count(o)
       /\ \/ /\ o = "ok" /\ bindings[Sender[Current(h)]] = None
             /\ Goto(h, "create")
             /\ UNCHANGED <<channelLock, route, mark>>
          \/ /\ o = "ok" /\ bindings[Sender[Current(h)]] # None
             /\ route' = [route EXCEPT ![h] = bindings[Sender[Current(h)]]]
             /\ channelLock' = None
             /\ Goto(h, "attach")
             /\ UNCHANGED mark
          \/ /\ o # "ok"
             /\ channelLock' = None
             /\ Fail(h, "failed", "routing_error")
             /\ UNCHANGED route
  /\ UNCHANGED <<database, channel, batch, next, refreshed, outbound, acked, callbacks, crashes>>

\* Mutant: the conversation is inserted outside the transaction.
CommitRouteSplit(c, conv, o) ==
  /\ conversations' = conversations \cup {conv}
  /\ bindings' = IF Applied(o) /\ bindings[c] = None THEN [bindings EXCEPT ![c] = conv]
                 ELSE bindings

\* What COMMIT leaves of the two inserts, whose binding key is unique.
CommitRoute(c, conv, o) ==
  IF Applied(o) /\ bindings[c] = None
    THEN /\ conversations' = conversations \cup {conv}
         /\ bindings' = [bindings EXCEPT ![c] = conv]
    ELSE UNCHANGED <<conversations, bindings>>

RouteCreate(h, conv) ==
  /\ pc[h] = "create" /\ conv \notin conversations
  /\ \E o \in Outcome :
       /\ Count(o)
       /\ CommitRoute(Sender[Current(h)], conv, o)
       /\ IF o = "ok" /\ bindings[Sender[Current(h)]] = None
            THEN /\ route' = [route EXCEPT ![h] = conv]
                 /\ Goto(h, "attach")
                 /\ UNCHANGED mark
            ELSE /\ Fail(h, "failed", "routing_error")
                 /\ UNCHANGED route
  /\ channelLock' = None
  /\ UNCHANGED <<rows, channel, batch, next, refreshed, outbound, acked, callbacks, crashes>>

-----------------------------------------------------------------------------
(* attachRoute, the governed turn, and the reply.                           *)

\* UPDATE ... WHERE state='processing' AND channel_binding_id IS NULL
Attachable(m) == rows[m].state = "processing" /\ rows[m].conversation = None

Attach(h) ==
  /\ pc[h] = "attach"
  /\ \E o \in Outcome :
       /\ Count(o)
       /\ rows' = IF Applied(o) /\ Attachable(Current(h))
                    THEN [rows EXCEPT ![Current(h)].state = "routed",
                                      ![Current(h)].conversation = route[h]]
                    ELSE rows
       /\ \/ /\ o = "ok" /\ Attachable(Current(h))
             /\ Goto(h, "respond")
             /\ UNCHANGED mark
          \/ /\ o = "ok" /\ ~Attachable(Current(h))
             /\ Fail(h, "failed", "route_attach_failed")
          \/ /\ o # "ok"
             /\ Fail(h, "failed", "routing_error")
  /\ UNCHANGED <<bindings, conversations, channel, channelLock, batch, next, route, refreshed,
                 outbound, acked, callbacks, crashes>>

\* supportService.respond returns a result, or throws.
Respond(h) ==
  /\ pc[h] = "respond"
  /\ \/ Goto(h, "send") /\ UNCHANGED mark
     \/ Fail(h, "failed", "agent_execution_error")
  /\ UNCHANGED <<database, channel, channelLock, batch, next, route, refreshed, outbound,
                 acked, counters>>

\* The text is not sendable, or no access token is to be had: nothing is sent.
SendRejectedLocally(h) ==
  /\ pc[h] = "send"
  /\ Fail(h, "failed", "outbound_send_failed")
  /\ UNCHANGED <<database, channel, channelLock, batch, next, route, refreshed, outbound,
                 acked, counters>>

\* POST /cgi-bin/kf/send_msg leaves the process.
Post(h) ==
  /\ pc[h] = "send"
  /\ provider' = [provider EXCEPT ![Current(h)] = "inflight"]
  /\ Goto(h, "await")
  /\ UNCHANGED <<database, channel, channelLock, batch, next, route, refreshed, mark,
                 deliveries, acked, counters>>

\* WeCom decides, also for a request whose sender no longer waits.
ProviderAnswers(m, answer) ==
  /\ provider[m] = "inflight"
  /\ provider' = [provider EXCEPT ![m] = answer]
  /\ deliveries' = IF answer = "accepted" THEN [deliveries EXCEPT ![m] = @ + 1] ELSE deliveries
  /\ UNCHANGED <<database, channel, channelLock, frames, acked, counters>>

\* Why a POST fails: a readable refusal (a second stale token included), or an
\* errcode 0 whose msgid is missing, which boundedString reports as a plain Error.
SendFailure(h) ==
  LET answer == provider[Current(h)] IN
  {"outbound_send_indeterminate"}   \* timeout, transport, HTTP status, unreadable body, other msgid
    \cup (IF answer \in {"refused", "accepted"} \/ (answer = "stale" /\ refreshed[h])
            THEN {"outbound_send_failed"} ELSE {})

StateOf(category) ==
  IF category \in {"outbound_send_indeterminate", "completion_persist_failed"}
    THEN "indeterminate" ELSE "failed"

AwaitFails(h) ==
  /\ pc[h] = "await"
  /\ \E category \in SendFailure(h) : Fail(h, StateOf(category), category)
  /\ UNCHANGED <<database, channel, channelLock, batch, next, route, refreshed, outbound,
                 acked, counters>>

\* Mutant: any unsatisfactory answer is worth one more attempt.
MayResendBlindly(h) == ~refreshed[h]

\* errcode 40014 or 42001: one more attempt with a fresh token.
MayResend(h) == provider[Current(h)] = "stale" /\ ~refreshed[h]

AwaitStaleToken(h) ==
  /\ pc[h] = "await" /\ MayResend(h)
  /\ refreshed' = [refreshed EXCEPT ![h] = TRUE]
  /\ Goto(h, "send")
  /\ UNCHANGED <<database, channel, channelLock, batch, next, route, mark, outbound, acked,
                 counters>>

AwaitAccepted(h) ==
  /\ pc[h] = "await" /\ provider[Current(h)] = "accepted"
  /\ Goto(h, "complete")
  /\ UNCHANGED <<database, channel, channelLock, batch, next, route, refreshed, mark, outbound,
                 acked, counters>>

-----------------------------------------------------------------------------
(* complete, markFailed and markIndeterminate.                              *)

Complete(h) ==
  /\ pc[h] = "complete"
  /\ \E o \in Outcome :
       /\ Count(o)
       /\ rows' = IF Applied(o) /\ rows[Current(h)].state = "routed"
                    THEN [rows EXCEPT ![Current(h)].state = "completed",
                                      ![Current(h)].error = None]
                    ELSE rows
       /\ IF o = "ok" /\ rows[Current(h)].state = "routed"
            THEN Advance(h)
            ELSE /\ Fail(h, "indeterminate", "completion_persist_failed")
                 /\ UNCHANGED <<batch, next, route, refreshed, acked>>
  /\ UNCHANGED <<bindings, conversations, channel, channelLock, outbound, callbacks, crashes>>

\* Mutant: the mark statements lose their state condition.
MarkableAlways(state) == RowState \ {"absent"}

\* Mutant: a failure after routing is not recorded.
MarkableEarly(state) == IF state = "failed" THEN {"processing"} ELSE {"routed"}

\* The states the WHERE clause of the two mark statements allows to be replaced.
Markable(state) ==
  IF state = "failed" THEN {"processing", "routed"} ELSE {"routed"}

\* A mark that throws inside the routing try block is retried as "routing_error";
\* everywhere else the error is swallowed and the loop goes on.
MarkRetried(h, o) == o # "ok" /\ mark[h].error \in {"unbound_channel", "route_attach_failed"}

Mark(h) ==
  /\ pc[h] = "mark"
  /\ \E o \in Outcome :
       /\ Count(o)
       /\ rows' = IF Applied(o) /\ rows[Current(h)].state \in Markable(mark[h].state)
                    THEN [rows EXCEPT ![Current(h)].state = mark[h].state,
                                      ![Current(h)].error = mark[h].error]
                    ELSE rows
       /\ IF MarkRetried(h, o)
            THEN /\ Fail(h, "failed", "routing_error")
                 /\ UNCHANGED <<batch, next, route, refreshed, acked>>
            ELSE Advance(h)
  /\ UNCHANGED <<bindings, conversations, channel, channelLock, outbound, callbacks, crashes>>

-----------------------------------------------------------------------------
\* The process dies: frames are gone, open transactions roll back, requests on
\* the wire stay there.
Crash ==
  /\ crashes < MaxCrashes
  /\ crashes' = crashes + 1
  /\ pc' = [h \in Handler |-> "idle"]
  /\ channelLock' = None
  /\ UNCHANGED <<database, channel, batch, next, route, refreshed, mark, outbound, acked,
                 callbacks, faults>>

Step(h) ==
  \/ ClaimNew(h) \/ ClaimSeen(h) \/ ClaimThrows(h)
  \/ RouteLock(h) \/ RouteRead(h) \/ (\E conv \in Conversation : RouteCreate(h, conv))
  \/ Attach(h) \/ Respond(h)
  \/ SendRejectedLocally(h) \/ Post(h) \/ AwaitFails(h) \/ AwaitStaleToken(h) \/ AwaitAccepted(h)
  \/ Complete(h) \/ Mark(h)

Next ==
  \/ \E h \in Handler : Step(h) \/ (\E b \in Batch : Callback(h, b))
  \/ \E m \in Message, answer \in {"accepted", "refused", "stale"} : ProviderAnswers(m, answer)
  \/ \E status \in {"active", "disabled"} : SetChannel(status)
  \/ Crash

Spec == Init /\ [][Next]_vars

\* Every awaited call returns, fails or times out, and the lock queue is fair.
FairSpec == Spec /\ \A h \in Handler : WF_vars(Step(h))

-----------------------------------------------------------------------------
(* Properties.                                                              *)

\* Whatever handlers, redelivered callbacks, lost answers and crashes do, WeCom
\* accepts at most one reply to a message: claim is never granted twice and the
\* only repeated POST follows a refused one.
AtMostOneReply == \A m \in Message : deliveries[m] <= 1

\* A customer's messages meet in one conversation, and no conversation is left
\* without its customer binding: resolveRoute creates both or neither, once, and
\* without a database fault the channel lock keeps two first messages of one
\* customer from making each other fail.
OneConversationPerCustomer ==
  /\ \A m \in Message : rows[m].conversation \in {None, bindings[Sender[m]]}
  /\ conversations = {bindings[c] : c \in Customer} \ {None}
  /\ \A c, d \in Customer : bindings[c] = bindings[d] /\ bindings[c] # None => c = d
  /\ (\E m \in Message : rows[m].error = "routing_error") => faults > 0

\* A callback answered 200 has a durable row for every message it listed, so
\* WeCom may forget them.
AckedIsRecorded == \A m \in acked : rows[m].state # "absent"

\* The first recorded outcome stands: a late complete, a repeated mark and a
\* lost acknowledgement never rewrite a settled row.
OutcomeStands ==
  [][\A m \in Message : rows[m].state \in Settled => rows'[m] = rows[m]]_vars

\* A claimed message is settled unless a statement failed or the process died:
\* every branch of the loop ends in complete or a mark.
ClaimSettles ==
  \A m \in Message :
    rows[m].state = "processing" ~> (rows[m].state \in Settled \/ faults > 0 \/ crashes > 0)

\* What the row says about the reply, for MessageDelivery.
VerdictOf(row) ==
  CASE row.state = "absent" -> "unseen"
    [] row.state \in {"processing", "routed"} -> "open"
    [] row.state = "completed" -> "replied"
    [] row.state = "failed" /\ row.error # "outbound_send_failed" -> "unreplied"
    [] OTHER -> "unknown"

Delivery == INSTANCE MessageDelivery WITH
  verdict <- [m \in Message |-> VerdictOf(rows[m])], deliveries <- deliveries

\* The live path implements MessageDelivery: "completed" rows were delivered,
\* rows failed before the send were not, and neither changes afterwards.
DeliverySpec == Delivery!Spec

\* Contract: dispatch is serialized per conversation.  Refuted: two callbacks run
\* the runtime for the same conversation at the same time.
NoOverlappingDispatch ==
  \A g, h \in Handler :
    g # h /\ pc[g] = "respond" /\ pc[h] = "respond" => route[g] # route[h]
=============================================================================
