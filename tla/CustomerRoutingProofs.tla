----------------------- MODULE CustomerRoutingProofs -----------------------
(* Proofs about CustomerRouting for every set of messages, customers,      *)
(* handlers and batches and for every bound on callbacks, faults, crashes. *)
EXTENDS CustomerRouting, TLAPS

-----------------------------------------------------------------------------
(* Type correctness.                                                        *)

\* While a handler is in its loop, its current element is one of the messages.
LEMMA CurrentIsMessage ==
  ASSUME TypeOK, NEW h \in Handler, pc[h] # "idle"
  PROVE  Current(h) \in Message
<1>1. batch[h] \in Seq(Message) /\ next[h] \in 1..Len(batch[h])
  BY RoutingAssumption DEF TypeOK
<1> QED  BY <1>1 DEF Current

\* The loop head: the next message, or the end of the callback.
LEMMA AdvanceType ==
  ASSUME TypeOK, NEW h \in Handler, pc[h] # "idle", Advance(h)
  PROVE  /\ pc' \in [Handler -> Control]
         /\ next' \in [Handler -> Nat]
         /\ \A g \in Handler : pc'[g] # "idle" =>
              batch[g] \in Batch /\ next'[g] \in 1..Len(batch[g])
         /\ acked' \subseteq Message
         /\ UNCHANGED <<batch, route, refreshed, mark>>
<1>1. batch[h] \in Seq(Message) /\ next[h] \in 1..Len(batch[h])
  BY RoutingAssumption DEF TypeOK
<1>2. MessagesOf(batch[h]) \subseteq Message
  BY <1>1 DEF MessagesOf
<1>3. CASE LastOfBatch(h)
  BY <1>2, <1>3 DEF Advance, TypeOK, Goto, Control
<1>4. CASE ~LastOfBatch(h)
  <2>1. next[h] + 1 \in 1..Len(batch[h])
    BY <1>1, <1>4 DEF LastOfBatch
  <2>2. pc' \in [Handler -> Control] /\ pc' = [pc EXCEPT ![h] = "claim"]
    BY <1>4 DEF Advance, TypeOK, Goto, Control
  <2>3. next' \in [Handler -> Nat] /\ next' = [next EXCEPT ![h] = @ + 1]
    BY <1>4 DEF Advance, TypeOK
  <2>4. batch[h] \in Batch /\ next'[h] \in 1..Len(batch[h])
    BY <2>1, <2>3 DEF TypeOK
  <2>5. \A g \in Handler : pc'[g] # "idle" =>
          batch[g] \in Batch /\ next'[g] \in 1..Len(batch[g])
    BY <2>2, <2>3, <2>4 DEF TypeOK
  <2> QED  BY <1>4, <2>2, <2>3, <2>5 DEF Advance, TypeOK
<1> QED  BY <1>3, <1>4

LEMMA FailType ==
  ASSUME TypeOK, NEW h \in Handler, NEW s \in {"failed", "indeterminate"},
         NEW e \in ErrorCategory, Fail(h, s, e)
  PROVE  /\ pc' \in [Handler -> Control]
         /\ \A g \in Handler : pc'[g] = "mark" \/ pc'[g] = pc[g]
         /\ pc[h] # "idle" => \A g \in Handler : pc'[g] # "idle" => pc[g] # "idle"
         /\ mark' \in [Handler -> MarkRecord]
<1>1. [state |-> s, error |-> e] \in MarkRecord
  BY DEF MarkRecord
<1> QED  BY <1>1 DEF Fail, Goto, TypeOK, Control

\* Replacing two columns of one row keeps the table well formed.
LEMMA RowUpdate ==
  ASSUME TypeOK, NEW m \in Message, NEW s \in RowState,
         NEW v \in Conversation \cup {None}, NEW e \in ErrorCategory \cup {None}
  PROVE  /\ [rows EXCEPT ![m].state = s, ![m].conversation = v] \in [Message -> Row]
         /\ [rows EXCEPT ![m].state = s, ![m].error = e] \in [Message -> Row]
<1>1. rows \in [Message -> Row] /\ rows[m] \in Row
  BY DEF TypeOK
<1>2. /\ [rows[m] EXCEPT !.state = s, !.conversation = v] \in Row
      /\ [rows[m] EXCEPT !.state = s, !.error = e] \in Row
  BY <1>1 DEF Row
<1>3. /\ [rows EXCEPT ![m].state = s, ![m].conversation = v]
           = [rows EXCEPT ![m] = [rows[m] EXCEPT !.state = s, !.conversation = v]]
      /\ [rows EXCEPT ![m].state = s, ![m].error = e]
           = [rows EXCEPT ![m] = [rows[m] EXCEPT !.state = s, !.error = e]]
  BY <1>1
<1> QED  BY <1>1, <1>2, <1>3

LEMMA CountType ==
  ASSUME TypeOK, NEW o \in Outcome, Count(o)
  PROVE  faults' \in 0..MaxFaults
BY RoutingAssumption DEF Outcome, Count, TypeOK

LEMMA TypeInit == Init => TypeOK
<1>1. NoRow \in Row /\ NoMark \in MarkRecord
  BY DEF NoRow, Row, NoMark, MarkRecord, RowState, ErrorCategory
<1> QED  BY <1>1, RoutingAssumption DEF Init, TypeOK, Control

LEMMA TypeStep == TypeOK /\ [Next]_vars => TypeOK'
<1> SUFFICES ASSUME TypeOK, [Next]_vars PROVE TypeOK'
  OBVIOUS
<1> USE DEF database, frames, outbound, counters
<1>1. ASSUME NEW h \in Handler, NEW b \in Batch, Callback(h, b) PROVE TypeOK'
  <2>1. b \in Seq(Message) /\ b # <<>> /\ 1 \in 1..Len(b)
    BY RoutingAssumption
  <2> QED  BY <1>1, <2>1, RoutingAssumption DEF Callback, TypeOK, Goto, Control
<1>2. ASSUME NEW h \in Handler, Step(h) PROVE TypeOK'
  <2>1. CASE ClaimNew(h)
    <3>1. pc[h] # "idle" /\ Current(h) \in Message  BY <2>1, CurrentIsMessage DEF ClaimNew
    <3>2. PICK o \in Outcome : 
             /\ Count(o)
             /\ rows' = IF Applied(o)
                          THEN [rows EXCEPT ![Current(h)] = [NoRow EXCEPT !.state = "processing"]]
                          ELSE rows
             /\ Goto(h, IF o = "ok" THEN "route" ELSE "idle")
      BY <2>1 DEF ClaimNew
    <3>3. faults' \in 0..MaxFaults  BY <3>2, CountType
    <3>4. rows' \in [Message -> Row]
      BY <3>1, <3>2 DEF TypeOK, NoRow, Row, RowState
    <3>5. /\ pc' \in [Handler -> Control]
          /\ \A g \in Handler : pc'[g] # "idle" => pc[g] # "idle"
      BY <3>1, <3>2 DEF TypeOK, Goto, Control
    <3> QED  BY <2>1, <3>3, <3>4, <3>5 DEF ClaimNew, TypeOK
  <2>2. CASE ClaimSeen(h)
    <3>1. pc[h] # "idle" /\ Advance(h)  BY <2>2 DEF ClaimSeen
    <3> HIDE DEF Advance
    <3> QED  BY <2>2, <3>1, AdvanceType DEF ClaimSeen, TypeOK
  <2>3. CASE ClaimThrows(h)
    BY <2>3, RoutingAssumption DEF ClaimThrows, TypeOK, Goto, Control
  <2>4. CASE RouteLock(h)
    <3>1. PICK o \in Outcome : 
             /\ Count(o)
             /\ \/ /\ channelLock' = h
                   /\ Goto(h, "read")
                   /\ UNCHANGED mark
                \/ /\ Fail(h, "failed", "unbound_channel")
                   /\ UNCHANGED channelLock
                \/ /\ Fail(h, "failed", "routing_error")
                   /\ UNCHANGED channelLock
      BY <2>4 DEF RouteLock
    <3>2. faults' \in 0..MaxFaults  BY <3>1, CountType
    <3>3. CASE /\ channelLock' = h
               /\ Goto(h, "read")
               /\ UNCHANGED mark
      BY <2>4, <3>2, <3>3 DEF RouteLock, TypeOK, Goto, Control
    <3>4. ASSUME NEW e \in ErrorCategory, Fail(h, "failed", e), UNCHANGED channelLock
          PROVE  TypeOK'
      BY <2>4, <3>2, <3>4, FailType DEF RouteLock, TypeOK
    <3> QED  BY <3>1, <3>3, <3>4 DEF ErrorCategory
  <2>5. CASE RouteRead(h)
    <3>1. pc[h] # "idle" /\ Current(h) \in Message  BY <2>5, CurrentIsMessage DEF RouteRead
    <3>2. bindings[Sender[Current(h)]] \in Conversation \cup {None}
      BY <3>1, RoutingAssumption DEF TypeOK
    <3>3. PICK o \in Outcome : 
             /\ Count(o)
             /\ \/ /\ Goto(h, "create")
                   /\ UNCHANGED <<channelLock, route, mark>>
                \/ /\ route' = [route EXCEPT ![h] = bindings[Sender[Current(h)]]]
                   /\ channelLock' = None
                   /\ Goto(h, "attach")
                   /\ UNCHANGED mark
                \/ /\ channelLock' = None
                   /\ Fail(h, "failed", "routing_error")
                   /\ UNCHANGED route
      BY <2>5 DEF RouteRead
    <3>4. faults' \in 0..MaxFaults  BY <3>3, CountType
    <3>5. CASE Fail(h, "failed", "routing_error") /\ channelLock' = None /\ UNCHANGED route
      BY <2>5, <3>1, <3>4, <3>5, FailType DEF RouteRead, TypeOK, ErrorCategory
    <3>6. CASE Goto(h, "create") /\ UNCHANGED <<channelLock, route, mark>>
      BY <2>5, <3>4, <3>6 DEF RouteRead, TypeOK, Goto, Control
    <3>7. CASE /\ route' = [route EXCEPT ![h] = bindings[Sender[Current(h)]]]
               /\ channelLock' = None
               /\ Goto(h, "attach")
               /\ UNCHANGED mark
      BY <2>5, <3>2, <3>4, <3>7 DEF RouteRead, TypeOK, Goto, Control
    <3> QED  BY <3>3, <3>5, <3>6, <3>7
  <2>6. ASSUME NEW conv \in Conversation, RouteCreate(h, conv) PROVE TypeOK'
    <3>1. pc[h] # "idle" /\ Current(h) \in Message  BY <2>6, CurrentIsMessage DEF RouteCreate
    <3>2. Sender[Current(h)] \in Customer  BY <3>1, RoutingAssumption
    <3>3. PICK o \in Outcome : 
             /\ Count(o)
             /\ CommitRoute(Sender[Current(h)], conv, o)
             /\ \/ /\ route' = [route EXCEPT ![h] = conv]
                   /\ Goto(h, "attach")
                   /\ UNCHANGED mark
                \/ /\ Fail(h, "failed", "routing_error")
                   /\ UNCHANGED route
      BY <2>6 DEF RouteCreate
    <3>4. faults' \in 0..MaxFaults  BY <3>3, CountType
    <3>5. /\ bindings' \in [Customer -> Conversation \cup {None}]
          /\ conversations' \subseteq Conversation
      BY <3>2, <3>3 DEF CommitRoute, TypeOK
    <3>6. CASE Fail(h, "failed", "routing_error") /\ UNCHANGED route
      BY <2>6, <3>1, <3>4, <3>5, <3>6, FailType DEF RouteCreate, TypeOK, ErrorCategory
    <3>7. CASE /\ route' = [route EXCEPT ![h] = conv]
               /\ Goto(h, "attach")
               /\ UNCHANGED mark
      BY <2>6, <3>4, <3>5, <3>7 DEF RouteCreate, TypeOK, Goto, Control
    <3> QED  BY <3>3, <3>6, <3>7
  <2>7. CASE Attach(h)
    <3>1. pc[h] # "idle" /\ Current(h) \in Message  BY <2>7, CurrentIsMessage DEF Attach
    <3>2. PICK o \in Outcome : 
             /\ Count(o)
             /\ rows' = IF Applied(o) /\ Attachable(Current(h))
                          THEN [rows EXCEPT ![Current(h)].state = "routed",
                                            ![Current(h)].conversation = route[h]]
                          ELSE rows
             /\ \/ /\ Goto(h, "respond")
                   /\ UNCHANGED mark
                \/ Fail(h, "failed", "route_attach_failed")
                \/ Fail(h, "failed", "routing_error")
      BY <2>7 DEF Attach
    <3>3. faults' \in 0..MaxFaults  BY <3>2, CountType
    <3>4. rows' \in [Message -> Row]
      BY <3>1, <3>2, RowUpdate DEF TypeOK, RowState
    <3>5. ASSUME NEW e \in ErrorCategory, Fail(h, "failed", e) PROVE TypeOK'
      BY <2>7, <3>1, <3>3, <3>4, <3>5, FailType DEF Attach, TypeOK
    <3>6. CASE Goto(h, "respond") /\ UNCHANGED mark
      BY <2>7, <3>3, <3>4, <3>6 DEF Attach, TypeOK, Goto, Control
    <3> QED  BY <3>2, <3>5, <3>6 DEF ErrorCategory
  <2>8. CASE Respond(h)
    <3>1. CASE Goto(h, "send") /\ UNCHANGED mark
      BY <2>8, <3>1 DEF Respond, TypeOK, Goto, Control
    <3>2. CASE Fail(h, "failed", "agent_execution_error")
      BY <2>8, <3>2, FailType DEF Respond, TypeOK, ErrorCategory
    <3> QED  BY <2>8, <3>1, <3>2 DEF Respond
  <2>9. CASE SendRejectedLocally(h)
    BY <2>9, FailType DEF SendRejectedLocally, TypeOK, ErrorCategory
  <2>10. CASE Post(h)
    <3>1. Current(h) \in Message  BY <2>10, CurrentIsMessage DEF Post
    <3> QED  BY <2>10, <3>1 DEF Post, TypeOK, Goto, Control
  <2>11. CASE AwaitFails(h)
    <3>1. PICK category \in SendFailure(h) : Fail(h, StateOf(category), category)
      BY <2>11 DEF AwaitFails
    <3>2. category \in ErrorCategory  BY DEF SendFailure, ErrorCategory
    <3>3. StateOf(category) \in {"failed", "indeterminate"}  BY DEF StateOf
    <3> QED  BY <2>11, <3>1, <3>2, <3>3, FailType DEF AwaitFails, TypeOK
  <2>12. CASE AwaitStaleToken(h)
    BY <2>12 DEF AwaitStaleToken, TypeOK, Goto, Control
  <2>13. CASE AwaitAccepted(h)
    BY <2>13 DEF AwaitAccepted, TypeOK, Goto, Control
  <2>14. CASE Complete(h)
    <3>1. pc[h] # "idle" /\ Current(h) \in Message  BY <2>14, CurrentIsMessage DEF Complete
    <3>2. PICK o \in Outcome : 
             /\ Count(o)
             /\ rows' = IF Applied(o) /\ rows[Current(h)].state = "routed"
                          THEN [rows EXCEPT ![Current(h)].state = "completed",
                                            ![Current(h)].error = None]
                          ELSE rows
             /\ \/ Advance(h)
                \/ /\ Fail(h, "indeterminate", "completion_persist_failed")
                   /\ UNCHANGED <<batch, next, route, refreshed, acked>>
      BY <2>14 DEF Complete
    <3>3. faults' \in 0..MaxFaults  BY <3>2, CountType
    <3>4. rows' \in [Message -> Row]
      BY <3>1, <3>2, RowUpdate DEF TypeOK, RowState
    <3>5. CASE Advance(h)
      BY <2>14, <3>1, <3>3, <3>4, <3>5, AdvanceType DEF Complete, TypeOK
    <3>6. CASE /\ Fail(h, "indeterminate", "completion_persist_failed")
               /\ UNCHANGED <<batch, next, route, refreshed, acked>>
      BY <2>14, <3>1, <3>3, <3>4, <3>6, FailType DEF Complete, TypeOK, ErrorCategory
    <3> QED  BY <3>2, <3>5, <3>6
  <2>15. CASE Mark(h)
    <3>1. pc[h] # "idle" /\ Current(h) \in Message  BY <2>15, CurrentIsMessage DEF Mark
    <3>2. PICK o \in Outcome : 
             /\ Count(o)
             /\ rows' = IF Applied(o) /\ rows[Current(h)].state \in Markable(mark[h].state)
                          THEN [rows EXCEPT ![Current(h)].state = mark[h].state,
                                            ![Current(h)].error = mark[h].error]
                          ELSE rows
             /\ \/ Advance(h)
                \/ /\ Fail(h, "failed", "routing_error")
                   /\ UNCHANGED <<batch, next, route, refreshed, acked>>
      BY <2>15 DEF Mark
    <3>3. faults' \in 0..MaxFaults  BY <3>2, CountType
    <3>4. rows' \in [Message -> Row]
      BY <3>1, <3>2, RowUpdate DEF TypeOK, RowState, MarkRecord
    <3>5. CASE Advance(h)
      BY <2>15, <3>1, <3>3, <3>4, <3>5, AdvanceType DEF Mark, TypeOK
    <3>6. CASE /\ Fail(h, "failed", "routing_error")
               /\ UNCHANGED <<batch, next, route, refreshed, acked>>
      BY <2>15, <3>1, <3>3, <3>4, <3>6, FailType DEF Mark, TypeOK, ErrorCategory
    <3> QED  BY <3>2, <3>5, <3>6
  <2> QED
    BY <1>2, <2>1, <2>2, <2>3, <2>4, <2>5, <2>6, <2>7, <2>8, <2>9, <2>10, <2>11, <2>12,
       <2>13, <2>14, <2>15 DEF Step
<1>3. ASSUME NEW m \in Message, NEW answer \in {"accepted", "refused", "stale"},
             ProviderAnswers(m, answer)
      PROVE  TypeOK'
  BY <1>3 DEF ProviderAnswers, TypeOK
<1>4. ASSUME NEW status \in {"active", "disabled"}, SetChannel(status) PROVE TypeOK'
  BY <1>4 DEF SetChannel, TypeOK
<1>5. CASE Crash
  BY <1>5, RoutingAssumption DEF Crash, TypeOK, Control
<1>6. CASE UNCHANGED vars
  BY <1>6 DEF vars, TypeOK
<1> QED  BY <1>1, <1>2, <1>3, <1>4, <1>5, <1>6 DEF Next

\* TypeOK is inductive: rows, locks and frames stay well formed in every
\* interleaving, and no handler ever runs past the end of its batch.
THEOREM TypeCorrect == Spec => []TypeOK
BY TypeInit, TypeStep, PTL DEF Spec
-----------------------------------------------------------------------------
(* The inductive invariant.  It follows one message through its handler:    *)
(* where the handler stands determines the row and what WeCom has seen.      *)

Routing == {"route", "read", "create", "attach"}
Dispatched == {"respond", "send", "await", "complete"}
UncertainCategory == {"outbound_send_indeterminate", "completion_persist_failed"}
Working == Routing \cup Dispatched \cup {"mark"}

\* A claim is granted once, so no two handlers work on one message.
ExclusiveClaim ==
  \A g, h \in Handler :
    pc[g] \in Working /\ pc[h] \in Working /\ Current(g) = Current(h) => g = h

\* The place of a handler in the loop agrees with the row of its message and
\* with what WeCom can have seen of the reply.
HandlerInv(h) ==
  /\ pc[h] \in Routing =>
       /\ rows[Current(h)].state = "processing"
       /\ rows[Current(h)].conversation = None
  /\ pc[h] \in Dispatched => rows[Current(h)].state = "routed"
  /\ pc[h] = "mark" => rows[Current(h)].state # "absent"
  /\ pc[h] \in Routing \cup {"respond"} => provider[Current(h)] = "idle" /\ ~refreshed[h]
  /\ pc[h] = "send" => provider[Current(h)] = (IF refreshed[h] THEN "stale" ELSE "idle")
  /\ pc[h] = "complete" => provider[Current(h)] = "accepted"
  /\ pc[h] = "mark" =>
       \/ mark[h].state = "indeterminate" /\ mark[h].error \in UncertainCategory
       \/ mark[h].error = "outbound_send_failed"
       \/ provider[Current(h)] = "idle"

\* deliveries counts accepted requests, and a settled row that speaks of the
\* reply says what WeCom did.
MessageInv(m) ==
  /\ deliveries[m] = (IF provider[m] = "accepted" THEN 1 ELSE 0)
  /\ rows[m].state = "absent" => provider[m] = "idle"
  /\ VerdictOf(rows[m]) = "replied" => provider[m] = "accepted"
  /\ VerdictOf(rows[m]) = "unreplied" => provider[m] = "idle"

RoutingInv ==
  /\ TypeOK
  /\ ExclusiveClaim
  /\ \A h \in Handler : HandlerInv(h)
  /\ \A m \in Message : MessageInv(m)

\* A step of h touches its own frame and the row and request of its message.
Local(h) ==
  /\ \A g \in Handler \ {h} :
       /\ pc'[g] = pc[g] /\ refreshed'[g] = refreshed[g] /\ mark'[g] = mark[g]
       /\ batch'[g] = batch[g] /\ next'[g] = next[g]
  /\ \A m \in Message \ {Current(h)} :
       rows'[m] = rows[m] /\ provider'[m] = provider[m] /\ deliveries'[m] = deliveries[m]

\* Such a step preserves the invariant when it does so for its own part: the
\* other handlers work on other messages.
LEMMA LocalStep ==
  ASSUME RoutingInv, TypeOK', NEW h \in Handler, NEW m \in Message, m = Current(h),
         pc[h] \in Working \/ rows[m].state = "absent",
         Local(h),
         pc'[h] \in Working => Current(h)' = m,
         HandlerInv(h)', MessageInv(m)'
  PROVE  RoutingInv'
<1>1. ASSUME NEW g \in Handler \ {h}
      PROVE  /\ Current(g)' = Current(g)
             /\ pc[g] \in Working => Current(g) # m
  <2>1. Current(g)' = Current(g)
    BY <1>1 DEF Local, Current
  <2>2. ASSUME pc[g] \in Working, Current(g) = m PROVE FALSE
    <3>1. rows[Current(g)].state # "absent"
      BY <2>2 DEF RoutingInv, HandlerInv, Working
    <3> QED  BY <2>2, <3>1 DEF RoutingInv, ExclusiveClaim
  <2> QED  BY <2>1, <2>2
<1>2. ExclusiveClaim'
  <2> SUFFICES ASSUME NEW f \in Handler, NEW g \in Handler,
                      (pc[f] \in Working)', (pc[g] \in Working)', (Current(f) = Current(g))'
               PROVE  f = g
    BY DEF ExclusiveClaim
  <2>1. CASE f = h \/ g = h
    BY <1>1, <2>1 DEF Local
  <2>2. CASE f # h /\ g # h
    <3>1. pc[f] \in Working /\ pc[g] \in Working
      BY <2>2, Zenon DEF Local
    <3>2. Current(f) = Current(g)
      BY <1>1, <2>2
    <3> QED  BY <3>1, <3>2 DEF RoutingInv, ExclusiveClaim
  <2> QED  BY <2>1, <2>2
<1>3. ASSUME NEW g \in Handler PROVE HandlerInv(g)'
  <2>1. CASE g = h
    BY <2>1
  <2>2. CASE g # h /\ pc[g] \in Working
    <3>1. Current(g) \in Message \ {m}
      BY <1>1, <2>2, CurrentIsMessage DEF RoutingInv, Working, Routing, Dispatched
    <3>2. /\ Current(g)' = Current(g) /\ pc'[g] = pc[g] /\ refreshed'[g] = refreshed[g]
          /\ mark'[g] = mark[g]
          /\ rows'[Current(g)] = rows[Current(g)] /\ provider'[Current(g)] = provider[Current(g)]
      BY <1>1, <2>2, <3>1 DEF Local
    <3> QED  BY <3>2 DEF RoutingInv, HandlerInv
  <2>3. CASE g # h /\ pc[g] \notin Working
    <3>1. pc'[g] \notin Working
      BY <2>3 DEF Local
    <3> QED  BY <3>1 DEF HandlerInv, Working, Routing, Dispatched
  <2> QED  BY <2>1, <2>2, <2>3
<1>4. ASSUME NEW n \in Message PROVE MessageInv(n)'
  <2>1. CASE n = m
    BY <2>1
  <2>2. CASE n # m
    <3>1. rows'[n] = rows[n] /\ provider'[n] = provider[n] /\ deliveries'[n] = deliveries[n]
      BY <2>2 DEF Local
    <3> QED  BY <3>1 DEF RoutingInv, MessageInv, VerdictOf
  <2> QED  BY <2>1, <2>2
<1> QED  BY <1>2, <1>3, <1>4 DEF RoutingInv

\* An action of one handler that stays in the loop body keeps its message.
LEMMA SameMessage ==
  ASSUME NEW h, UNCHANGED <<batch, next>>
  PROVE  Current(h)' = Current(h)
BY DEF Current

\* After Advance the handler works on nothing.
LEMMA AdvanceLocal ==
  ASSUME TypeOK, NEW h \in Handler, Advance(h)
  PROVE  /\ \A g \in Handler \ {h} :
              /\ pc'[g] = pc[g] /\ refreshed'[g] = refreshed[g] /\ mark'[g] = mark[g]
              /\ batch'[g] = batch[g] /\ next'[g] = next[g]
         /\ pc'[h] \notin Working
         /\ HandlerInv(h)'
<1>1. pc'[h] \in {"idle", "claim"}
  BY DEF Advance, Goto, TypeOK
<1>2. \A g \in Handler \ {h} : pc'[g] = pc[g] /\ next'[g] = next[g]
  BY DEF Advance, Goto, TypeOK
<1>3. HandlerInv(h)'
  BY <1>1 DEF HandlerInv, Routing, Dispatched
<1> QED  BY <1>1, <1>2, <1>3 DEF Advance, Working, Routing, Dispatched

\* A handler that leaves the loop body, or never was in it, disturbs nobody.
LEMMA IdleStep ==
  ASSUME RoutingInv, TypeOK', NEW h \in Handler, UNCHANGED <<rows, provider, deliveries>>,
         \A g \in Handler \ {h} :
           /\ pc'[g] = pc[g] /\ refreshed'[g] = refreshed[g] /\ mark'[g] = mark[g]
           /\ batch'[g] = batch[g] /\ next'[g] = next[g],
         pc'[h] \notin Working
  PROVE  RoutingInv'
<1>1. \A g \in Handler \ {h} : Current(g)' = Current(g)
  BY DEF Current
<1>2. ExclusiveClaim'
  BY <1>1 DEF RoutingInv, ExclusiveClaim
<1>3. ASSUME NEW g \in Handler PROVE HandlerInv(g)'
  <2>1. CASE g = h
    BY <2>1 DEF HandlerInv, Working, Routing, Dispatched
  <2>2. CASE g # h
    BY <1>1, <2>2 DEF HandlerInv, RoutingInv
  <2> QED  BY <2>1, <2>2
<1>4. \A m \in Message : MessageInv(m)'
  BY DEF RoutingInv, MessageInv, VerdictOf
<1> QED  BY <1>2, <1>3, <1>4 DEF RoutingInv

\* Every step of a handler preserves the invariant.
LEMMA HandlerStep ==
  ASSUME RoutingInv, TypeOK', NEW h \in Handler, Step(h)
  PROVE  RoutingInv'
<1> USE DEF database, frames, outbound, counters
<1>0. PICK m \in Message : m = Current(h)
  <2>1. pc[h] # "idle"
    BY DEF Step, ClaimNew, ClaimSeen, ClaimThrows, RouteLock, RouteRead, RouteCreate, Attach,
           Respond, SendRejectedLocally, Post, AwaitFails, AwaitStaleToken, AwaitAccepted,
           Complete, Mark
  <2> QED  BY <2>1, CurrentIsMessage DEF RoutingInv
<1> USE <1>0
<1>1. CASE ClaimNew(h)
  <2>1. m \in Message /\ pc[h] # "idle"  BY <1>1, CurrentIsMessage DEF RoutingInv, ClaimNew
  <2>2. Local(h)
    BY <1>1, <2>1 DEF ClaimNew, Fail, Goto, Local, RoutingInv, TypeOK
  <2>3. Current(h)' = m
    BY <1>1, SameMessage DEF ClaimNew
  <2>4. HandlerInv(h)'
    <3>1. provider[m] = "idle"
      BY <1>1, <2>1 DEF ClaimNew, Claimable, RoutingInv, MessageInv
    <3>2. PICK o \in Outcome :
             /\ rows' = IF Applied(o)
                          THEN [rows EXCEPT ![m] = [NoRow EXCEPT !.state = "processing"]]
                          ELSE rows
             /\ Goto(h, IF o = "ok" THEN "route" ELSE "idle")
      BY <1>1 DEF ClaimNew
    <3>3. ~refreshed'[h] /\ provider' = provider
      BY <1>1 DEF ClaimNew, RoutingInv, TypeOK
    <3>4. CASE o = "ok"
      <4>1. rows'[m].state = "processing" /\ rows'[m].conversation = None
        BY <2>1, <3>2, <3>4 DEF Applied, NoRow, RoutingInv, TypeOK
      <4>2. pc'[h] = "route"
        BY <3>2, <3>4 DEF Goto, RoutingInv, TypeOK
      <4> QED  BY <2>3, <3>1, <3>3, <4>1, <4>2 DEF HandlerInv, Routing, Dispatched
    <3>5. CASE o # "ok"
      <4>1. pc'[h] = "idle"
        BY <3>2, <3>5 DEF Goto, RoutingInv, TypeOK
      <4> QED  BY <4>1 DEF HandlerInv, Routing, Dispatched
    <3> QED  BY <3>4, <3>5
  <2>5. MessageInv(m)'
    BY <1>1, <2>1, <2>3 DEF ClaimNew, Fail, Goto, MessageInv, HandlerInv, VerdictOf, RoutingInv, TypeOK, Routing, Dispatched
  <2>6. pc[h] \in Working \/ rows[m].state = "absent"
    BY <1>1 DEF ClaimNew, Working, Routing, Dispatched, Claimable
  <2> QED  BY <2>1, <2>2, <2>3, <2>4, <2>5, <2>6, LocalStep
<1>2. CASE ClaimSeen(h)
  <2>1. Advance(h) /\ UNCHANGED <<rows, provider, deliveries>>  BY <1>2 DEF ClaimSeen
  <2> QED  BY <2>1, AdvanceLocal, IdleStep DEF RoutingInv
<1>3. CASE ClaimThrows(h)
  <2>1. pc'[h] \notin Working
    BY <1>3 DEF ClaimThrows, Goto, RoutingInv, TypeOK, Working, Routing, Dispatched
  <2>2. \A g \in Handler \ {h} : pc'[g] = pc[g]
    BY <1>3 DEF ClaimThrows, Goto, RoutingInv, TypeOK
  <2> QED  BY <1>3, <2>1, <2>2, IdleStep DEF ClaimThrows
<1>4. CASE RouteLock(h)
  <2>1. m \in Message /\ pc[h] # "idle"  BY <1>4, CurrentIsMessage DEF RoutingInv, RouteLock
  <2>2. Local(h)
    BY <1>4, <2>1 DEF RouteLock, Fail, Goto, Local, RoutingInv, TypeOK
  <2>3. Current(h)' = m
    BY <1>4, SameMessage DEF RouteLock
  <2>4. HandlerInv(h)'
    BY <1>4, <2>1, <2>3 DEF RouteLock, Fail, Goto, HandlerInv, RoutingInv, TypeOK, Working, Routing, Dispatched
  <2>5. MessageInv(m)'
    BY <1>4, <2>1, <2>3 DEF RouteLock, Fail, Goto, MessageInv, HandlerInv, VerdictOf, RoutingInv, TypeOK, Routing, Dispatched
  <2>6. pc[h] \in Working \/ rows[m].state = "absent"
    BY <1>4 DEF RouteLock, Working, Routing, Dispatched, Claimable
  <2> QED  BY <2>1, <2>2, <2>3, <2>4, <2>5, <2>6, LocalStep
<1>5. CASE RouteRead(h)
  <2>1. m \in Message /\ pc[h] # "idle"  BY <1>5, CurrentIsMessage DEF RoutingInv, RouteRead
  <2>2. Local(h)
    BY <1>5, <2>1 DEF RouteRead, Fail, Goto, Local, RoutingInv, TypeOK
  <2>3. Current(h)' = m
    BY <1>5, SameMessage DEF RouteRead
  <2>4. HandlerInv(h)'
    BY <1>5, <2>1, <2>3 DEF RouteRead, Fail, Goto, HandlerInv, RoutingInv, TypeOK, Working, Routing, Dispatched
  <2>5. MessageInv(m)'
    BY <1>5, <2>1, <2>3 DEF RouteRead, Fail, Goto, MessageInv, HandlerInv, VerdictOf, RoutingInv, TypeOK, Routing, Dispatched
  <2>6. pc[h] \in Working \/ rows[m].state = "absent"
    BY <1>5 DEF RouteRead, Working, Routing, Dispatched, Claimable
  <2> QED  BY <2>1, <2>2, <2>3, <2>4, <2>5, <2>6, LocalStep
<1>6. ASSUME NEW conv \in Conversation, RouteCreate(h, conv) PROVE RoutingInv'
  <2>1. m \in Message /\ pc[h] # "idle"  BY <1>6, CurrentIsMessage DEF RoutingInv, RouteCreate
  <2>2. Local(h)
    BY <1>6, <2>1 DEF RouteCreate, Fail, Goto, Local, RoutingInv, TypeOK
  <2>3. Current(h)' = m
    BY <1>6, SameMessage DEF RouteCreate
  <2>4. HandlerInv(h)'
    BY <1>6, <2>1, <2>3 DEF RouteCreate, Fail, Goto, HandlerInv, RoutingInv, TypeOK, Working, Routing, Dispatched
  <2>5. MessageInv(m)'
    BY <1>6, <2>1, <2>3 DEF RouteCreate, Fail, Goto, MessageInv, HandlerInv, VerdictOf, RoutingInv, TypeOK, Routing, Dispatched
  <2>6. pc[h] \in Working \/ rows[m].state = "absent"
    BY <1>6 DEF RouteCreate, Working, Routing, Dispatched, Claimable
  <2> QED  BY <2>1, <2>2, <2>3, <2>4, <2>5, <2>6, LocalStep
<1>7. CASE Attach(h)
  <2>1. m \in Message /\ pc[h] # "idle"  BY <1>7, CurrentIsMessage DEF RoutingInv, Attach
  <2>2. Local(h)
    BY <1>7, <2>1 DEF Attach, Fail, Goto, Attachable, Local, RoutingInv, TypeOK
  <2>3. Current(h)' = m
    BY <1>7, SameMessage DEF Attach
  <2>4. HandlerInv(h)'
    <3>1. /\ provider'[m] = "idle" /\ ~refreshed'[h]
          /\ rows[m].state = "processing" /\ rows[m].conversation = None
      BY <1>7, <2>1 DEF Attach, RoutingInv, HandlerInv, Routing
    <3>2. PICK o \in Outcome :
             /\ rows' = IF Applied(o) /\ Attachable(m)
                          THEN [rows EXCEPT ![m].state = "routed", ![m].conversation = route[h]]
                          ELSE rows
             /\ \/ o = "ok" /\ Attachable(m) /\ Goto(h, "respond")
                \/ \E e \in ErrorCategory : Fail(h, "failed", e)
      BY <1>7 DEF Attach, ErrorCategory
    <3>3. rows'[m].state \in {"processing", "routed"}
      BY <2>1, <3>1, <3>2 DEF RoutingInv, TypeOK, Row
    <3>4. CASE o = "ok" /\ Attachable(m) /\ Goto(h, "respond")
      <4>1. pc'[h] = "respond"
        BY <3>4 DEF Goto, RoutingInv, TypeOK
      <4>2. rows'[m].state = "routed"
        BY <2>1, <3>2, <3>4 DEF Applied, RoutingInv, TypeOK, Row
      <4> QED  BY <2>3, <3>1, <4>1, <4>2 DEF HandlerInv, Routing, Dispatched
    <3>5. CASE \E e \in ErrorCategory : Fail(h, "failed", e)
      <4>1. pc'[h] = "mark"
        BY <3>5 DEF Fail, Goto, RoutingInv, TypeOK
      <4> QED  BY <2>3, <3>1, <3>3, <4>1 DEF HandlerInv, Routing, Dispatched
    <3> QED  BY <3>2, <3>4, <3>5
  <2>5. MessageInv(m)'
    BY <1>7, <2>1, <2>3 DEF Attach, Fail, Goto, Attachable, MessageInv, HandlerInv, VerdictOf, RoutingInv, TypeOK, Routing, Dispatched
  <2>6. pc[h] \in Working \/ rows[m].state = "absent"
    BY <1>7 DEF Attach, Working, Routing, Dispatched, Claimable
  <2> QED  BY <2>1, <2>2, <2>3, <2>4, <2>5, <2>6, LocalStep
<1>8. CASE Respond(h)
  <2>1. m \in Message /\ pc[h] # "idle"  BY <1>8, CurrentIsMessage DEF RoutingInv, Respond
  <2>2. Local(h)
    BY <1>8, <2>1 DEF Respond, Fail, Goto, Local, RoutingInv, TypeOK
  <2>3. Current(h)' = m
    BY <1>8, SameMessage DEF Respond
  <2>4. HandlerInv(h)'
    BY <1>8, <2>1, <2>3 DEF Respond, Fail, Goto, HandlerInv, RoutingInv, TypeOK, Working, Routing, Dispatched
  <2>5. MessageInv(m)'
    BY <1>8, <2>1, <2>3 DEF Respond, Fail, Goto, MessageInv, HandlerInv, VerdictOf, RoutingInv, TypeOK, Routing, Dispatched
  <2>6. pc[h] \in Working \/ rows[m].state = "absent"
    BY <1>8 DEF Respond, Working, Routing, Dispatched, Claimable
  <2> QED  BY <2>1, <2>2, <2>3, <2>4, <2>5, <2>6, LocalStep
<1>9. CASE SendRejectedLocally(h)
  <2>1. m \in Message /\ pc[h] # "idle"  BY <1>9, CurrentIsMessage DEF RoutingInv, SendRejectedLocally
  <2>2. Local(h)
    BY <1>9, <2>1 DEF SendRejectedLocally, Fail, Goto, Local, RoutingInv, TypeOK
  <2>3. Current(h)' = m
    BY <1>9, SameMessage DEF SendRejectedLocally
  <2>4. HandlerInv(h)'
    BY <1>9, <2>1, <2>3 DEF SendRejectedLocally, Fail, Goto, HandlerInv, RoutingInv, TypeOK, Working, Routing, Dispatched
  <2>5. MessageInv(m)'
    BY <1>9, <2>1, <2>3 DEF SendRejectedLocally, Fail, Goto, MessageInv, HandlerInv, VerdictOf, RoutingInv, TypeOK, Routing, Dispatched
  <2>6. pc[h] \in Working \/ rows[m].state = "absent"
    BY <1>9 DEF SendRejectedLocally, Working, Routing, Dispatched, Claimable
  <2> QED  BY <2>1, <2>2, <2>3, <2>4, <2>5, <2>6, LocalStep
<1>10. CASE Post(h)
  <2>1. m \in Message /\ pc[h] # "idle"  BY <1>10, CurrentIsMessage DEF RoutingInv, Post
  <2>2. Local(h)
    BY <1>10, <2>1 DEF Post, Fail, Goto, Local, RoutingInv, TypeOK
  <2>3. Current(h)' = m
    BY <1>10, SameMessage DEF Post
  <2>4. HandlerInv(h)'
    BY <1>10, <2>1, <2>3 DEF Post, Fail, Goto, HandlerInv, RoutingInv, TypeOK, Working, Routing, Dispatched
  <2>5. MessageInv(m)'
    BY <1>10, <2>1, <2>3 DEF Post, Fail, Goto, MessageInv, HandlerInv, VerdictOf, RoutingInv, TypeOK, Routing, Dispatched
  <2>6. pc[h] \in Working \/ rows[m].state = "absent"
    BY <1>10 DEF Post, Working, Routing, Dispatched, Claimable
  <2> QED  BY <2>1, <2>2, <2>3, <2>4, <2>5, <2>6, LocalStep
<1>11. CASE AwaitFails(h)
  <2>1. m \in Message /\ pc[h] # "idle"  BY <1>11, CurrentIsMessage DEF RoutingInv, AwaitFails
  <2>2. Local(h)
    BY <1>11, <2>1 DEF AwaitFails, Fail, Goto, SendFailure, StateOf, UncertainCategory, Local, RoutingInv, TypeOK
  <2>3. Current(h)' = m
    BY <1>11, SameMessage DEF AwaitFails
  <2>4. HandlerInv(h)'
    BY <1>11, <2>1, <2>3 DEF AwaitFails, Fail, Goto, SendFailure, StateOf, UncertainCategory, HandlerInv, RoutingInv, TypeOK, Working, Routing, Dispatched
  <2>5. MessageInv(m)'
    BY <1>11, <2>1, <2>3 DEF AwaitFails, Fail, Goto, SendFailure, StateOf, UncertainCategory, MessageInv, HandlerInv, VerdictOf, RoutingInv, TypeOK, Routing, Dispatched
  <2>6. pc[h] \in Working \/ rows[m].state = "absent"
    BY <1>11 DEF AwaitFails, Working, Routing, Dispatched, Claimable
  <2> QED  BY <2>1, <2>2, <2>3, <2>4, <2>5, <2>6, LocalStep
<1>12. CASE AwaitStaleToken(h)
  <2>1. m \in Message /\ pc[h] # "idle"  BY <1>12, CurrentIsMessage DEF RoutingInv, AwaitStaleToken
  <2>2. Local(h)
    BY <1>12, <2>1 DEF AwaitStaleToken, Fail, Goto, MayResend, Local, RoutingInv, TypeOK
  <2>3. Current(h)' = m
    BY <1>12, SameMessage DEF AwaitStaleToken
  <2>4. HandlerInv(h)'
    BY <1>12, <2>1, <2>3 DEF AwaitStaleToken, Fail, Goto, MayResend, HandlerInv, RoutingInv, TypeOK, Working, Routing, Dispatched
  <2>5. MessageInv(m)'
    BY <1>12, <2>1, <2>3 DEF AwaitStaleToken, Fail, Goto, MayResend, MessageInv, HandlerInv, VerdictOf, RoutingInv, TypeOK, Routing, Dispatched
  <2>6. pc[h] \in Working \/ rows[m].state = "absent"
    BY <1>12 DEF AwaitStaleToken, Working, Routing, Dispatched, Claimable
  <2> QED  BY <2>1, <2>2, <2>3, <2>4, <2>5, <2>6, LocalStep
<1>13. CASE AwaitAccepted(h)
  <2>1. m \in Message /\ pc[h] # "idle"  BY <1>13, CurrentIsMessage DEF RoutingInv, AwaitAccepted
  <2>2. Local(h)
    BY <1>13, <2>1 DEF AwaitAccepted, Fail, Goto, Local, RoutingInv, TypeOK
  <2>3. Current(h)' = m
    BY <1>13, SameMessage DEF AwaitAccepted
  <2>4. HandlerInv(h)'
    BY <1>13, <2>1, <2>3 DEF AwaitAccepted, Fail, Goto, HandlerInv, RoutingInv, TypeOK, Working, Routing, Dispatched
  <2>5. MessageInv(m)'
    BY <1>13, <2>1, <2>3 DEF AwaitAccepted, Fail, Goto, MessageInv, HandlerInv, VerdictOf, RoutingInv, TypeOK, Routing, Dispatched
  <2>6. pc[h] \in Working \/ rows[m].state = "absent"
    BY <1>13 DEF AwaitAccepted, Working, Routing, Dispatched, Claimable
  <2> QED  BY <2>1, <2>2, <2>3, <2>4, <2>5, <2>6, LocalStep
<1>14. CASE Complete(h)
  <2>1. m \in Message /\ pc[h] # "idle" /\ pc[h] \in Working
    BY <1>14, CurrentIsMessage DEF RoutingInv, Complete, Working, Dispatched
  <2>2. rows[m].state = "routed" /\ provider[m] = "accepted" /\ UNCHANGED <<provider, deliveries>>
    BY <1>14, <2>1 DEF Complete, RoutingInv, HandlerInv, Dispatched
  <2>3. PICK o \in Outcome :
           /\ rows' = IF Applied(o)
                        THEN [rows EXCEPT ![m].state = "completed", ![m].error = None] ELSE rows
           /\ \/ Advance(h)
              \/ /\ Fail(h, "indeterminate", "completion_persist_failed")
                 /\ UNCHANGED <<batch, next, route, refreshed, acked>>
    BY <1>14, <2>2 DEF Complete
  <2>4. /\ \A n \in Message \ {m} : rows'[n] = rows[n]
        /\ rows'[m].state \in {"routed", "completed"}
    BY <2>1, <2>2, <2>3 DEF RoutingInv, TypeOK, Row
  <2>5. MessageInv(m)'
    BY <2>1, <2>2, <2>4 DEF RoutingInv, MessageInv, VerdictOf
  <2>6. CASE Advance(h)
    <3>1. Local(h) /\ pc'[h] \notin Working /\ HandlerInv(h)'
      BY <2>2, <2>4, <2>6, AdvanceLocal DEF Local, RoutingInv
    <3> QED  BY <2>1, <2>5, <3>1, LocalStep
  <2>7. CASE /\ Fail(h, "indeterminate", "completion_persist_failed")
             /\ UNCHANGED <<batch, next, route, refreshed, acked>>
    <3>1. /\ pc'[h] = "mark" /\ Current(h)' = m
          /\ mark'[h].state = "indeterminate" /\ mark'[h].error \in UncertainCategory
      BY <2>7, SameMessage DEF Fail, Goto, RoutingInv, TypeOK, UncertainCategory
    <3>2. Local(h)
      BY <2>2, <2>4, <2>7 DEF Local, Fail, Goto, RoutingInv, TypeOK
    <3>3. HandlerInv(h)'
      BY <2>4, <3>1 DEF HandlerInv, Routing, Dispatched
    <3> QED  BY <2>1, <2>5, <3>1, <3>2, <3>3, LocalStep
  <2> QED  BY <2>3, <2>6, <2>7
<1>15. CASE Mark(h)
  <2>1. m \in Message /\ pc[h] # "idle" /\ pc[h] \in Working
    BY <1>15, CurrentIsMessage DEF RoutingInv, Mark, Working
  <2>2. /\ rows[m].state # "absent" /\ UNCHANGED <<provider, deliveries>>
        /\ \/ mark[h].state = "indeterminate" /\ mark[h].error \in UncertainCategory
           \/ mark[h].error = "outbound_send_failed"
           \/ provider[m] = "idle"
    BY <1>15, <2>1 DEF Mark, RoutingInv, HandlerInv, Dispatched, Routing
  <2>3. PICK o \in Outcome :
           /\ rows' = IF Applied(o) /\ rows[m].state \in Markable(mark[h].state)
                        THEN [rows EXCEPT ![m].state = mark[h].state, ![m].error = mark[h].error]
                        ELSE rows
           /\ \/ Advance(h)
              \/ /\ MarkRetried(h, o)
                 /\ Fail(h, "failed", "routing_error")
                 /\ UNCHANGED <<batch, next, route, refreshed, acked>>
    BY <1>15 DEF Mark
  <2>4. mark[h] \in MarkRecord
    BY DEF RoutingInv, TypeOK
  <2>5. /\ \A n \in Message \ {m} : rows'[n] = rows[n]
        /\ \/ rows'[m] = rows[m]
           \/ rows'[m].state = mark[h].state /\ rows'[m].error = mark[h].error
    BY <2>1, <2>3 DEF RoutingInv, TypeOK, Row
  <2>6. MessageInv(m)'
    BY <2>1, <2>2, <2>4, <2>5 DEF RoutingInv, MessageInv, VerdictOf, MarkRecord
  <2>7. CASE Advance(h)
    <3>1. Local(h) /\ pc'[h] \notin Working /\ HandlerInv(h)'
      BY <2>2, <2>5, <2>7, AdvanceLocal DEF Local, RoutingInv
    <3> QED  BY <2>1, <2>6, <3>1, LocalStep
  <2>8. CASE /\ MarkRetried(h, o)
             /\ Fail(h, "failed", "routing_error")
             /\ UNCHANGED <<batch, next, route, refreshed, acked>>
    <3>1. pc'[h] = "mark" /\ Current(h)' = m
      BY <2>8, SameMessage DEF Fail, Goto, RoutingInv, TypeOK
    <3>2. Local(h)
      BY <2>2, <2>5, <2>8 DEF Local, Fail, Goto, RoutingInv, TypeOK
    <3>3. HandlerInv(h)'
      BY <1>15, <2>1, <2>2, <2>4, <2>5, <2>8, <3>1
         DEF HandlerInv, Routing, Dispatched, MarkRetried, MarkRecord, UncertainCategory
    <3> QED  BY <2>1, <2>6, <3>1, <3>2, <3>3, LocalStep
  <2> QED  BY <2>3, <2>7, <2>8
<1> QED
  BY <1>1, <1>2, <1>3, <1>4, <1>5, <1>6, <1>7, <1>8, <1>9, <1>10, <1>11, <1>12, <1>13, <1>14, <1>15 DEF Step

LEMMA RoutingInit == Init => RoutingInv
<1> SUFFICES ASSUME Init PROVE RoutingInv
  OBVIOUS
<1>1. TypeOK
  BY TypeInit
<1>2. ExclusiveClaim /\ \A h \in Handler : HandlerInv(h)
  BY DEF Init, ExclusiveClaim, HandlerInv, Working, Routing, Dispatched
<1>3. \A m \in Message : MessageInv(m)
  BY DEF Init, MessageInv, VerdictOf, NoRow
<1> QED  BY <1>1, <1>2, <1>3 DEF RoutingInv

LEMMA RoutingStep == RoutingInv /\ [Next]_vars => RoutingInv'
<1> SUFFICES ASSUME RoutingInv, [Next]_vars PROVE RoutingInv'
  OBVIOUS
<1>0. TypeOK'
  BY TypeStep DEF RoutingInv
<1> USE DEF database, frames, outbound, counters
<1>1. ASSUME NEW h \in Handler, Step(h) PROVE RoutingInv'
  BY <1>0, <1>1, HandlerStep
<1>2. ASSUME NEW h \in Handler, NEW b \in Batch, Callback(h, b) PROVE RoutingInv'
  <2>1. pc'[h] \notin Working
    BY <1>2 DEF Callback, Goto, RoutingInv, TypeOK, Working, Routing, Dispatched
  <2>2. \A g \in Handler \ {h} :
          pc'[g] = pc[g] /\ batch'[g] = batch[g] /\ next'[g] = next[g]
    BY <1>2 DEF Callback, Goto, RoutingInv, TypeOK
  <2> QED  BY <1>0, <1>2, <2>1, <2>2, IdleStep DEF Callback
<1>3. ASSUME NEW m \in Message, NEW answer \in {"accepted", "refused", "stale"},
             ProviderAnswers(m, answer)
      PROVE  RoutingInv'
  <2>1. \A h \in Handler : Current(h)' = Current(h)
    BY <1>3 DEF ProviderAnswers, Current
  <2>2. /\ provider[m] = "inflight" /\ deliveries[m] = 0
        /\ \A n \in Message \ {m} : provider'[n] = provider[n] /\ deliveries'[n] = deliveries[n]
        /\ provider'[m] = answer /\ deliveries'[m] = (IF answer = "accepted" THEN 1 ELSE 0)
    BY <1>3 DEF ProviderAnswers, RoutingInv, TypeOK, MessageInv
  <2>3. ExclusiveClaim'
    BY <1>3, <2>1 DEF ProviderAnswers, RoutingInv, ExclusiveClaim
  <2>4. ASSUME NEW h \in Handler PROVE HandlerInv(h)'
    <3>1. CASE pc[h] \notin Working
      BY <1>3, <3>1 DEF ProviderAnswers, HandlerInv, Working, Routing, Dispatched
    <3>2. CASE pc[h] \in Working
      <4>1. Current(h) \in Message
        BY <3>2, CurrentIsMessage DEF RoutingInv, Working, Routing, Dispatched
      <4> QED  BY <1>3, <2>1, <2>2, <3>2, <4>1 DEF ProviderAnswers, RoutingInv, HandlerInv
    <3> QED  BY <3>1, <3>2
  <2>5. ASSUME NEW n \in Message PROVE MessageInv(n)'
    BY <1>3, <2>2 DEF ProviderAnswers, RoutingInv, MessageInv, VerdictOf
  <2> QED  BY <1>0, <2>3, <2>4, <2>5 DEF RoutingInv
<1>4. CASE Crash
  <2>1. \A h \in Handler : pc'[h] = "idle"
    BY <1>4 DEF Crash
  <2>2. ExclusiveClaim' /\ \A h \in Handler : HandlerInv(h)'
    BY <2>1 DEF ExclusiveClaim, HandlerInv, Working, Routing, Dispatched
  <2>3. \A m \in Message : MessageInv(m)'
    BY <1>4 DEF Crash, RoutingInv, MessageInv, VerdictOf
  <2> QED  BY <1>0, <2>2, <2>3 DEF RoutingInv
<1>5. CASE (\E status \in {"active", "disabled"} : SetChannel(status)) \/ UNCHANGED vars
  <2>1. UNCHANGED <<rows, pc, batch, next, refreshed, mark, provider, deliveries>>
    BY <1>5 DEF SetChannel, vars
  <2>2. \A h \in Handler : Current(h)' = Current(h)
    BY <2>1 DEF Current
  <2>3. ExclusiveClaim' /\ \A h \in Handler : HandlerInv(h)'
    BY <2>1, <2>2 DEF RoutingInv, ExclusiveClaim, HandlerInv
  <2>4. \A m \in Message : MessageInv(m)'
    BY <2>1 DEF RoutingInv, MessageInv, VerdictOf
  <2> QED  BY <1>0, <2>3, <2>4 DEF RoutingInv
<1> QED  BY <1>1, <1>2, <1>3, <1>4, <1>5 DEF Next

\* The invariant holds in every run, whatever fails and however often the
\* process dies.
THEOREM RoutingInvariant == Spec => []RoutingInv
BY RoutingInit, RoutingStep, PTL DEF Spec

\* WeCom accepts at most one reply to a message, for every number of handlers,
\* redelivered callbacks, failed statements and crashes.
THEOREM AtMostOneReplyHolds == Spec => []AtMostOneReply
<1>1. RoutingInv => AtMostOneReply
  BY DEF RoutingInv, MessageInv, AtMostOneReply
<1> QED  BY <1>1, RoutingInvariant, PTL

-----------------------------------------------------------------------------
(* The live path implements MessageDelivery.                                *)

\* What a step does to one row, seen through VerdictOf.
RowMoves(m) ==
  \/ VerdictOf(rows[m])' = VerdictOf(rows[m])
  \/ VerdictOf(rows[m]) = "unseen" /\ VerdictOf(rows[m])' = "open"
  \/ /\ VerdictOf(rows[m]) = "open"
     /\ VerdictOf(rows[m])' \in {"replied", "unreplied", "unknown"}

\* A step that moves one row forward and leaves the counter alone is a step of
\* the abstract specification.
LEMMA RowStepRefines ==
  ASSUME RoutingInv, RoutingInv', NEW m \in Message, RowMoves(m), UNCHANGED deliveries,
         \A n \in Message \ {m} : rows'[n] = rows[n]
  PROVE  [Delivery!Next]_(Delivery!dvars)
<1> DEFINE verdict == [n \in Message |-> VerdictOf(rows[n])]
           v == VerdictOf(rows[m])'
<1>1. verdict' = [verdict EXCEPT ![m] = v]
  BY DEF VerdictOf
<1>2. CASE VerdictOf(rows[m])' = VerdictOf(rows[m])
  <2>1. verdict' = verdict
    BY <1>2 DEF VerdictOf
  <2> QED  BY <2>1 DEF Delivery!dvars
<1>3. CASE VerdictOf(rows[m]) = "unseen" /\ VerdictOf(rows[m])' = "open"
  <2>1. Delivery!Claim(m)
    BY <1>1, <1>3 DEF Delivery!Claim
  <2> QED  BY <2>1 DEF Delivery!Next
<1>4. CASE VerdictOf(rows[m]) = "open" /\ v \in {"replied", "unreplied", "unknown"}
  <2>1. /\ v = "replied" => deliveries[m] = 1
        /\ v = "unreplied" => deliveries[m] = 0
    BY DEF RoutingInv, MessageInv, VerdictOf
  <2>2. Delivery!Record(m, v)
    BY <1>1, <1>4, <2>1 DEF Delivery!Record
  <2> QED  BY <1>4, <2>2 DEF Delivery!Next, Delivery!Recorded
<1> QED  BY <1>2, <1>3, <1>4 DEF RowMoves

LEMMA RowsKept ==
  ASSUME UNCHANGED <<rows, deliveries>>
  PROVE  [Delivery!Next]_(Delivery!dvars)
<1>1. [m \in Message |-> VerdictOf(rows[m])]' = [m \in Message |-> VerdictOf(rows[m])]
  BY DEF VerdictOf
<1> QED  BY <1>1 DEF Delivery!dvars

LEMMA HandlerRefines ==
  ASSUME RoutingInv, RoutingInv', NEW h \in Handler, Step(h)
  PROVE  [Delivery!Next]_(Delivery!dvars)
<1> USE DEF database, outbound
<1>0. PICK m \in Message : m = Current(h)
  <2>1. pc[h] # "idle"
    BY DEF Step, ClaimNew, ClaimSeen, ClaimThrows, RouteLock, RouteRead, RouteCreate, Attach,
           Respond, SendRejectedLocally, Post, AwaitFails, AwaitStaleToken, AwaitAccepted,
           Complete, Mark
  <2> QED  BY <2>1, CurrentIsMessage DEF RoutingInv
<1> USE <1>0
<1>1. CASE ClaimNew(h)
  <2>1. rows' \in {rows, [rows EXCEPT ![m] = [NoRow EXCEPT !.state = "processing"]]}
    BY <1>1 DEF ClaimNew
  <2>2. VerdictOf(rows[m]) = "unseen"
    BY <1>1 DEF ClaimNew, Claimable, VerdictOf
  <2>3. RowMoves(m) /\ \A n \in Message \ {m} : rows'[n] = rows[n]
    BY <2>1, <2>2 DEF RowMoves, VerdictOf, NoRow, RoutingInv, TypeOK
  <2> QED  BY <1>1, <2>3, RowStepRefines DEF ClaimNew
<1>2. CASE Attach(h)
  <2>1. rows' \in {rows, [rows EXCEPT ![m].state = "routed", ![m].conversation = route[h]]}
    BY <1>2 DEF Attach
  <2>2. rows[m].state = "processing"
    BY <1>2 DEF Attach, RoutingInv, HandlerInv, Routing
  <2>3. RowMoves(m) /\ \A n \in Message \ {m} : rows'[n] = rows[n]
    BY <2>1, <2>2 DEF RowMoves, VerdictOf, RoutingInv, TypeOK, Row
  <2> QED  BY <1>2, <2>3, RowStepRefines DEF Attach
<1>3. CASE Complete(h)
  <2>1. rows' \in {rows, [rows EXCEPT ![m].state = "completed", ![m].error = None]}
    BY <1>3 DEF Complete
  <2>2. rows[m].state = "routed"
    BY <1>3 DEF Complete, RoutingInv, HandlerInv, Dispatched
  <2>3. RowMoves(m) /\ \A n \in Message \ {m} : rows'[n] = rows[n]
    BY <2>1, <2>2 DEF RowMoves, VerdictOf, RoutingInv, TypeOK, Row
  <2> QED  BY <1>3, <2>3, RowStepRefines DEF Complete
<1>4. CASE Mark(h)
  <2>1. \/ rows' = rows
        \/ /\ rows[m].state \in {"processing", "routed"}
           /\ rows' = [rows EXCEPT ![m].state = mark[h].state, ![m].error = mark[h].error]
    BY <1>4 DEF Mark, Markable
  <2>2. mark[h] \in MarkRecord
    BY DEF RoutingInv, TypeOK
  <2>3. RowMoves(m) /\ \A n \in Message \ {m} : rows'[n] = rows[n]
    BY <2>1, <2>2 DEF RowMoves, VerdictOf, RoutingInv, TypeOK, Row, MarkRecord
  <2> QED  BY <1>4, <2>3, RowStepRefines DEF Mark
<1>5. CASE ~(ClaimNew(h) \/ Attach(h) \/ Complete(h) \/ Mark(h))
  <2>1. UNCHANGED <<rows, deliveries>>
    BY <1>5 DEF Step, ClaimSeen, ClaimThrows, RouteLock, RouteRead, RouteCreate, Respond,
                SendRejectedLocally, Post, AwaitFails, AwaitStaleToken, AwaitAccepted
  <2> QED  BY <2>1, RowsKept
<1> QED  BY <1>1, <1>2, <1>3, <1>4, <1>5

\* Every behaviour of the live path is a behaviour of MessageDelivery: what a
\* settled row says about the reply is true and final.
THEOREM RoutingRefinesDelivery == Spec => DeliverySpec
<1>1. Init => Delivery!Init
  BY DEF Init, Delivery!Init, VerdictOf, NoRow
<1>2. RoutingInv /\ RoutingInv' /\ [Next]_vars => [Delivery!Next]_(Delivery!dvars)
  <2> SUFFICES ASSUME RoutingInv, RoutingInv', [Next]_vars
               PROVE  [Delivery!Next]_(Delivery!dvars)
    OBVIOUS
  <2> USE DEF database, frames, outbound, counters
  <2>1. ASSUME NEW h \in Handler, Step(h) PROVE [Delivery!Next]_(Delivery!dvars)
    BY <2>1, HandlerRefines
  <2>2. ASSUME NEW m \in Message, NEW answer \in {"accepted", "refused", "stale"},
               ProviderAnswers(m, answer)
        PROVE  [Delivery!Next]_(Delivery!dvars)
    <3>1. CASE answer = "accepted"
      <4>1. deliveries[m] = 0 /\ VerdictOf(rows[m]) \in {"open", "unknown"}
        BY <2>2 DEF ProviderAnswers, RoutingInv, MessageInv, VerdictOf
      <4>2. deliveries' = [deliveries EXCEPT ![m] = 1]
        BY <2>2, <3>1, <4>1 DEF ProviderAnswers
      <4>3. [n \in Message |-> VerdictOf(rows[n])]' = [n \in Message |-> VerdictOf(rows[n])]
        BY <2>2 DEF ProviderAnswers, VerdictOf
      <4>4. Delivery!Deliver(m)
        BY <4>1, <4>2, <4>3 DEF Delivery!Deliver
      <4> QED  BY <4>4 DEF Delivery!Next
    <3>2. CASE answer # "accepted"
      BY <2>2, <3>2, RowsKept DEF ProviderAnswers
    <3> QED  BY <3>1, <3>2
  <2>3. CASE \/ \E h \in Handler, b \in Batch : Callback(h, b)
             \/ \E status \in {"active", "disabled"} : SetChannel(status)
             \/ Crash
             \/ UNCHANGED vars
    <3>1. UNCHANGED <<rows, deliveries>>
      BY <2>3 DEF Callback, SetChannel, Crash, vars
    <3> QED  BY <3>1, RowsKept
  <2> QED  BY <2>1, <2>2, <2>3 DEF Next
<1> QED  BY <1>1, <1>2, RoutingInvariant, PTL DEF Spec, DeliverySpec, Delivery!Spec
-----------------------------------------------------------------------------
(* A row, once written, is only moved forward.                              *)

\* What any step does to the row of any message.
RowStep(m) ==
  \/ rows'[m] = rows[m]
  \/ rows[m].state = "absent" /\ rows'[m] = [NoRow EXCEPT !.state = "processing"]
  \/ rows[m].state \in {"processing", "routed"} /\ rows'[m].state \in {"routed"} \cup Settled

LEMMA RowSteps ==
  ASSUME RoutingInv, [Next]_vars, NEW m \in Message
  PROVE  RowStep(m)
<1> USE DEF database, frames, outbound, counters, RowStep
<1>1. ASSUME NEW h \in Handler, ClaimNew(h) PROVE RowStep(m)
  <2>1. rows' = rows \/ rows' = [rows EXCEPT ![Current(h)] = [NoRow EXCEPT !.state = "processing"]]
    BY <1>1 DEF ClaimNew
  <2> QED  BY <1>1, <2>1 DEF ClaimNew, Claimable, RoutingInv, TypeOK
<1>2. ASSUME NEW h \in Handler, Attach(h) PROVE RowStep(m)
  <2>1. \/ rows' = rows
        \/ /\ rows[Current(h)].state = "processing"
           /\ rows' = [rows EXCEPT ![Current(h)].state = "routed",
                                   ![Current(h)].conversation = route[h]]
    BY <1>2 DEF Attach, Attachable
  <2> QED  BY <2>1 DEF RoutingInv, TypeOK, Row
<1>3. ASSUME NEW h \in Handler, Complete(h) PROVE RowStep(m)
  <2>1. \/ rows' = rows
        \/ /\ rows[Current(h)].state = "routed"
           /\ rows' = [rows EXCEPT ![Current(h)].state = "completed", ![Current(h)].error = None]
    BY <1>3 DEF Complete
  <2> QED  BY <2>1 DEF RoutingInv, TypeOK, Row, Settled
<1>4. ASSUME NEW h \in Handler, Mark(h) PROVE RowStep(m)
  <2>1. \/ rows' = rows
        \/ /\ rows[Current(h)].state \in {"processing", "routed"}
           /\ rows' = [rows EXCEPT ![Current(h)].state = mark[h].state,
                                   ![Current(h)].error = mark[h].error]
    BY <1>4 DEF Mark, Markable
  <2>2. mark[h].state \in Settled
    BY DEF RoutingInv, TypeOK, MarkRecord, Settled
  <2> QED  BY <2>1, <2>2 DEF RoutingInv, TypeOK, Row
<1>5. CASE UNCHANGED rows
  BY <1>5
<1>6. \/ \E h \in Handler : ClaimNew(h) \/ Attach(h) \/ Complete(h) \/ Mark(h)
      \/ UNCHANGED rows
  BY DEF Next, Step, vars, Callback, ProviderAnswers, SetChannel, Crash, ClaimSeen, ClaimThrows,
         RouteLock, RouteRead, RouteCreate, Respond, SendRejectedLocally, Post, AwaitFails,
         AwaitStaleToken, AwaitAccepted
<1> QED  BY <1>1, <1>2, <1>3, <1>4, <1>5, <1>6

\* No later statement, retry or crash rewrites an outcome once it is recorded.
THEOREM OutcomeStandsHolds == Spec => OutcomeStands
<1>1. RoutingInv /\ [Next]_vars
        => [\A m \in Message : rows[m].state \in Settled => rows'[m] = rows[m]]_vars
  BY RowSteps DEF RowStep, Settled
<1> QED  BY <1>1, RoutingInvariant, PTL DEF Spec, OutcomeStands

-----------------------------------------------------------------------------
(* What a callback is answered for.                                         *)

\* The messages a handler has passed in its batch have rows.
BatchRecorded(h) ==
  pc[h] # "idle" =>
    \A i \in 1..Len(batch[h]) : i < next[h] => rows[batch[h][i]].state # "absent"

AckInv == AckedIsRecorded /\ \A h \in Handler : BatchRecorded(h)

\* A row never disappears.
LEMMA RowsStay ==
  ASSUME RoutingInv, [Next]_vars, NEW m \in Message, rows[m].state # "absent"
  PROVE  rows'[m].state # "absent"
BY RowSteps DEF RowStep, Settled

\* At the loop head the current message is recorded like those before it.
LEMMA AdvanceRecords ==
  ASSUME RoutingInv, [Next]_vars, AckInv, NEW h \in Handler, pc[h] # "idle", Advance(h),
         rows[Current(h)].state # "absent"
  PROVE  AckInv'
<1>1. batch[h] \in Seq(Message) /\ next[h] \in 1..Len(batch[h]) /\ Current(h) \in Message
  BY RoutingAssumption, CurrentIsMessage DEF RoutingInv, TypeOK
<1>2. ASSUME NEW i \in 1..Len(batch[h]), i <= next[h]
      PROVE  rows'[batch[h][i]].state # "absent"
  <2>1. batch[h][i] \in Message
    BY <1>1
  <2>2. rows[batch[h][i]].state # "absent"
    BY <1>1, <1>2 DEF AckInv, BatchRecorded, Current
  <2> QED  BY <2>1, <2>2, RowsStay
<1>3. AckedIsRecorded'
  <2>1. ASSUME NEW m \in acked PROVE rows'[m].state # "absent"
    BY <2>1, RowsStay DEF AckInv, AckedIsRecorded, RoutingInv, TypeOK
  <2>2. CASE LastOfBatch(h)
    <3>1. \A m \in MessagesOf(batch[h]) : rows'[m].state # "absent"
      BY <1>1, <1>2, <2>2 DEF MessagesOf, LastOfBatch
    <3> QED  BY <2>1, <2>2, <3>1 DEF Advance, AckedIsRecorded
  <2>3. CASE ~LastOfBatch(h)
    BY <2>1, <2>3 DEF Advance, AckedIsRecorded
  <2> QED  BY <2>2, <2>3
<1>4. ASSUME NEW g \in Handler PROVE BatchRecorded(g)'
  <2>1. CASE g = h
    <3>1. batch'[h] = batch[h] /\ (pc'[h] # "idle" => next'[h] = next[h] + 1)
      BY <1>1 DEF Advance, Goto, RoutingInv, TypeOK
    <3> QED  BY <1>1, <1>2, <2>1, <3>1 DEF BatchRecorded
  <2>2. CASE g # h
    <3>1. batch'[g] = batch[g] /\ next'[g] = next[g] /\ pc'[g] = pc[g]
      BY <2>2 DEF Advance, Goto, RoutingInv, TypeOK
    <3>2. pc[g] # "idle" => batch[g] \in Seq(Message)
      BY RoutingAssumption DEF RoutingInv, TypeOK
    <3> QED  BY <3>1, <3>2, RowsStay DEF AckInv, BatchRecorded
  <2> QED  BY <2>1, <2>2
<1> QED  BY <1>3, <1>4 DEF AckInv

\* Nothing is acknowledged, and nobody goes further in a batch.
LEMMA NobodyAdvances ==
  ASSUME RoutingInv, [Next]_vars, AckInv, UNCHANGED <<acked, batch, next>>,
         \A h \in Handler : pc'[h] # "idle" => pc[h] # "idle"
  PROVE  AckInv'
<1>1. AckedIsRecorded'
  BY RowsStay DEF AckInv, AckedIsRecorded, RoutingInv, TypeOK
<1>2. ASSUME NEW g \in Handler PROVE BatchRecorded(g)'
  <2>1. pc[g] # "idle" => batch[g] \in Seq(Message)
    BY RoutingAssumption DEF RoutingInv, TypeOK
  <2> QED  BY <2>1, RowsStay DEF AckInv, BatchRecorded
<1> QED  BY <1>1, <1>2 DEF AckInv

LEMMA AckStep == RoutingInv /\ AckInv /\ [Next]_vars => AckInv'
<1> SUFFICES ASSUME RoutingInv, AckInv, [Next]_vars PROVE AckInv'
  OBVIOUS
<1> USE DEF database, frames, outbound, counters
<1>1. ASSUME NEW h \in Handler, Step(h) PROVE AckInv'
  <2>0. pc[h] # "idle"
    BY <1>1 DEF Step, ClaimNew, ClaimSeen, ClaimThrows, RouteLock, RouteRead, RouteCreate, Attach,
           Respond, SendRejectedLocally, Post, AwaitFails, AwaitStaleToken, AwaitAccepted,
           Complete, Mark
  <2>1. CASE ClaimSeen(h)
    BY <2>0, <2>1, AdvanceRecords DEF ClaimSeen, Claimable
  <2>2. CASE Complete(h)
    <3>1. rows[Current(h)].state # "absent"
      BY <2>2 DEF Complete, RoutingInv, HandlerInv, Dispatched
    <3>2. CASE Advance(h)
      BY <2>0, <3>1, <3>2, AdvanceRecords
    <3>3. CASE ~Advance(h)
      <4>1. UNCHANGED <<batch, next, acked>>
            /\ Fail(h, "indeterminate", "completion_persist_failed")
        BY <2>2, <3>3 DEF Complete
      <4> QED  BY <2>0, <4>1, NobodyAdvances DEF Fail, Goto, RoutingInv, TypeOK
    <3> QED  BY <3>2, <3>3
  <2>3. CASE Mark(h)
    <3>1. rows[Current(h)].state # "absent"
      BY <2>3 DEF Mark, RoutingInv, HandlerInv
    <3>2. CASE Advance(h)
      BY <2>0, <3>1, <3>2, AdvanceRecords
    <3>3. CASE ~Advance(h)
      <4>1. UNCHANGED <<batch, next, acked>> /\ Fail(h, "failed", "routing_error")
        BY <2>3, <3>3 DEF Mark
      <4> QED  BY <2>0, <4>1, NobodyAdvances DEF Fail, Goto, RoutingInv, TypeOK
    <3> QED  BY <3>2, <3>3
  <2>4. CASE ~(ClaimSeen(h) \/ Complete(h) \/ Mark(h))
    <3>1. UNCHANGED <<batch, next, acked>> /\ \A g \in Handler \ {h} : pc'[g] = pc[g]
      BY <1>1, <2>4 DEF Step, ClaimNew, ClaimThrows, RouteLock, RouteRead, RouteCreate, Attach,
           Respond, SendRejectedLocally, Post, AwaitFails, AwaitStaleToken, AwaitAccepted,
           Fail, Goto, RoutingInv, TypeOK
    <3> QED  BY <2>0, <3>1, NobodyAdvances
  <2> QED  BY <2>1, <2>2, <2>3, <2>4
<1>2. ASSUME NEW h \in Handler, NEW b \in Batch, Callback(h, b) PROVE AckInv'
  <2>1. AckedIsRecorded'
    BY <1>2 DEF Callback, AckInv, AckedIsRecorded
  <2>2. ASSUME NEW g \in Handler PROVE BatchRecorded(g)'
    BY <1>2 DEF Callback, Goto, AckInv, BatchRecorded, RoutingInv, TypeOK
  <2> QED  BY <2>1, <2>2 DEF AckInv
<1>3. CASE \/ \E m \in Message, answer \in {"accepted", "refused", "stale"} : ProviderAnswers(m, answer)
           \/ \E status \in {"active", "disabled"} : SetChannel(status)
           \/ Crash
           \/ UNCHANGED vars
  <2>1. UNCHANGED <<acked, batch, next>> /\ \A h \in Handler : pc'[h] # "idle" => pc[h] # "idle"
    BY <1>3 DEF ProviderAnswers, SetChannel, Crash, vars
  <2> QED  BY <2>1, NobodyAdvances
<1> QED  BY <1>1, <1>2, <1>3 DEF Next

\* A callback is answered 200 only for messages that have a durable row, however
\* its handlers interleave, fail and die: WeCom may forget them.
THEOREM AckedIsRecordedHolds == Spec => []AckedIsRecorded
<1>1. Init => AckInv
  BY DEF Init, AckInv, AckedIsRecorded, BatchRecorded
<1>2. AckInv => AckedIsRecorded
  BY DEF AckInv
<1> QED  BY <1>1, <1>2, AckStep, RoutingInvariant, PTL DEF Spec
-----------------------------------------------------------------------------
(* Conversations and customers.                                             *)

\* A handler inside the routing transaction holds the channel; what it saw or
\* made of the binding is still so; and it records "routing_error" only after a fault.
RouteHeld(h) ==
  /\ pc[h] \in {"read", "create"} => channelLock = h
  /\ pc[h] = "create" => bindings[Sender[Current(h)]] = None
  /\ pc[h] = "attach" => route[h] # None /\ route[h] = bindings[Sender[Current(h)]]
  /\ pc[h] = "mark" /\ mark[h].error = "routing_error" => faults > 0

RouteInv == OneConversationPerCustomer /\ \A h \in Handler : RouteHeld(h)

\* A binding is made once, by the handler that saw none.
BindingStep(h) ==
  \/ UNCHANGED <<bindings, conversations>>
  \/ /\ pc[h] = "create"
     /\ \E conv \in Conversation \ conversations :
          /\ bindings' = [bindings EXCEPT ![Sender[Current(h)]] = conv]
          /\ conversations' = conversations \cup {conv}

LEMMA BindingSteps ==
  ASSUME RoutingInv, RouteInv, NEW h \in Handler, Step(h)
  PROVE  BindingStep(h)
<1>1. ASSUME NEW conv \in Conversation, RouteCreate(h, conv) PROVE BindingStep(h)
  BY <1>1 DEF RouteCreate, CommitRoute, BindingStep
<1>2. CASE ~ \E conv \in Conversation : RouteCreate(h, conv)
  BY <1>2 DEF Step, BindingStep, database, ClaimNew, ClaimSeen, ClaimThrows, RouteLock, RouteRead,
       Attach, Respond, SendRejectedLocally, Post, AwaitFails, AwaitStaleToken, AwaitAccepted,
       Complete, Mark
<1> QED  BY <1>1, <1>2

LEMMA FaultsGrow ==
  ASSUME TypeOK, NEW h \in Handler, Step(h)
  PROVE  faults' \in Nat /\ faults' >= faults
<1>1. faults \in Nat
  BY RoutingAssumption DEF TypeOK
<1> QED
  BY <1>1 DEF Step, Count, counters, ClaimNew, ClaimSeen, ClaimThrows, RouteLock, RouteRead,
       RouteCreate, Attach, Respond, SendRejectedLocally, Post, AwaitFails, AwaitStaleToken,
       AwaitAccepted, Complete, Mark

\* The others keep what they hold: h holds the lock itself, or leaves it alone.
LEMMA OthersHold ==
  ASSUME RoutingInv, RouteInv, NEW h \in Handler, Step(h), NEW g \in Handler \ {h}
  PROVE  RouteHeld(g)'
<1>1. /\ pc'[g] = pc[g] /\ route'[g] = route[g] /\ mark'[g] = mark[g]
      /\ batch'[g] = batch[g] /\ next'[g] = next[g]
  BY DEF Step, ClaimNew, ClaimSeen, ClaimThrows, RouteLock, RouteRead, RouteCreate, Attach,
         Respond, SendRejectedLocally, Post, AwaitFails, AwaitStaleToken, AwaitAccepted,
         Complete, Mark, Advance, Fail, Goto, RoutingInv, TypeOK
<1>2. Current(g)' = Current(g)
  BY <1>1 DEF Current
<1>3. \/ channelLock' = channelLock
      \/ channelLock = None
      \/ pc[h] \in {"read", "create"}
  BY DEF Step, ClaimNew, ClaimSeen, ClaimThrows, RouteLock, RouteRead, RouteCreate, Attach,
         Respond, SendRejectedLocally, Post, AwaitFails, AwaitStaleToken, AwaitAccepted,
         Complete, Mark, LockFree
<1>4. pc[g] \in {"read", "create"} => channelLock' = g /\ pc[h] \notin {"read", "create"}
  BY <1>3, RoutingAssumption DEF RouteInv, RouteHeld
<1>5. pc[g] \in {"create", "attach"} =>
        bindings'[Sender[Current(g)]] = bindings[Sender[Current(g)]]
  <2> SUFFICES ASSUME pc[g] \in {"create", "attach"}
               PROVE  bindings'[Sender[Current(g)]] = bindings[Sender[Current(g)]]
    OBVIOUS
  <2>1. BindingStep(h)
    BY BindingSteps
  <2>2. CASE UNCHANGED bindings
    BY <2>2
  <2>3. CASE pc[h] = "create"
    <3>1. pc[g] = "attach" /\ bindings[Sender[Current(g)]] # None
      BY <1>4, <2>3 DEF RouteInv, RouteHeld
    <3>2. bindings[Sender[Current(h)]] = None
      BY <2>3 DEF RouteInv, RouteHeld
    <3>3. Sender[Current(g)] \in Customer
      BY <3>1, CurrentIsMessage, RoutingAssumption DEF RoutingInv
    <3> QED  BY <2>1, <3>1, <3>2, <3>3 DEF BindingStep, RoutingInv, TypeOK
  <2> QED  BY <2>1, <2>2, <2>3 DEF BindingStep
<1>6. faults > 0 => faults' > 0
  BY FaultsGrow, RoutingAssumption DEF RoutingInv, TypeOK
<1> QED  BY <1>1, <1>2, <1>4, <1>5, <1>6 DEF RouteInv, RouteHeld

\* A handler that fails has had a fault, or another reason than the routing.
LEMMA FailHolds ==
  ASSUME TypeOK, NEW h \in Handler, NEW s, NEW e, Fail(h, s, e),
         e = "routing_error" => faults' > 0
  PROVE  RouteHeld(h)'
BY DEF Fail, Goto, RouteHeld, TypeOK

\* A fault is counted.
LEMMA FaultCounts ==
  ASSUME TypeOK, NEW o \in Outcome, o # "ok", Count(o)
  PROVE  faults' > 0
BY RoutingAssumption DEF Count, TypeOK

LEMMA OwnHold ==
  ASSUME RoutingInv, RouteInv, NEW h \in Handler, Step(h)
  PROVE  RouteHeld(h)'
<1> USE DEF database, frames, outbound, counters
<1>0. TypeOK
  BY DEF RoutingInv
<1>1. CASE RouteLock(h)
  <2>1. PICK o \in Outcome :
           /\ Count(o)
           /\ \/ channelLock' = h /\ Goto(h, "read")
              \/ Fail(h, "failed", "unbound_channel")
              \/ o # "ok" /\ Fail(h, "failed", "routing_error")
    BY <1>1 DEF RouteLock
  <2>2. CASE channelLock' = h /\ Goto(h, "read")
    BY <1>0, <2>2 DEF Goto, RouteHeld, TypeOK
  <2> QED  BY <1>0, <2>1, <2>2, FailHolds, FaultCounts
<1>2. CASE RouteRead(h)
  <2>1. channelLock = h /\ Current(h)' = Current(h)
    BY <1>2, SameMessage DEF RouteRead, RouteInv, RouteHeld
  <2>2. PICK o \in Outcome :
           /\ Count(o)
           /\ \/ /\ bindings[Sender[Current(h)]] = None
                 /\ Goto(h, "create")
                 /\ UNCHANGED channelLock
              \/ /\ bindings[Sender[Current(h)]] # None
                 /\ route' = [route EXCEPT ![h] = bindings[Sender[Current(h)]]]
                 /\ Goto(h, "attach")
              \/ o # "ok" /\ Fail(h, "failed", "routing_error")
    BY <1>2 DEF RouteRead
  <2>3. bindings' = bindings
    BY <1>2 DEF RouteRead
  <2>4. CASE bindings[Sender[Current(h)]] = None /\ Goto(h, "create") /\ UNCHANGED channelLock
    BY <1>0, <2>1, <2>3, <2>4 DEF Goto, RouteHeld, TypeOK
  <2>5. CASE /\ bindings[Sender[Current(h)]] # None
             /\ route' = [route EXCEPT ![h] = bindings[Sender[Current(h)]]]
             /\ Goto(h, "attach")
    BY <1>0, <2>1, <2>3, <2>5 DEF Goto, RouteHeld, TypeOK
  <2> QED  BY <1>0, <2>2, <2>4, <2>5, FailHolds, FaultCounts
<1>3. ASSUME NEW conv \in Conversation, RouteCreate(h, conv) PROVE RouteHeld(h)'
  <2>1. bindings[Sender[Current(h)]] = None /\ Current(h)' = Current(h) /\ Current(h) \in Message
    BY <1>0, <1>3, SameMessage, CurrentIsMessage DEF RouteCreate, RouteInv, RouteHeld
  <2>2. PICK o \in Outcome :
           /\ Count(o)
           /\ CommitRoute(Sender[Current(h)], conv, o)
           /\ \/ o = "ok" /\ route' = [route EXCEPT ![h] = conv] /\ Goto(h, "attach")
              \/ o # "ok" /\ Fail(h, "failed", "routing_error")
    BY <1>3, <2>1 DEF RouteCreate
  <2>3. CASE o = "ok" /\ route' = [route EXCEPT ![h] = conv] /\ Goto(h, "attach")
    <3>1. bindings' = [bindings EXCEPT ![Sender[Current(h)]] = conv]
      BY <2>1, <2>2, <2>3 DEF CommitRoute, Applied
    <3>2. Sender[Current(h)] \in Customer /\ conv # None
      BY <2>1, RoutingAssumption
    <3> QED  BY <1>0, <2>1, <2>3, <3>1, <3>2 DEF Goto, RouteHeld, TypeOK
  <2> QED  BY <1>0, <2>2, <2>3, FailHolds, FaultCounts
<1>4. CASE Attach(h)
  <2>1. rows[Current(h)].state = "processing" /\ rows[Current(h)].conversation = None
    BY <1>4 DEF Attach, RoutingInv, HandlerInv, Routing
  <2>2. PICK o \in Outcome :
           /\ Count(o)
           /\ \/ Goto(h, "respond")
              \/ o # "ok" /\ Fail(h, "failed", "routing_error")
    BY <1>4, <2>1 DEF Attach, Attachable
  <2>3. CASE Goto(h, "respond")
    BY <1>0, <2>3 DEF Goto, RouteHeld, TypeOK
  <2> QED  BY <1>0, <2>2, <2>3, FailHolds, FaultCounts
<1>5. CASE Mark(h)
  <2>1. PICK o \in Outcome :
           /\ Count(o)
           /\ \/ o # "ok" /\ Fail(h, "failed", "routing_error")
              \/ Advance(h)
    BY <1>5 DEF Mark, MarkRetried
  <2>2. CASE Advance(h)
    BY <1>0, <2>2 DEF Advance, Goto, RouteHeld, TypeOK
  <2> QED  BY <1>0, <2>1, <2>2, FailHolds, FaultCounts
<1>6. CASE ~(RouteLock(h) \/ RouteRead(h) \/ (\E conv \in Conversation : RouteCreate(h, conv))
             \/ Attach(h) \/ Mark(h))
  <2>1. \/ \E s : \E e \in ErrorCategory \ {"routing_error"} : Fail(h, s, e)
        \/ pc'[h] \in {"idle", "claim", "route", "send", "await", "complete"}
    BY <1>0, <1>6 DEF Step, ClaimNew, ClaimSeen, ClaimThrows, Respond, SendRejectedLocally, Post,
         AwaitFails, SendFailure, AwaitStaleToken, AwaitAccepted, Complete, Advance, Goto,
         ErrorCategory, TypeOK
  <2>2. CASE pc'[h] \in {"idle", "claim", "route", "send", "await", "complete"}
    BY <2>2 DEF RouteHeld
  <2> QED  BY <1>0, <2>1, <2>2, FailHolds
<1> QED  BY <1>1, <1>2, <1>3, <1>4, <1>5, <1>6

\* The four parts of OneConversationPerCustomer after a step of a handler.
LEMMA RowsFollowBindings ==
  ASSUME RoutingInv, RouteInv, NEW h \in Handler, Step(h), NEW m \in Message
  PROVE  rows'[m].conversation \in {None, bindings'[Sender[m]]}
<1>0. rows[m].conversation \in {None, bindings[Sender[m]]} /\ Sender[m] \in Customer
  BY RoutingAssumption DEF RouteInv, OneConversationPerCustomer
<1>1. BindingStep(h)
  BY BindingSteps
<1>2. bindings[Sender[m]] # None => bindings'[Sender[m]] = bindings[Sender[m]]
  BY <1>0, <1>1 DEF BindingStep, RouteInv, RouteHeld, RoutingInv, TypeOK
<1>3. \/ rows'[m].conversation = rows[m].conversation
      \/ rows'[m].conversation = None
      \/ Attach(h) /\ m = Current(h) /\ rows'[m].conversation = route[h]
  BY DEF Step, database, ClaimNew, ClaimSeen, ClaimThrows, RouteLock, RouteRead, RouteCreate, Attach,
         Respond, SendRejectedLocally, Post, AwaitFails, AwaitStaleToken, AwaitAccepted,
         Complete, Mark, NoRow, RoutingInv, TypeOK, Row
<1>4. CASE Attach(h) /\ m = Current(h) /\ rows'[m].conversation = route[h]
  BY <1>2, <1>4 DEF Attach, RouteInv, RouteHeld
<1> QED  BY <1>0, <1>2, <1>3, <1>4

LEMMA ErrorsHaveFaults ==
  ASSUME RoutingInv, RouteInv, NEW h \in Handler, Step(h), NEW m \in Message,
         rows'[m].error = "routing_error"
  PROVE  faults' > 0
<1>0. faults > 0 => faults' > 0
  BY FaultsGrow, RoutingAssumption DEF RoutingInv, TypeOK
<1>1. \/ rows[m].error = "routing_error"
      \/ Mark(h) /\ mark[h].error = "routing_error"
  <2>1. rows \in [Message -> Row]
    BY DEF RoutingInv, TypeOK
  <2>2. CASE ClaimNew(h)
    BY <2>1, <2>2, NoneIsNoError DEF ClaimNew, NoRow, ErrorCategory
  <2>3. CASE Attach(h)
    BY <2>1, <2>3 DEF Attach, Row
  <2>4. CASE Complete(h)
    BY <2>1, <2>4, NoneIsNoError DEF Complete, Row, ErrorCategory
  <2>5. CASE Mark(h)
    <3>1. \/ rows' = rows
          \/ rows' = [rows EXCEPT ![Current(h)].state = mark[h].state,
                                  ![Current(h)].error = mark[h].error]
      BY <2>5 DEF Mark
    <3>2. rows'[m].error \in {rows[m].error, mark[h].error}
      BY <2>1, <3>1 DEF Row
    <3> QED  BY <2>5, <3>2
  <2>6. CASE ~(ClaimNew(h) \/ Attach(h) \/ Complete(h) \/ Mark(h))
    BY <2>6 DEF Step, database, ClaimSeen, ClaimThrows, RouteLock, RouteRead, RouteCreate, Respond,
         SendRejectedLocally, Post, AwaitFails, AwaitStaleToken, AwaitAccepted
  <2> QED  BY <2>2, <2>3, <2>4, <2>5, <2>6
<1>2. CASE rows[m].error = "routing_error"
  BY <1>0, <1>2 DEF RouteInv, OneConversationPerCustomer
<1>3. CASE Mark(h) /\ mark[h].error = "routing_error"
  BY <1>0, <1>3 DEF Mark, RouteInv, RouteHeld
<1> QED  BY <1>1, <1>2, <1>3

LEMMA OneConversationStep ==
  ASSUME RoutingInv, RouteInv, NEW h \in Handler, Step(h)
  PROVE  OneConversationPerCustomer'
<1>1. BindingStep(h)
  BY BindingSteps
<1>2. /\ (conversations = {bindings[c] : c \in Customer} \ {None})'
      /\ (\A c, d \in Customer : bindings[c] = bindings[d] /\ bindings[c] # None => c = d)'
  <2>1. CASE UNCHANGED <<bindings, conversations>>
    BY <2>1 DEF RouteInv, OneConversationPerCustomer
  <2>2. CASE ~ UNCHANGED <<bindings, conversations>>
    <3>1. PICK conv \in Conversation \ conversations :
                 /\ bindings' = [bindings EXCEPT ![Sender[Current(h)]] = conv]
                 /\ conversations' = conversations \cup {conv}
      BY <1>1, <2>2 DEF BindingStep
    <3>2. Sender[Current(h)] \in Customer /\ bindings[Sender[Current(h)]] = None
      <4>1. pc[h] = "create"
        BY <1>1, <2>2 DEF BindingStep
      <4>2. Current(h) \in Message
        BY <4>1, CurrentIsMessage DEF RoutingInv
      <4> QED  BY <4>1, <4>2, RoutingAssumption DEF RouteInv, RouteHeld
    <3>3. conv # None /\ \A c \in Customer : bindings[c] # conv
      BY <3>1, RoutingAssumption DEF RouteInv, OneConversationPerCustomer
    <3>4. \A c \in Customer : bindings'[c] = IF c = Sender[Current(h)] THEN conv ELSE bindings[c]
      BY <3>1, <3>2 DEF RoutingInv, TypeOK
    <3>5. {bindings'[c] : c \in Customer} \ {None} = ({bindings[c] : c \in Customer} \ {None}) \cup {conv}
      BY <3>2, <3>3, <3>4
    <3> QED  BY <3>1, <3>3, <3>4, <3>5 DEF RouteInv, OneConversationPerCustomer
  <2> QED  BY <2>1, <2>2
<1> QED  BY <1>2, RowsFollowBindings, ErrorsHaveFaults DEF OneConversationPerCustomer

LEMMA RouteStep == RoutingInv /\ RouteInv /\ [Next]_vars => RouteInv'
<1> SUFFICES ASSUME RoutingInv, RouteInv, [Next]_vars PROVE RouteInv'
  OBVIOUS
<1> USE DEF database, frames, outbound, counters
<1>1. ASSUME NEW h \in Handler, Step(h) PROVE RouteInv'
  BY <1>1, OneConversationStep, OthersHold, OwnHold DEF RouteInv
<1>2. ASSUME NEW h \in Handler, NEW b \in Batch, Callback(h, b) PROVE RouteInv'
  <2>1. OneConversationPerCustomer'
    BY <1>2 DEF Callback, RouteInv, OneConversationPerCustomer
  <2>2. ASSUME NEW g \in Handler PROVE RouteHeld(g)'
    BY <1>2 DEF Callback, Goto, Current, RouteInv, RouteHeld, RoutingInv, TypeOK
  <2> QED  BY <2>1, <2>2 DEF RouteInv
<1>3. CASE Crash
  BY <1>3 DEF Crash, RouteInv, OneConversationPerCustomer, RouteHeld
<1>4. CASE \/ \E m \in Message, answer \in {"accepted", "refused", "stale"} : ProviderAnswers(m, answer)
           \/ \E status \in {"active", "disabled"} : SetChannel(status)
           \/ UNCHANGED vars
  <2>1. UNCHANGED <<rows, bindings, conversations, channelLock, pc, batch, next, route, mark, faults>>
    BY <1>4 DEF ProviderAnswers, SetChannel, vars
  <2> QED  BY <2>1 DEF RouteInv, OneConversationPerCustomer, RouteHeld, Current
<1> QED  BY <1>1, <1>2, <1>3, <1>4 DEF Next

\* For any number of first messages routed at once: one conversation per customer,
\* none without its customer, and no routing error without a failed statement.
THEOREM OneConversationHolds == Spec => []OneConversationPerCustomer
<1>1. Init => RouteInv
  <2> SUFFICES ASSUME Init PROVE RouteInv
    OBVIOUS
  <2>1. conversations = {bindings[c] : c \in Customer} \ {None}
    BY DEF Init
  <2>2. \A m \in Message : rows[m].conversation = None /\ rows[m].error # "routing_error"
    BY NoneIsNoError DEF Init, NoRow, ErrorCategory
  <2> QED  BY <2>1, <2>2 DEF Init, RouteInv, OneConversationPerCustomer, RouteHeld
<1>2. RouteInv => OneConversationPerCustomer
  BY DEF RouteInv
<1> QED  BY <1>1, <1>2, RouteStep, RoutingInvariant, PTL DEF Spec
=============================================================================
