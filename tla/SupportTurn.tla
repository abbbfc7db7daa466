---------------------------- MODULE SupportTurn ----------------------------
(***************************************************************************)
(* SupportAgentRuntime.run (src/index.ts): one governed customer turn over *)
(* the Pi agent loop, its tools, InMemorySupportStore and the durable      *)
(* SupportBusinessStore.  Turns run concurrently in one process; every     *)
(* await is a step.  The overall deadline races the policy check and the   *)
(* prompt; what it leaves behind (a lookup, a durable write) still ends    *)
(* later, on a turn that has been sealed.                                  *)
(***************************************************************************)
EXTENDS Naturals, FiniteSets, FiniteSetsExt

CONSTANTS
  Turn,          \* invocations of run
  Conversation, Customer,
  Key,           \* ticket idempotency keys
  Query,         \* knowledge queries; OwnQuery is the text of the request itself
  OwnQuery,
  Request,       \* what a caller may ask, members of RequestType
  Call,          \* the tool calls the model may make, members of CallType
  ModelReply,    \* how a message without tool calls may end
  RealPolicy,    \* options.realPolicy
  FallbackModel, \* whether options.fallbackModel is set
  EarlierTickets, EarlierHandoffs,   \* what earlier processes may have left in the database
  MaxTurns, MaxToolCalls,   \* limits.maxAgentTurns, limits.maxToolCalls
  None

RequestType == [conversation : Conversation, customer : Customer,
                risk : BOOLEAN,          \* detectSafetyRisk(text)
                faq : BOOLEAN,           \* an admitted FAQ entry matches the text
                mayTicket : BOOLEAN,     \* tickets:write
                mayHandoff : BOOLEAN,    \* mayEscalate and handoff:write
                requiresEscalation : BOOLEAN,
                needsHuman : BOOLEAN, greeting : BOOLEAN]   \* cues of real-policy.ts
CallType == [tool : {"search_faq"}, arg : {None}]
              \cup [tool : {"search_knowledge"}, arg : Query]
              \cup [tool : {"create_ticket"}, arg : Key]
              \cup [tool : {"handoff_to_human"}, arg : {None}]

Texts == {"plain", "claim", "promise", "guarded", "empty", "length"}

ASSUME TurnAssumption ==
  /\ Request \subseteq RequestType
  /\ Call \subseteq CallType
  /\ ModelReply \subseteq Texts \cup {"error", "aborted"}
  /\ OwnQuery \in Query
  /\ EarlierTickets \subseteq Key /\ EarlierHandoffs \subseteq Conversation
  /\ RealPolicy \in BOOLEAN /\ FallbackModel \in BOOLEAN
  /\ MaxTurns \in Nat /\ MaxToolCalls \in Nat
  /\ None \notin Turn \cup Conversation \cup Customer \cup Key \cup Query

VARIABLES
  sessions,            \* InMemorySupportStore: the customer of a conversation
  tickets, ticketReservations,
  handoffs, handoffReservations,
  dbTickets, dbHandoffs,    \* the durable SupportBusinessStore
  writes,              \* durable writes under way, awaited or abandoned
  run,                 \* where run is
  agent,               \* where its Pi agent loop is
  call,                \* the tool call the loop is at
  expired,             \* Date.now() >= overallExpiresAt
  frame,               \* the local variables of run
  result

store == <<sessions, tickets, ticketReservations, handoffs, handoffReservations>>
database == <<dbTickets, dbHandoffs>>
vars == <<store, database, writes, run, agent, call, expired, frame, result>>

Routing == {"NO_CANDIDATE", "SINGLE_CANDIDATE", "AMBIGUOUS_MULTIPLE_CANDIDATES"}
Reply == Texts \cup {"none", "toolUse", "error", "aborted"}
Write == [turn : Turn, kind : {"ticket"}, arg : Key, stage : {"sent", "stored", "failed"}]
           \cup [turn : Turn, kind : {"handoff"}, arg : Conversation,
                 stage : {"sent", "stored", "failed"}]
Result == [type : {"none", "answer", "fallback", "escalation"},
           evidence : BOOLEAN,
           policy : {"none", "AUTO", "WORKFLOW", "HUMAN", "SAFE_FALLBACK"}]

NoResult == [type |-> "none", evidence |-> FALSE, policy |-> "none"]
NoCall == [tool |-> "none", arg |-> None]
NoGround == [source |-> None, routing |-> "none"]

\* A prompt takes a turn before the budget is looked at; the fallback's takes one more.
TurnBudget == IF MaxTurns = 0 THEN 1 ELSE MaxTurns

Frame == [request : Request \cup {None},
          timedOut : BOOLEAN, sealed : BOOLEAN, limitReached : BOOLEAN,
          escalationRequested : BOOLEAN, toolFailed : BOOLEAN,
          eligible : BOOLEAN,            \* deadlineEvidenceEligible
          noEvidence : BOOLEAN, piFaqMiss : BOOLEAN,
          piChecked : BOOLEAN,           \* a knowledge check of pi_tool origin was made
          ground : [source : Query \cup {"faq", None}, routing : Routing \cup {"faq", "none"}],
          settled : BOOLEAN,             \* evidenceSettledAt < overallExpiresAt
          late : BOOLEAN,                \* history: ground was last set after the deadline
          checked : [Query -> Routing \cup {"none"}],   \* completedChecks
          changed : SUBSET Query,        \* whose source object changed since it was read
          covered : BOOLEAN,             \* the safety evidence covers the risk
          keys : SUBSET Key, handoff : BOOLEAN,   \* reservedTicketKeys, reservedHandoff
          turns : 0..TurnBudget + 1, toolCalls : 0..MaxToolCalls + 1,
          reply : Reply, fellBack : BOOLEAN,
          terminal : BOOLEAN]            \* every tool result of this message says terminate

NewFrame ==
  [request |-> None, timedOut |-> FALSE, sealed |-> FALSE, limitReached |-> FALSE,
   escalationRequested |-> FALSE, toolFailed |-> FALSE, eligible |-> FALSE,
   noEvidence |-> FALSE, piFaqMiss |-> FALSE, piChecked |-> FALSE, ground |-> NoGround,
   settled |-> FALSE, late |-> FALSE, checked |-> [q \in Query |-> "none"], changed |-> {},
   covered |-> FALSE, keys |-> {}, handoff |-> FALSE, turns |-> 0, toolCalls |-> 0,
   reply |-> "none", fellBack |-> FALSE, terminal |-> TRUE]

\* Every variable is well typed; the counters stay within one of their limits.
TypeOK ==
  /\ sessions \in [Conversation -> Customer \cup {None}]
  /\ tickets \subseteq Key /\ ticketReservations \subseteq Key /\ dbTickets \subseteq Key
  /\ handoffs \subseteq Conversation /\ handoffReservations \subseteq Conversation
  /\ dbHandoffs \subseteq Conversation
  /\ writes \subseteq Write
  /\ run \in [Turn -> {"idle", "precheck", "prompt", "decide", "handoff", "escalate",
                       "apologize", "audit", "returned", "rejected"}]
  /\ agent \in [Turn -> {"off", "model", "lookup", "absent", "present", "tool", "between"}]
  /\ call \in [Turn -> Call \cup {NoCall}]
  /\ expired \in [Turn -> BOOLEAN]
  /\ frame \in [Turn -> Frame]
  /\ result \in [Turn -> Result]

Init ==
  /\ sessions = [c \in Conversation |-> None]
  /\ tickets = {} /\ ticketReservations = {} /\ handoffs = {} /\ handoffReservations = {}
  /\ dbTickets \in SUBSET EarlierTickets /\ dbHandoffs \in SUBSET EarlierHandoffs
  /\ writes = {}
  /\ run = [t \in Turn |-> "idle"]
  /\ agent = [t \in Turn |-> "off"]
  /\ call = [t \in Turn |-> NoCall]
  /\ expired = [t \in Turn |-> FALSE]
  /\ frame = [t \in Turn |-> NewFrame]
  /\ result = [t \in Turn |-> NoResult]

-----------------------------------------------------------------------------
(* Shared parts of the steps.                                              *)

ConversationOf(t) == frame[t].request.conversation
Goto(t, label) == run' = [run EXCEPT ![t] = label]
AgentGoto(t, label) == agent' = [agent EXCEPT ![t] = label]
Update(t, f) == frame' = [frame EXCEPT ![t] = f]

\* The first row whose condition holds: a chain of early returns.
FirstOf(rows) == rows[Min({i \in DOMAIN rows : rows[i].when})].result

Verified(f) == f.ground.routing \in {"faq", "SINGLE_CANDIDATE"}
SnapshotCurrent(f) == Verified(f) /\ f.ground.source \notin f.changed

\* Mutant: tool calls in progress are not looked at.
EligibleBusy(f, active) ==
  /\ ~f.request.risk /\ ~f.request.requiresEscalation
  /\ f.ground.routing = "SINGLE_CANDIDATE" /\ f.settled /\ SnapshotCurrent(f)
  /\ ~f.toolFailed /\ ~f.limitReached /\ ~f.escalationRequested
  /\ f.keys = {} /\ ~f.handoff

\* May the evidence read so far be the answer of a turn that ran out of time?
Eligible(f, active) ==
  /\ ~f.request.risk /\ ~f.request.requiresEscalation
  /\ f.ground.routing = "SINGLE_CANDIDATE" /\ f.settled /\ SnapshotCurrent(f)
  /\ ~active
  /\ ~f.toolFailed /\ ~f.limitReached /\ ~f.escalationRequested
  /\ f.keys = {} /\ ~f.handoff

Expire(f, active) ==
  IF f.timedOut \/ f.sealed THEN f
  ELSE [f EXCEPT !.timedOut = TRUE, !.eligible = Eligible(f, active)]

\* turn_start of the Pi loop
StartTurn(f) == [f EXCEPT !.turns = @ + 1, !.terminal = TRUE]

\* Mutant: one turn too many.
OutOfTurnsLate(f) == f.turns > MaxTurns

OutOfTurns(f) == f.turns >= MaxTurns

\* shouldStopAfterTurn
StopAfterTurn(f) == [f EXCEPT !.limitReached = @ \/ OutOfTurns(f)]

\* Mutant: the clock is not read again when the prompt is over.
EndPromptOnTime(t, f) ==
  IF f.reply = "error" /\ FallbackModel /\ ~f.fellBack
    THEN /\ Update(t, StartTurn([f EXCEPT !.fellBack = TRUE]))
         /\ AgentGoto(t, "model")
         /\ UNCHANGED run
    ELSE /\ Update(t, f)
         /\ AgentGoto(t, "off")
         /\ Goto(t, "decide")

\* The prompt is over; a model error is tried once more on the fallback model.
EndPrompt(t, f) ==
  LET g == IF expired[t] THEN Expire(f, FALSE) ELSE f IN
  IF ~g.timedOut /\ g.reply = "error" /\ FallbackModel /\ ~g.fellBack
    THEN /\ Update(t, StartTurn([g EXCEPT !.fellBack = TRUE]))
         /\ AgentGoto(t, "model")
         /\ UNCHANGED run
    ELSE /\ Update(t, g)
         /\ AgentGoto(t, "off")
         /\ Goto(t, "decide")

\* A tool call ends; the loop may make another one of the same message.
EndTool(t, f, terminate) ==
  /\ Update(t, [f EXCEPT !.terminal = @ /\ terminate])
  /\ AgentGoto(t, "between")
Block(t, f, terminate) == EndTool(t, [f EXCEPT !.toolFailed = TRUE], terminate)

\* A step cut short by the deadline: the race is lost, the loop is aborted.
CutShort(t, f) ==
  /\ Update(t, Expire(f, TRUE))
  /\ AgentGoto(t, "off")
  /\ Goto(t, "decide")

\* What a completed search leaves in the frame, before its time is looked at.
AfterSearch(t, f, q, routing) ==
  [f EXCEPT !.ground = [source |-> q, routing |-> routing],
            !.settled = ~expired[t], !.late = expired[t],
            !.changed = @ \ {q},
            !.noEvidence = @ \/ routing # "SINGLE_CANDIDATE"]

-----------------------------------------------------------------------------
(* From the call of run to the prompt.                                     *)

\* getOrCreateSession refuses a conversation of another customer.
Start(t, r) ==
  /\ run[t] = "idle"
  /\ IF sessions[r.conversation] \in {None, r.customer}
       THEN LET f == [NewFrame EXCEPT !.request = r] IN
            /\ sessions' = [sessions EXCEPT ![r.conversation] = r.customer]
            /\ \/ /\ r.risk \/ r.faq
                  /\ Update(t, StartTurn(f))
                  /\ Goto(t, "prompt") /\ AgentGoto(t, "model")
               \/ /\ ~(r.risk \/ r.faq)
                  /\ Update(t, [f EXCEPT !.toolCalls = 1, !.limitReached = MaxToolCalls < 1])
                  /\ Goto(t, IF MaxToolCalls < 1 THEN "decide" ELSE "precheck")
                  /\ UNCHANGED agent
       ELSE /\ Goto(t, "rejected")
            /\ UNCHANGED <<sessions, agent, frame>>
  /\ UNCHANGED <<tickets, ticketReservations, handoffs, handoffReservations, database, writes,
                 call, expired, result>>

\* The policy's own knowledge check, with the text of the request.
PrecheckEnds(t, routing) ==
  /\ run[t] = "precheck"
  /\ LET f == AfterSearch(t, frame[t], OwnQuery, routing) IN
     IF expired[t]
       THEN CutShort(t, [f EXCEPT !.toolFailed = TRUE])
       ELSE /\ Update(t, StartTurn([f EXCEPT !.checked[OwnQuery] = routing]))
            /\ Goto(t, "prompt") /\ AgentGoto(t, "model")
  /\ UNCHANGED <<store, database, writes, call, expired, result>>

\* The search throws or exceeds the tool timeout: Pi is not invoked.
PrecheckFails(t) ==
  /\ run[t] = "precheck"
  /\ Update(t, [frame[t] EXCEPT !.toolFailed = TRUE])
  /\ Goto(t, "decide")
  /\ UNCHANGED <<store, database, writes, agent, call, expired, result>>

Clock(t) ==
  /\ run[t] \in {"precheck", "prompt"} /\ ~expired[t]
  /\ expired' = [expired EXCEPT ![t] = TRUE]
  /\ UNCHANGED <<store, database, writes, run, agent, call, frame, result>>

Active(t) == run[t] = "precheck" \/ agent[t] \in {"lookup", "absent", "present", "tool"}

\* Mutant: the policy check is awaited without racing the deadline.
RacesDeadlinePromptOnly(t) == run[t] = "prompt"

RacesDeadline(t) == run[t] \in {"precheck", "prompt"}

\* The timer of the deadline.  A lookup under way goes on, the rest is aborted.
TimerFires(t) ==
  /\ RacesDeadline(t) /\ expired[t]
  /\ Update(t, Expire(frame[t], Active(t)))
  /\ Goto(t, "decide")
  /\ IF agent[t] \in {"lookup", "absent", "present"} THEN UNCHANGED agent ELSE AgentGoto(t, "off")
  /\ UNCHANGED <<store, database, writes, call, expired, result>>

-----------------------------------------------------------------------------
(* The Pi loop.                                                            *)

\* A message without tool calls ends the prompt; Pi may consult shouldStopAfterTurn.
ModelReplies(t, reply) ==
  /\ run[t] = "prompt" /\ agent[t] = "model"
  /\ LET f == [frame[t] EXCEPT !.reply = reply] IN
     \E g \in {f} \cup (IF reply \in Texts THEN {StopAfterTurn(f)} ELSE {}) : EndPrompt(t, g)
  /\ UNCHANGED <<store, database, writes, call, expired, result>>

Cached(f, c) == c.tool = "search_knowledge" /\ f.checked[c.arg] # "none"
Denied(f, c) ==
  \/ c.tool = "create_ticket" /\ ~f.request.mayTicket
  \/ c.tool = "handoff_to_human" /\ ~f.request.mayHandoff

\* A tool call of the message, up to the first await of beforeToolCall.  Calls after
\* the first one over the budget are blocked alike and left out.
UseTool(t, c) ==
  /\ run[t] = "prompt" /\ agent[t] \in {"model", "between"}
  /\ frame[t].toolCalls <= MaxToolCalls
  /\ call' = [call EXCEPT ![t] = c]
  /\ LET f == [frame[t] EXCEPT !.reply = "toolUse"]
         g == [f EXCEPT !.toolCalls = IF Cached(f, c) THEN @ ELSE @ + 1]
     IN \/ /\ expired[t]
           /\ CutShort(t, f)
        \/ /\ ~expired[t] /\ g.toolCalls > MaxToolCalls
           /\ Block(t, [g EXCEPT !.limitReached = TRUE], TRUE)
           /\ UNCHANGED run
        \/ /\ ~expired[t] /\ g.toolCalls <= MaxToolCalls /\ Denied(g, c)
           /\ Block(t, g, TRUE)
           /\ UNCHANGED run
        \/ /\ ~expired[t] /\ g.toolCalls <= MaxToolCalls /\ ~Denied(g, c)
           /\ Update(t, [g EXCEPT !.piChecked = @ \/ (c.tool = "search_knowledge" /\ ~Cached(g, c))])
           /\ AgentGoto(t, IF c.tool \in {"search_faq", "search_knowledge"} THEN "tool" ELSE "lookup")
           /\ UNCHANGED run
  /\ UNCHANGED <<store, database, writes, expired, result>>

InDatabase(t) ==
  IF call[t].tool = "create_ticket" THEN call[t].arg \in dbTickets
  ELSE ConversationOf(t) \in dbHandoffs

\* businessStore.findTicket or findHandoff reads the database ...
LookupReads(t) ==
  /\ agent[t] = "lookup"
  /\ AgentGoto(t, IF InDatabase(t) THEN "present" ELSE "absent")
  /\ UNCHANGED <<store, database, writes, run, call, expired, frame, result>>

LookupFails(t) ==
  /\ agent[t] \in {"lookup", "absent", "present"}
  /\ IF run[t] = "prompt" THEN Block(t, frame[t], FALSE) ELSE AgentGoto(t, "off") /\ UNCHANGED frame
  /\ UNCHANGED <<store, database, writes, run, call, expired, result>>

\* Mutant: a reservation of another turn is not respected.
ReservableAlways(t) ==
  IF call[t].tool = "create_ticket" THEN call[t].arg \notin tickets
  ELSE ConversationOf(t) \notin handoffs

\* reserveTicket, reserveHandoff
Reservable(t) ==
  IF call[t].tool = "create_ticket" THEN call[t].arg \notin tickets \cup ticketReservations
  ELSE ConversationOf(t) \notin handoffs \cup handoffReservations

Reserve(t) ==
  IF call[t].tool = "create_ticket"
    THEN /\ ticketReservations' = ticketReservations \cup {call[t].arg}
         /\ Update(t, [frame[t] EXCEPT !.keys = @ \cup {call[t].arg}])
         /\ UNCHANGED handoffReservations
    ELSE /\ handoffReservations' = handoffReservations \cup {ConversationOf(t)}
         /\ Update(t, [frame[t] EXCEPT !.handoff = TRUE])
         /\ UNCHANGED ticketReservations

WriteOf(t) ==
  [turn |-> t, stage |-> "sent",
   kind |-> IF call[t].tool = "create_ticket" THEN "ticket" ELSE "handoff",
   arg |-> IF call[t].tool = "create_ticket" THEN call[t].arg ELSE ConversationOf(t)]

\* ... and its answer arrives, perhaps on a turn the deadline has closed: the
\* reservation is made all the same, the tool refuses to start.
LookupAnswers(t) ==
  /\ agent[t] \in {"absent", "present"}
  /\ IF agent[t] = "absent" /\ Reservable(t)
       THEN /\ Reserve(t)
            /\ IF run[t] = "prompt"
                 THEN AgentGoto(t, "tool") /\ writes' = writes \cup {WriteOf(t)}
                 ELSE AgentGoto(t, "off") /\ UNCHANGED writes
       ELSE /\ IF run[t] = "prompt"
                 THEN Block(t, frame[t], TRUE)
                 ELSE AgentGoto(t, "off") /\ UNCHANGED frame
            /\ UNCHANGED <<ticketReservations, handoffReservations, writes>>
  /\ UNCHANGED <<sessions, tickets, handoffs, database, run, call, expired, result>>

-----------------------------------------------------------------------------
(* Tool results.                                                           *)

AtTool(t, tool) == run[t] = "prompt" /\ agent[t] = "tool" /\ call[t].tool = tool

FaqEnds(t, match) ==
  /\ AtTool(t, "search_faq")
  /\ LET f == frame[t] IN
     EndTool(t, IF match THEN [f EXCEPT !.ground = [source |-> "faq", routing |-> "faq"],
                                        !.settled = FALSE, !.late = expired[t]]
                ELSE [f EXCEPT !.noEvidence = TRUE, !.piFaqMiss = TRUE], FALSE)
  /\ UNCHANGED <<store, database, writes, run, call, expired, result>>

\* A query checked before is answered from completedChecks, if its source is unchanged.
SearchCached(t) ==
  /\ AtTool(t, "search_knowledge") /\ Cached(frame[t], call[t])
  /\ LET f == frame[t]
         q == call[t].arg
         routing == f.checked[q]
     IN IF expired[t] THEN CutShort(t, f)
        ELSE /\ IF q \in f.changed /\ routing = "SINGLE_CANDIDATE"
                  THEN Block(t, f, FALSE)
                  ELSE EndTool(t, [f EXCEPT !.ground = [source |-> q, routing |-> routing],
                                            !.late = FALSE,
                                            !.noEvidence = routing # "SINGLE_CANDIDATE"], FALSE)
             /\ UNCHANGED run
  /\ UNCHANGED <<store, database, writes, call, expired, result>>

SearchEnds(t, routing, covered) ==
  /\ AtTool(t, "search_knowledge") /\ ~Cached(frame[t], call[t])
  /\ covered => frame[t].request.risk
  /\ LET q == call[t].arg
         f == [AfterSearch(t, frame[t], q, routing) EXCEPT !.covered = covered]
     IN IF expired[t] THEN CutShort(t, f)
        ELSE /\ EndTool(t, IF f.request.risk THEN f ELSE [f EXCEPT !.checked[q] = routing], FALSE)
             /\ UNCHANGED run
  /\ UNCHANGED <<store, database, writes, call, expired, result>>

\* The tool throws, or takes longer than perToolTimeoutMs; a write goes on without it.
ToolFails(t) ==
  /\ run[t] = "prompt" /\ agent[t] = "tool" /\ call[t].tool # "search_faq"
  /\ ~Cached(frame[t], call[t])
  /\ Block(t, frame[t], FALSE)
  /\ UNCHANGED <<store, database, writes, run, call, expired, result>>

\* An object the retrieval service handed out is modified, a revoked entry say.
SourceChanges(t, q) ==
  /\ run[t] \in {"precheck", "prompt"} /\ q \notin frame[t].changed
  /\ frame[t].ground.source = q \/ frame[t].checked[q] # "none"
  /\ Update(t, [frame[t] EXCEPT !.changed = @ \cup {q}])
  /\ UNCHANGED <<store, database, writes, run, agent, call, expired, result>>

\* The tool results are complete: stop, or ask the model again.
NextTurn(t) ==
  /\ run[t] = "prompt" /\ agent[t] = "between"
  /\ LET f == StopAfterTurn(frame[t]) IN
     \/ /\ frame[t].terminal
        /\ \E g \in {frame[t], f} : EndPrompt(t, g)
     \/ /\ ~frame[t].terminal /\ OutOfTurns(f)
        /\ EndPrompt(t, f)
     \/ /\ ~frame[t].terminal /\ ~OutOfTurns(f)
        /\ Update(t, StartTurn(frame[t])) /\ AgentGoto(t, "model")
        /\ UNCHANGED run
  /\ UNCHANGED <<store, database, writes, call, expired, result>>

-----------------------------------------------------------------------------
(* createBusinessTicket, createBusinessHandoff: the database first, the    *)
(* in-memory store after.                                                  *)

\* INSERT ... ON CONFLICT; it may fail, also after it took effect.
Persist(w, stored, answered) ==
  /\ w \in writes /\ w.stage = "sent"
  /\ writes' = (writes \ {w}) \cup {[w EXCEPT !.stage = IF answered THEN "stored" ELSE "failed"]}
  /\ dbTickets' = IF stored /\ w.kind = "ticket" THEN dbTickets \cup {w.arg} ELSE dbTickets
  /\ dbHandoffs' = IF stored /\ w.kind = "handoff" THEN dbHandoffs \cup {w.arg} ELSE dbHandoffs
  /\ UNCHANGED <<store, run, agent, call, expired, frame, result>>

DatabaseWrites(w) ==
  \E o \in {<<TRUE, TRUE>>, <<TRUE, FALSE>>, <<FALSE, FALSE>>} : Persist(w, o[1], o[2])

\* Mutant: an error of the durable port is swallowed.
SucceededAnyway(w) == TRUE

Succeeded(w) == w.stage = "stored"

\* createTicket and createHandoff of the in-memory store, which end the reservation.
Record(w) ==
  IF ~Succeeded(w) THEN UNCHANGED <<tickets, ticketReservations, handoffs, handoffReservations>>
  ELSE IF w.kind = "ticket"
    THEN /\ tickets' = tickets \cup {w.arg}
         /\ ticketReservations' = IF w.arg \in tickets THEN ticketReservations
                                  ELSE ticketReservations \ {w.arg}
         /\ UNCHANGED <<handoffs, handoffReservations>>
    ELSE /\ handoffs' = handoffs \cup {w.arg}
         /\ handoffReservations' = IF w.arg \in handoffs THEN handoffReservations
                                   ELSE handoffReservations \ {w.arg}
         /\ UNCHANGED <<tickets, ticketReservations>>

Awaited(w) ==
  LET t == w.turn IN
  run[t] = "prompt" /\ agent[t] = "tool" /\ w = [WriteOf(t) EXCEPT !.stage = w.stage]

\* Mutant: a late handoff tells the turn that it escalated.
EscalatesLate(f) == [f EXCEPT !.escalationRequested = TRUE]

\* onEscalate
Escalates(f) == IF f.timedOut \/ f.sealed THEN f ELSE [f EXCEPT !.escalationRequested = TRUE]

\* The write returns to its tool, to the safety escalation, or to nobody.
WriteReturns(w) ==
  LET t == w.turn
      f == IF w.kind = "handoff" /\ run[t] # "handoff" /\ Succeeded(w)
             THEN Escalates(frame[t]) ELSE frame[t]
  IN
  /\ w \in writes /\ w.stage # "sent"
  /\ writes' = writes \ {w}
  /\ Record(w)
  /\ \/ /\ Awaited(w)
        /\ IF Succeeded(w) THEN EndTool(t, f, w.kind = "handoff") ELSE Block(t, f, FALSE)
        /\ UNCHANGED run
     \/ /\ run[t] = "handoff" /\ w.kind = "handoff"
        /\ Goto(t, IF Succeeded(w) THEN "escalate" ELSE "apologize")
        /\ UNCHANGED <<agent, frame>>
     \/ /\ ~Awaited(w) /\ ~(run[t] = "handoff" /\ w.kind = "handoff")
        /\ Update(t, f)
        /\ UNCHANGED <<run, agent>>
  /\ UNCHANGED <<sessions, database, call, expired, result>>

-----------------------------------------------------------------------------
(* The verdict.                                                            *)

Answered == [NoResult EXCEPT !.type = "answer"]
Grounded == [Answered EXCEPT !.evidence = TRUE]
FellBack == [NoResult EXCEPT !.type = "fallback"]
Escalation == [NoResult EXCEPT !.type = "escalation"]

\* completedTicketAfterPolicyMiss
TicketDespiteMiss(f) == ~f.piFaqMiss /\ ~f.piChecked /\ f.keys \cap tickets # {}

NeedsProfessional(f) == f.request.risk /\ ~f.covered /\ ~f.timedOut /\ ~f.limitReached

\* The model's own words may be the answer: they are no failure, nothing guarded, no
\* claim without evidence and no promise of a side effect.
Speaks(f) == f.reply \in {"plain", "length"} \/ (f.reply = "claim" /\ Verified(f))

\* Everything run decides after the prompt, but the awaited safety handoff.
Verdict(f) == FirstOf(<<
  [when |-> f.timedOut /\ f.eligible, result |-> Grounded],
  [when |-> f.timedOut \/ f.limitReached, result |-> FellBack],
  [when |-> f.request.risk, result |-> IF f.covered THEN Answered ELSE Escalation],
  [when |-> f.escalationRequested, result |-> Escalation],
  [when |-> f.request.requiresEscalation \/ f.toolFailed, result |-> FellBack],
  [when |-> Verified(f), result |-> IF SnapshotCurrent(f) THEN Grounded ELSE FellBack],
  [when |-> f.noEvidence /\ ~TicketDespiteMiss(f), result |-> FellBack],
  [when |-> Speaks(f), result |-> Answered],
  [when |-> TRUE, result |-> FellBack]>>)

\* applyRealPolicy
Governed(f, r) ==
  LET HasConversation == f.request.conversation \in handoffs
      With(policy, type) == [type |-> type, evidence |-> FALSE, policy |-> policy]
      failed == \/ f.timedOut \/ f.limitReached \/ f.toolFailed
                \/ f.reply \in {"none", "empty", "length", "error", "aborted"}
  IN FirstOf(<<
  [when |-> failed, result |-> With("SAFE_FALLBACK", "fallback")],
  [when |-> f.request.risk /\ r.type = "fallback", result |-> [r EXCEPT !.policy = "SAFE_FALLBACK"]],
  [when |-> f.request.risk, result |-> [r EXCEPT !.policy = IF f.covered THEN "AUTO" ELSE "HUMAN"]],
  [when |-> f.handoff /\ HasConversation, result |-> With("HUMAN", "escalation")],
  [when |-> f.request.requiresEscalation \/ f.request.needsHuman, result |-> With("HUMAN", "fallback")],
  [when |-> f.keys \cap tickets # {}, result |-> With("WORKFLOW", "answer")],
  [when |-> r = Grounded, result |-> [r EXCEPT !.policy = "AUTO"]],
  [when |-> f.request.greeting, result |-> With("AUTO", "answer")],
  [when |-> TRUE, result |-> With("SAFE_FALLBACK", "fallback")]>>)

\* The reservations finish gives back.
Unused(f) == f.keys \ tickets

\* finish: seal, apply the policy, release, and start to record the audit event.
Finish(t, f, r) ==
  /\ Update(t, [f EXCEPT !.sealed = TRUE])
  /\ result' = [result EXCEPT ![t] = IF RealPolicy THEN Governed(f, r) ELSE r]
  /\ ticketReservations' = ticketReservations \ Unused(f)
  /\ handoffReservations' = IF f.handoff /\ f.request.conversation \notin handoffs
                              THEN handoffReservations \ {f.request.conversation}
                              ELSE handoffReservations
  /\ Goto(t, "audit")

\* clearTimeout; a safety risk without approved evidence first creates a handoff,
\* unless there is one or another turn is at it.
Decide(t) ==
  /\ run[t] = "decide"
  /\ LET f == frame[t]
         c == f.request.conversation
     IN IF NeedsProfessional(f) /\ c \notin handoffs \cup handoffReservations
          THEN /\ handoffReservations' = handoffReservations \cup {c}
               /\ Update(t, [f EXCEPT !.handoff = TRUE])
               /\ writes' = writes \cup
                    {[turn |-> t, kind |-> "handoff", arg |-> c, stage |-> "sent"]}
               /\ Goto(t, "handoff")
               /\ UNCHANGED <<ticketReservations, result>>
          ELSE /\ Finish(t, IF NeedsProfessional(f) THEN [f EXCEPT !.escalationRequested = TRUE] ELSE f,
                         Verdict(f))
               /\ UNCHANGED writes
  /\ UNCHANGED <<sessions, tickets, handoffs, database, agent, call, expired>>

\* Mutant: the answer does not depend on what became of the handoff.
FinishSafetyRegardless(t) ==
  /\ run[t] \in {"escalate", "apologize"}
  /\ Finish(t, [frame[t] EXCEPT !.escalationRequested = TRUE], Escalation)
  /\ UNCHANGED <<sessions, tickets, handoffs, database, writes, agent, call, expired>>

FinishSafety(t) ==
  /\ \/ run[t] = "escalate" /\ Finish(t, [frame[t] EXCEPT !.escalationRequested = TRUE], Escalation)
     \/ run[t] = "apologize" /\ Finish(t, frame[t], FellBack)
  /\ UNCHANGED <<sessions, tickets, handoffs, database, writes, agent, call, expired>>

\* recordAudit answers or throws, and run with it.
AuditAnswers(t) ==
  /\ run[t] = "audit"
  /\ \/ Goto(t, "returned") \/ Goto(t, "rejected")
  /\ UNCHANGED <<store, database, writes, agent, call, expired, frame, result>>

LoopStep(t) ==
  \/ \E reply \in ModelReply : ModelReplies(t, reply)
  \/ \E c \in Call : UseTool(t, c)
  \/ LookupReads(t) \/ LookupFails(t) \/ LookupAnswers(t)
  \/ (\E match \in BOOLEAN : FaqEnds(t, match))
  \/ SearchCached(t)
  \/ (\E routing \in Routing, covered \in BOOLEAN : SearchEnds(t, routing, covered))
  \/ ToolFails(t) \/ NextTurn(t)
  \/ (\E q \in Query : SourceChanges(t, q))

RunStep(t) ==
  \/ Decide(t) \/ FinishSafety(t) \/ AuditAnswers(t)

Next ==
  \/ \E t \in Turn :
       \/ \E r \in Request : Start(t, r)
       \/ \E routing \in Routing : PrecheckEnds(t, routing)
       \/ PrecheckFails(t) \/ Clock(t) \/ TimerFires(t)
       \/ LoopStep(t) \/ RunStep(t)
  \/ \E w \in writes : DatabaseWrites(w) \/ WriteReturns(w)

Spec == Init /\ [][Next]_vars

\* Time passes, timers fire and database statements answer.  Nothing is assumed of
\* the model, of retrieval, or of a lookup that only the deadline bounds.
FairSpec ==
  /\ Spec
  /\ \A t \in Turn : WF_vars(Clock(t)) /\ WF_vars(TimerFires(t)) /\ WF_vars(RunStep(t))
  /\ WF_vars(\E w \in writes : DatabaseWrites(w) \/ WriteReturns(w))

-----------------------------------------------------------------------------
(* Properties.                                                             *)

\* Evidence in a result was read before the deadline, belongs to the last check
\* made, and its source object is as it was read: neither a delayed timer nor a
\* cached check nor a revoked entry brings an outdated answer to the customer.
EvidenceIsCurrent ==
  \A t \in Turn : result[t].evidence =>
    /\ SnapshotCurrent(frame[t]) /\ ~frame[t].late
    /\ ~frame[t].toolFailed /\ ~frame[t].request.risk

\* A turn whose evidence became its answer at the deadline leaves nothing behind:
\* no lookup, reservation or write of it is, or comes, under way.
DeadlineAnswerIsQuiet ==
  \A t \in Turn : result[t].evidence /\ frame[t].timedOut =>
    /\ frame[t].keys = {} /\ ~frame[t].handoff
    /\ agent[t] = "off"
    /\ \A w \in writes : w.turn # t

\* "If a durable side effect fails, the tool fails rather than claiming it
\* succeeded": a ticket or an ordinary escalation is announced only when it is in
\* the database, whatever timed out, failed or raced before.
ClaimsAreDurable ==
  \A t \in Turn :
    /\ result[t].policy = "WORKFLOW" => frame[t].keys \cap dbTickets # {}
    /\ result[t].type = "escalation" /\ ~frame[t].request.risk => ConversationOf(t) \in dbHandoffs

Quiet ==
  /\ \A t \in Turn : run[t] \in {"idle", "returned", "rejected"} /\ agent[t] = "off"
  /\ writes = {}

\* Reservations keep two open turns from writing the same ticket or handoff at a
\* time, and when everything has ended and no turn ran out of time, every one was
\* used or given back, so that a failed side effect can be tried again.
ReservationsAreSound ==
  /\ \A v, w \in writes : v.kind = w.kind /\ v.arg = w.arg /\ v # w =>
       frame[v.turn].sealed \/ frame[w.turn].sealed
  /\ Quiet /\ (\A t \in Turn : ~frame[t].timedOut) =>
       ticketReservations = {} /\ handoffReservations = {}

\* A customer is told of a handoff when it is in the database or while a turn
\* holds its reservation: not when this turn's own durable write has failed, nor
\* after somebody else's has failed and the reservation is given back.
EscalationIsCovered ==
  [][\A t \in Turn : result'[t].type = "escalation" /\ result[t].type # "escalation" =>
       ConversationOf(t) \in dbHandoffs \cup handoffReservations']_vars

\* A sealed turn stays as it was audited: late answers of tools, writes and the
\* model change neither its result nor its audited flags and counters.
SealedIsFinal ==
  [][\A t \in Turn : frame[t].sealed =>
       /\ result'[t] = result[t]
       /\ frame'[t] = [frame[t] EXCEPT !.keys = frame'[t].keys, !.handoff = frame'[t].handoff]]_vars

\* Every turn ends within its deadline, however long the model, the retrieval
\* service or a lookup take.
TurnSettles ==
  \A t \in Turn : run[t] # "idle" ~> run[t] \in {"returned", "rejected"}

\* Test: a failed reservation is released so that the conversation can retry.
\* Refuted: a lookup that outlives the deadline reserves for a sealed turn.
NoReservationLeaks == Quiet => ticketReservations = {} /\ handoffReservations = {}
=============================================================================
