# TLA+ verification of the 数字前台 customer-support agent

The repository is a customer-support agent for stores: customers write over the
web console or WeChat customer service (WeCom KF), a governed runtime answers
from approved knowledge only, opens tickets, hands over to humans, and staff
confirm bookings from WeCom cards.  This directory models the parts where
several actors, failures and clocks meet.

## The system and its parts

| Part | Code | State it keeps | Operations | Modelled in |
| --- | --- | --- | --- | --- |
| Governed customer turn | `src/index.ts`, `src/real-policy.ts` | in-memory sessions, tickets, handoffs and reservations; the locals of one `run` | `run`, its tools, `finish` | `SupportTurn` |
| Evidence and safety | `src/knowledge.ts`, `src/safety.ts`, the search tool of `src/index.ts` | the knowledge base; what a turn's searches found | search, admission, FAQ, `decideSafety` | `EvidenceAdmission` |
| Semantic selector | `src/semantic-selector.ts`, `evals/selection/semantic/evaluation.ts` | one question to a provider, its deadline | `select`, `classify` | `SemanticSelector` |
| Live customer routing | `src/enterprise/http-api.ts` 199-344, `src/channels/wecom/customer.ts`, `client.ts` | `wecom_customer_inbound_messages`, `wecom_customer_bindings`, `wecom_kf_channels` | callback, claim, resolveRoute, attachRoute, respond, send, complete, mark | `CustomerRouting` |
| Access-token caches | `src/channels/wecom/client.ts`, `staff-protocol.ts` | one cached token per client | accessToken, forced refresh, token | `AccessTokens` |
| Sessions and identity | `src/enterprise/auth.ts`, `identity.ts`, `business.ts`, `postgres.ts` | users, memberships, sessions, conversations | login, logout, me, respond, the reads | `EnterpriseAccess` |
| Booking intents, availability | `src/storeops/*`, the handlers in `src/enterprise/http-api.ts` | `booking_intents`, `daily_availability`, memberships | createBookingIntent, transitionBookingIntent, putAvailability, lists | `BookingIntents` |
| Staff booking cards | `src/channels/wecom/staff.ts`, `staff-protocol.ts` | `channel_bindings`, `wecom_staff_booking_notifications`, the `staff-booking:` rows of `wecom_inbound_messages` | provisionStaffBinding, notify, handle, deliverOnce, notifyCustomer | `StaffBooking` |
| WeCom core with ports | `src/channels/wecom/core.ts`, `postgres.ts` | `wecom_inbound_messages`, the lock of a conversation | handle, claim, resolveIdentity, attachConversation, markDeliveryUncertain, finish | `WeComCore` |
| Web console, session | `web/src/App.tsx`, `session.ts`, `business.ts`, `audit.tsx`, `support.ts`, `storeops/lifecycle.ts` | the React state of a tab, its fetches, the cookie | login, logout, me, the reads of every view, support | `ConsoleSession` |
| Web console, store operations | `web/src/storeops/*` | rows, forms and editors with their submit and read lifecycles | row actions, create, save, reload | `ConsoleStoreOps` |
| Application lifecycle, migrations, demo runtime | `src/enterprise/application.ts`, `postgres.ts`, `demo-data.ts`, `pi-runtime.ts` | `schema_migrations`, the demo graph, the chain of runs | configure, migrate, seed, serve, run, close | `EnterpriseStartup` |
| RAG registry and index | `src/retrieval/fastapi.ts`, `ai-service/rag_service` | `rag_documents`, `rag_chunks`, advisory locks | register, current, ingest, search | `RagRegistry` |
| Semantic evaluation gates | `evals/selection/semantic/*` | manifest, journal and report files of an attempt | start, resume, ask, persist, publish | `EvaluationGate` |
| Runtime proof | `scripts/real-source-runtime-smoke.ts` | its journal file | launch, reserve, dispatch, complete | `RuntimeProof` |
| Acceptance harness | `harness/*` | the declaration, the report and its receipt | declareRun, runSuite, evaluateRun, evaluateAcceptance | `AcceptanceHarness` |
| Evaluation sets, portfolio demo, deployment | `evals`, `src/portfolio-demo.ts`, `deploy` | | | not modelled |

How they interact: an HTTP request or a WeCom callback resolves an execution
context, `EnterpriseSupportService.respond` calls `SupportAgentRuntime.run`, and
`run` drives the Pi agent loop (an external package), retrieval and the durable
business store (PostgreSQL).  A booking created over the API is announced to one
member of staff by a card (`notify`); a click on it comes back as a callback and
decides the booking through the same `transitionBookingIntent` the API uses, and
then tells the customer.  The console shows what the API answers and acts with the
version it was shown.  One Node process serves all requests, so every `await` is
a point where other requests run.  PostgreSQL statements can fail, or take effect
although their answer is lost.  WeCom repeats callbacks.  Retrieval crosses into
a Python process that writes to the same database.

What is hard: duplicate callbacks racing a claim; the token-refresh resend; a
deadline that seals a turn while lookups and writes continue; reservations held
across awaits; late timers; decisions on stale versions; roles that change
between a check and a commit; sends that are never repeated; recovery writes that
fail themselves; answers of fetches that arrive after a logout; batches that lock
documents in opposite orders; a seed made row by row; a journal cut short in the
middle of a line; the process dying between any two statements.

What makes each part correct is stated with its run below; `hazards` in
PROJECT.json lists the places in the code each property is about.

## Modules

* `MessageDelivery`: the abstract promise of a channel.  A message is claimed
  once, a reply is delivered at most once, and the recorded verdict says
  "replied" or "unreplied" only when that is what happened.  Three modules
  implement it.
* `CustomerRouting`: the live path.  One action per awaited statement or call:
  `ClaimNew`/`ClaimSeen` (customer.ts `claim`), `RouteLock`/`RouteRead`/
  `RouteCreate` (the `resolveRoute` transaction, which holds the channel row),
  `Attach`, `Respond`, `Post`/`Await*` (client.ts `sendTextOnce` with its one
  resend after a stale token), `Complete`, `Mark`.  A statement answers, loses its
  answer, or fails (`Outcome`); `Crash` drops all frames and keeps the database
  and the requests WeCom already has.
* `SupportTurn`: `run`.  `run[t]` is where the function is, `agent[t]` where the
  Pi loop is: the two part when the deadline wins a race.  `writes` are durable
  writes under way, awaited or abandoned.  `frame[t]` holds the locals under the
  names of the code.  `Verdict` is the chain of early returns after the prompt,
  `Governed` is `applyRealPolicy`; both are tables read from the top.
* `BookingLifecycle`: the contract's transition table for one booking, as a
  specification of its own (status, version, agreed interval).
* `BookingIntents`: the API requests over `booking_intents` and
  `daily_availability`.  `Resolve` reads the role of the session without a
  lock; one transaction then re-reads the membership FOR SHARE (`Authorize`) and
  decides under the lock of the row; `decisions` is a history
  of what committed, by whom and on which version.  `SetRole` is an operator's
  UPDATE, which waits for FOR SHARE holders; `AddMembership` an INSERT, which
  does not.
* `StaffBooking` extends `BookingIntents` with the cards.  `NotifyPrepare` and
  `NotifyRecord` are the rest of a creation request; a click runs `ClickLock`,
  then one of `ClickDecide`, `ClickConflict`, `ClickNothing` (one transaction with
  the inbound claim), then `Mark`, `Await`, `Record` for the card's feedback and
  again, after `ReadCustomer`, for the customer.  `shown` is what people saw.
  `ProvisionStaffBinding` is the operator's script, run at any time.
* `WeComCore`: the ingress for bound members of staff with its injected ports.
  One action per await of `handle`; `AttachLock` and `AttachUpdate` are the
  transaction that holds the conversation.  `SetIdentity` is an operator
  disabling or changing a binding between any two steps.  The core is complete
  and tested in the repository but not wired into the running server.
* `EnterpriseAccess`: from a cookie to a run, one action per awaited statement
  (`FindSession`, `DeleteExpired`, `FindMembership`, `FindConversation`,
  `CreateConversation`, `Run`, `StorePiSession`), while sessions lapse or are logged
  out and memberships change.  What a handler throws ends the process (`Ends`),
  see the divergences.  `valid` and `held` are history.
* `AccessTokens`: the cache of either client (`Clients` says which: the
  customer-service client retries once with a fresh token).  A tick is a request's
  timeout; `Fresh` is the safety window.
* `EvidenceAdmission`: what searches of one turn find (`SearchEnds`, possibly after
  `TimesOut`), what is admitted, and `DecideSafety` over it.  Which entries a
  query reaches is a choice; `SupportTurn` takes the outcome as input.
* `SemanticSelector`: the race of completion, timer and abort of one `select`, for
  the case in its own order and in the reverse.  Only the evaluations compose it
  (`semanticSelectorInvoked` is false at index.ts:1141).
* `RagRegistry`: writers take an advisory lock per document in sorted order,
  register and publish generations; a search proposes from the live index
  (`Propose`) and is checked against the registry later (`CheckRegistry`).
* `EnterpriseStartup`: `Boot`, the ledger's transaction per migration, the seed
  statement by statement, `Serve`, the promise chain of demo runs, and closing in
  the order of the code.
* `EvaluationGate`: one module for the five gate scripts, which differ in a
  policy record; `Line`, `Recovered` and `Rebuild` are the journal's recovery.
* `RuntimeProof`: the proof's exclusive journal and its three cases.
* `AcceptanceHarness`: `runSuite` case by case, `EditReport` by whoever holds the
  report, and both evaluations in `Evaluate`.  `served` and `store` are what really
  happened; `Observe` reads the store after the run.
* `ConsoleSession`: a browser tab.  An effect or handler of React runs to its next
  await in one step; fetches carry the shell that sent them, a fetch whose
  lifecycle is invalidated is dropped, and the server serves and answers a read
  in one step.
* `ConsoleStoreOps`: two people's consoles over one booking, one availability row
  and the booking form; a transaction of the server is one step.
* `StoreOps`: `BookingIntents` and `ConsoleStoreOps` side by side, with the constants of
  both.
* `CustomerRoutingProofs`, `SupportTurnProofs`, `StaffBookingProofs` (with `BookingIntents`),
  `WeComCoreProofs`, `ConsoleSessionProofs`, `StoreOpsProofs`, `ServicesProofs`,
  `VerdictsProofs`: theorems and their proofs.
* `Services`: `EnterpriseAccess`, `AccessTokens`, `EvidenceAdmission`, `SemanticSelector`,
  `RagRegistry` and `EnterpriseStartup` side by side, with the constants of all, what their
  proofs assume of them, and what is promised of each.  It extends `Verdicts`, the same for
  the parts that judge the system: `EvaluationGate`, `RuntimeProof` and `AcceptanceHarness`.
* `MC*`: constant values and symmetry for TLC.  `MCServices`, `MCBookingIntents` and
  `MCWeComContracts` check several modules in one run: the parts share no
  variable, the initial state picks one and the others keep theirs, so TLC
  explores the sum of the state spaces and a violation in any part is found.
  In `MCWeComContracts`, the only one with liveness, no fair action of the part
  that rests is enabled, so its fairness adds nothing.

Abstraction: texts are classes (`plain`, `claim`, `empty`, ...), a knowledge
result is its routing decision (none, single, ambiguous), an evidence object
is the query that found it plus whether its source changed since.  Intervals,
keys, drafts and identities are model values.  The Pi loop is external and
modelled from how `src/index.ts` uses it: tool calls run one after another,
`tool_execution_start` precedes `beforeToolCall`, a blocked call ends with an
error, `shouldStopAfterTurn` follows a turn with tools and may follow one without.

Sessions: a new token is one nobody holds; an expired row is deleted as the code
does.  Console: the list shows one booking, the bookings of the form are not
listed in it, and a render takes effect at once.

## Runs

| Run | Question | Instance |
| --- | --- | --- |
| `routing` | one reply per message, one conversation per customer, settled rows never rewritten, 200 only for recorded messages, claimed messages settle, refinement of `MessageDelivery` | 2 messages of a customer, 2 handlers, 2 callbacks, 1 fault, 1 crash |
| `routing_overlap` | refutes "Node serializes active dispatch per conversation" | as above, no fault |
| `turn_grounding` | types and budgets; evidence in an answer is current; a deadline answer leaves nothing under way; every turn ends | 1 turn, 5 kinds of request, all tools, 2 Agent turns, 2 tool calls, fallback model |
| `turn_race` | announced side effects are durable; reservations exclude and are returned; an escalation is covered; sealed turns stay sealed | 2 turns of one conversation, tickets and handoffs, database failures |
| `turn_leak` | refutes "reservations are released for retry" | 1 turn |
| `booking` | server: no decision on a stale version, one booking per idempotency key, decisions have their author's authority, refinement of `BookingLifecycle`. Console: one booking per attempt, controls offered are those the server accepts, a refused version goes | 3 requests, an agent and a supervisor, 2 bookings, 1 key, 1 availability row, demotion, second membership, faults, crash; 2 consoles, 3 acts, 3 keys |
| `staff_races` | a card decides once and together with its claim; people are told what is and stays true; clicks have authority | 1 Staff user bound to either member at any time, 2 tasks, 2 clicks, 2 requests, 1 booking, demotion, second membership, every fault, crash |
| `wecom_contracts` | core: dispatch serialized, revoked senders not answered, refinement of `MessageDelivery`, claimed messages settle. Cards: refinement of `MessageDelivery` for cards, feedback and customer messages; a decided card leads to a message to the customer | 3 messages of 2 senders, 2 handlers, 1 conversation, every fault, crash; 1 task, 2 clicks, faults of the card's own writes |
| `console_session` | verified records are of the store shown; only the shell's own fetches end its session; the console settles | 2 users of 2 stores, 4 tokens, 3 acts, 1 change from outside, three pairs of views |
| `console_overwrite` | refutes "reload, do not silently retry/overwrite" | 2 consoles with the availability editor |
| `services` | registry and index agree and never deadlock; only sound processes serve; a run meets its own script; a gate's verdict is earned and final, a proof's journal understates nothing, what the harness accepts the database holds; requests act for their user; evidence is admitted and selected soundly; cached tokens are alive | nine parts, see `MCServices` |
| `access_conflict` | refutes "existing `conversation_conflict` unchanged" | 2 requests, 2 customers, 1 conversation |

`routing_overlap` and `wecom_contracts` ask the same of the two ingress paths: the core
keeps the contract's promise to serialize dispatch, the live path does not.

Bounds.  Two handlers, turns, clicks, writers, processes or requests suffice for
every race in the code: each lock, reservation and unique key is contended by pairs.
One fault and one crash reach every recovery branch of `routing`, and a second fault
only repeats a branch; elsewhere any number may happen (`Faulty` names the statements
that may fail, "process" the crash).  Two tool calls and two Agent turns reach the
over-budget branches of both limits (6 and 4 in the code).  Calls after the
first one over the budget are blocked alike and are not taken.  `Command` is
what requests may ask: it holds transitions with current, stale and future
versions, with and without an interval.  `NewRole`, `NewRows`, `Mover` and
`MaxChanges` bound what operators do to memberships.  A booking has at most one card
(its version 1), and two tasks leave room for a second one.  In `StaffBooking` a
member bound to two Staff users is in the model and not in an instance: it makes
the recipient ambiguous and no card is sent.  `Change` is the binding disabled and
restored, so that rechecks meet both.  `Focus` limits a behaviour of a console to
some views or controls, in every combination that shares a lifecycle.  The registry has
two documents of two versions with one and two chunks, and batches that name them in
opposite orders.  The gates have one case to answer and one to abstain from, two
starts beside one another, one crash and one move of the checkout; `Singles` is 48
so that a rate threshold can be missed by one.  Token windows of two ticks stand for
60 s and 5 min against timeouts of 4 s.  The selector is offered one, three and one
candidate too many.  Symmetry is used in runs without liveness.

Fairness.  `CustomerRouting`: every handler keeps taking steps, because each
awaited call answers, fails or times out, and PostgreSQL grants row locks
eventually.  `SupportTurn`: only time, timers, and answers of database
writes; nothing is assumed of the model, of retrieval or of duplicate lookups,
so that `TurnSettles` rests on the deadline race alone.  `StaffBooking`:
callbacks keep taking steps (statements answer or fail, sends time out), nothing
is assumed of requests, of WeCom or of clicks.  `WeComCore`: handlers keep taking
steps; that `resolveConversation`, `respond` and `send` end is what their
implementer must provide, since the core has no timeout of its own.
`ConsoleSession`: a fetch is answered or fails, and React runs the effects of a
render; people need not act.

Deadlock is not checked: callbacks, requests, clicks, messages and turns are bounded,
so every instance stops when they are used up.

## Divergences found

The four violation runs, `findings` in PROJECT.json:

* `routing_overlap`: two handlers dispatch one conversation into the runtime together.
* `turn_leak`: a reservation made by a lookup that outlives the deadline is not returned.
* `console_overwrite`: the availability editor keeps the windows it was mounted with
  but saves with the newest version, so another person's save is undone.
* `access_conflict`: `handleRequest` returns the promise of its handlers without
  awaiting it, so a conversation conflict leaves the `try` that would answer 409; the
  rejection is caught nowhere and Node ends the process.

Described here and not the subject of a run: an accepted send whose answer lacks a
msgid is recorded as `outbound_send_failed`, which `failure-runbooks.md:92` reads as a
rejection (client.ts:152); a safety escalation may be announced on another turn's
reservation whose write then fails (index.ts:861, against
`PERSISTENT_BUSINESS_BOUNDARY.md:45`).

Met while modelling, and not claimed as findings: an error on the last allowed
Agent turn starts the fallback agent, one turn over the limit; `notifyCustomer`
reads the booking's status two awaits before the message that carries it; a
second membership inserted during a decision is not seen by it, because FOR SHARE
does not lock rows that do not exist yet (`AddMembership` has it).  In the console,
writes of the StoreOps views act on 401 and 403 without a lifecycle check, so a late one
can end a newer login, as can a late answer to a logout; the reload after a save
ignores a 401; the lists are not compared with the page's scope; a demoted
supervisor's Needs Attention view asks and is refused without end (the session object
is new each time), which `ConsoleSettles` excuses by name.  A half-made
seed makes every later start refuse the database, and a start that fails leaves its
pool open (application.ts:292, 318).  A gate that dies between its manifest and its
journal leaves an attempt no start accepts, and two overlapping gates may ask an
invocation twice.  A token refused twice stays cached.

## Proofs

`CustomerRoutingProofs` proves, for any sets of messages, customers, handlers and
batches and any bounds, from the assumptions `RoutingAssumption` and `NoneIsNoError`
(an absent error is not an error category):

* `TypeCorrect`: `Spec => []TypeOK`.
* `RoutingInvariant`: `TypeOK`, at most one handler at a message
  (`ExclusiveClaim`), what each position of a handler implies for its row and
  its request (`HandlerInv`), and what each row implies for the replies WeCom
  accepted (`MessageInv`).  `AtMostOneReply` alone is not inductive: it needs
  that a handler about to POST is alone and that its previous request was refused.
* `AtMostOneReplyHolds`, and `RoutingRefinesDelivery`: `Spec => DeliverySpec`.
* `OutcomeStandsHolds`: the settled rows are out of reach of every statement, because a
  handler that has got past its claim is alone at a row that is being processed.
* `AckedIsRecordedHolds`: rows are never absent again, and a callback's frame says
  which of its messages already have one.
* `OneConversationHolds`: the strengthening says that a conversation a transaction is
  about to create or attach is the customer's, which needs that only the holder of the
  channel row is between reading and writing the bindings.

One lemma per helper and action; steps of a handler touch only its own frame
and row, so the invariant of every other handler follows from locality lemmas.

`StaffBookingProofs` first proves of the server alone (`BookingIntents`), from
`BookingAssumption`, for any members, bookings, keys, commands and requests:

* `TypeCorrect`.  `StepShapes` classifies every step by what it does to the
  bookings and the history (a creation, a transition, an availability write, or
  none of them), and the other proofs go through it.
* `NoLostUpdateHolds`, from `VersionInv`: a booking's version is one more than its
  transitions, and each version has one decision behind it.
* `AuthorityHolds`: `DecisionsHaveAuthority`, from `AuthorityInv`: while a
  request holds its membership FOR SHARE the role it read is the role there is.
* `KeyOpensOneBookingHolds`: rows of one key are one row, and a reply names a live
  row that fits the request.
* `BookingRefinesLifecycle`: `Spec => LifecycleSpec`; it needs that a booking that
  never was confirmed has no agreed interval.

and then of `StaffBooking`, from `StaffAssumption` as well, for any members, Staff users,
tasks, clicks and requests, whatever statements fail:

* `StaffTypeCorrect`, and that the server's theorems survive the cards:
  `StaffRefinesLifecycle`, `StaffLosesNoUpdate` and `StaffAuthorityHolds`.  A click's
  transaction is one more step of the shapes of the server alone; the authority
  of a click needs `ClickAuthorityInv`, that the member behind it held the role when its
  transaction began and still holds it.
* `CardDecidesOnceHolds`, from `CardInv` and `DecideInv`: a card is about version 1 of its
  booking, the only version at which a booking is pending, so a second decision by card
  meets a newer version.
* `PeopleAreToldTheTruthHolds`, from `TruthInv`: what is stored to be sent, is under way
  or has been shown agrees with a row that can only move along the lifecycle.
* `StaffKeepsDelivery`: each pair of a task and a kind (card, feedback, customer) is a
  delivery of its own that implements `MessageDelivery` (`DeliverySpec`, which the run
  `wecom_contracts` checks as `CardDeliverySpec`).  `CellInv` says who may be
  sending it: at most one frame, whose post is the only one WeCom can have.

`SupportTurnProofs` proves, from `TurnAssumption`, for any turns, conversations, queries,
tool calls and limits:

* `TurnTypeCorrect`: the turns of a frame stay within `TurnBudget` and one (an error on
  the last turn starts the fallback agent), with an upper bound that the code's check
  `turns >= maxTurns` gives only with what the agent's position implies.
* `EvidenceIsCurrentHolds`, `DeadlineAnswerIsQuietHolds`, `ClaimsAreDurableHolds`: what is
  judged at the end is a matter of the frame, so the invariant follows a frame through
  `Working` (before its deadline), `Closed` (its evidence fixed) and `Done`.
* `ReservationsAreSoundHolds`: `TicketInv`, `HandoffInv` and `WriteInv` say who can have
  made each reservation and each write, and that an open turn with a key it has not
  written holds its reservation.
* `EscalationIsCoveredHolds`, under `RealPolicy`: the hypothesis is needed.  Without the
  real policy a turn whose own handoff failed still returns its escalation, after it has
  given the reservation back, and TLC shows that run; `pi-runtime.ts:104` sets it.
* `SealedIsFinalHolds`: every step is a step of one turn (`Local`) or a write returning,
  and what they may do to a sealed frame is to take a key or a handoff back.

Most of the 50 ways a turn can go on touch only its own frame: `StepCases` reduces them
to a dozen shapes, and the parts about shared state are proved of the shapes.

`ConsoleSessionProofs` proves, from `ConsoleSessionAssumption`, for any users, stores,
roles and tokens (there is at least one token):

* `ConsoleTypeCorrect`, which includes what the page of each view can hold.
* `ProofIsOfShownStoreHolds`: what is on screen and verified was read by the shell on
  screen, and a shell's store does not change.
* `OnlyOwnAnswersEndSessionHolds`, from `OwnOK`: the reads and the support call under way
  belong to the shell shown, because a shell that goes takes its lifecycles with it.

`StoreOpsProofs` proves, from `ConsoleAssumption`, for any people, drafts and keys, of the
consoles (what the server does alone is in `StaffBookingProofs`):

* `StoreOpsTypeCorrect`.
* `OneBookingPerAttemptHolds`, from `AttemptInv`: what a person has asked for is known to
  the form, to the writes under way and to the bookings (`Asks`), and in all three places
  one attempt has one draft and one key, and a key belongs to one attempt of one person.
* `OffersMatchServerHolds`: the console's table of permitted actions and the server's
  checks agree in every role and status.
* `RefusedVersionGoesHolds`, from `ShownOK`, `RowWritesOK` and `ConflictOK`.  The property
  alone is not inductive: a read that counts might bring the refused version back.  It
  cannot, since no console shows a version of the future and of the current one it
  shows the truth, so that a transition it asked for is refused only for a version
  that is gone.

Most operations of a console are `Tame`: they ask for nothing new and keep a console in
order whatever the row of the server is.  The few that are not have steps of their own.

`ServicesProofs` proves, each of its own part's specification and from that part's
assumption in `Services`:

* `AccessRequestsHold`, for any users, tokens, requests, stores and membership changes, from
  `AccessInv`: what a request has read of its session and of its user's memberships was
  true since it was sent (`AuthorityOK`), the rows of conversations only grow, and the
  process remembers them as they were created (`RememberedOK`).  The property alone says
  nothing of a request between its two lookups.
* `TokensHold`, for any calls, times and windows of at least two timeouts, from `TokensInv`:
  where each call is bounds the age of the token it may hold, and the cache holds only
  tokens that were handed out.
* `EvidenceAdmissionHolds`, for any libraries, queries, turns and candidates, from
  `EvidenceInv` (what the last search found is all knowledge or every entry of its risks)
  and `SelectorInv` (each question's state, in either order of the candidates).
* `StartupServesSound` and `StartupRunsOnOwnScript`, for any processes, requests, people,
  environments and number of migrations, from `StartupInv`.  A process that creates rows has
  every missing row still to do (`GraphOK`): for a legacy graph, because each membership it
  checked references its user and all tenants and stores (`Closed`).  The run at the head of
  a chain holds its own responses, unless its client left and the runtime was closed
  (`ChainOK`); a run that waits is in the chain.

* `RegistryHolds`, an invariant and three action properties, for any documents, versions,
  batches, writers and searches, from `RegistryInv`.  What a registration is about to commit
  fits the rows it has locked (`PutsOK`), its locks are of smaller ids than those it has yet
  to take (`RegisterOK`: two that wait for each other would be ordered both ways), and what
  is embedded is locked and active (`EmbedOK`).  That the best chunk of a document and an
  order of the candidates exist at all (`FiniteFirst`, `FiniteLists`) is proved from the
  well-foundedness of finite sets, since `BestOf`, `Ranked` and `Sorted` are choices.
  Similarities are natural numbers; only their order matters.

A step of one process leaves the others in order because rows and ledger only grow, except
for who holds the ledger (`ProcessStands`); a step of one request leaves the chain of the
others (`ChainGrows`, `ChainShrinks`).

`VerdictsProofs` proves `VerdictHolds`, that the specifications of the three parts imply
`VerdictIsEarned`, from `GateAssumption`, `ProofAssumption` and `HarnessAssumption` of
`Verdicts` (None is no file, line or commit; a gate that stops judges; a call of the
service writes finitely many rows):

* For any gates, populations, outcomes, commits, processes and crashes, from `GateInv`:
  every line of a journal is of the manifest's commit, and a draft or report that passed is
  earned by its own lines (`GateProcOK`, `FilesOK`), whoever appends beside it.  While no
  two processes have overlapped, what the process knows is what the journal answers, a
  gate that stops has stopped at a failed line (`AloneOK`), and an invocation asked once
  more than answers were lost is answered in the journal or about to be (`CountsOK`).
  Neither `AskedOnce` nor `InfrastructureIsFinal` is inductive without the last two.  A line
  appended to a torn one is read with it as one garbled line (`GluedAppend`), which leaves
  the whole lines what they were (`KeptLines`).
* For any number of cases, from `ProofInv`: each case the process has come to has its
  reservation in the file, each pass it counts has its line there (`Reserves`, `Records`), and
  where it is says how many those are (`Progress`).  Once a write failed (`unjournaled`) the
  file grows no more and still accounts for what was dispatched.
* For any suites, responses and expectations, from `HarnessInv`: the report under way and
  the receipt of a finished one hold what was declared and what the service did
  (`UnderWay`, `Ended`), and a report that was edited counts only if it still is its receipt.
  What is accepted has one measurement and one read of the store for each expectation, and
  every read is of the same store (`Lookups`), as the run has ended.

`WeComCoreProofs` proves, from `CoreAssumption`, for any messages, subjects,
identities, conversations and handlers, whatever statements fail:

* `TypeCorrect`, and `CoreKeepsPromise`: `Spec => DeliverySpec`, from `ReplyInv`:
  no two calls are at one message (`Exclusive`), what each phase of a call
  implies for its row and its reply (`CallInv`), and what each row implies for
  its reply (`RowInv`).  Without `CallInv` a finish could settle a row whose reply
  is still under way.
* `DispatchSerialized`: `DispatchIsSerialized`, from `SerialInv`: while a call holds
  its conversation nothing conflicts with it (`LockInv`).
* `AuthorityHolds`: `ActsUnderAuthority`, from `SeenInv`: a call past the recheck
  has an identity that was current after `respond` returned.

`Enters` and `Writes` say once what any step of a call does to the call and to the
rows; the invariants are proved from them rather than from each action.

The type invariants of `CustomerRouting`, `BookingIntents`, `StaffBooking` and `WeComCore`
are proved and therefore are not repeated in a run.

Every invariant and action property of the passing runs is a theorem.  Only model-checked:
liveness (`ClaimSettles`, `TurnSettles`, `DecisionIsReported`, `ConsoleSettles`), which is out
of the prover's reach.

## Plan

All parts of the first plan are modelled, and what the runs check of them is proved except
liveness.  What could still be proved is that the consoles of `StoreOps` stay in order
beside the real server of `BookingIntents`, instead of its transactions taken whole.

## Not modelled

Text matching (safety phrases, FAQ, policy cues), prompt and message wording,
the Pi transcript, HTTP parsing and cookies, cryptography of callbacks, the
embedding service, layout, and deployment.  The evaluation sets and their
runners are frozen cases over pure functions; the portfolio demo is one
sequential program.  `ApprovedSafetyRetrievalService` is composed by evaluations only.
A crash of the process inside a support turn is not an action of `SupportTurn`: the
in-memory store starts empty and the database is whatever earlier processes left,
which `Init` covers.  In `BookingIntents`, lookups that only answer not_found
(conversation, preferred staff, scope) are left out, and the channel binding in a
creation's hash is null as in the running server.  In `StaffBooking`, the wire
format of cards is left out, bindings are not disabled (the code has no operation
that does), and `sendCard` starts in the step that answers `notify`'s transaction.
In `WeComCore`, parsing and hashing of the input are left out: a duplicate and a
conflicting payload both change nothing.  In `EnterpriseStartup`, the race of two first
starts to create the ledger table itself is left out.  In `EnterpriseAccess`, an
invalid body is one of the failures of `Fails`.
