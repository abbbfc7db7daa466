-------------------------- MODULE EnterpriseAccess --------------------------
(***************************************************************************)
(* From a session cookie to a run of the support agent: the identity       *)
(* repository, EnterpriseAuthService and EnterpriseSupportService          *)
(* (src/enterprise/auth.ts, identity.ts, business.ts, postgres.ts) under   *)
(* concurrent requests to /api/v1/support/respond.  Every awaited          *)
(* statement is a step; sessions, memberships and conversations may change *)
(* between any two.  handleRequest returns the promise of the handler      *)
(* without awaiting it, so what the handler throws is caught by nobody and *)
(* ends the Node process.                                                  *)
(***************************************************************************)
EXTENDS Naturals, FiniteSets

CONSTANTS
  User, Scope, Customer, Conversation, Token,
  Home,        \* Home[u]: the scope of u's membership at first
  Request,     \* support requests
  NewRows,     \* bound: the sets of memberships an operator gives a user
  Faulty,      \* whether statements may fail
  MaxChanges,  \* bound: logins, logouts, expiries and changes of memberships
  MaxBoots,    \* bound: processes after one another
  None

Role == {"agent", "supervisor", "admin"}
Membership == [scope : Scope, role : Role]

VARIABLES
  memberships,   \* the rows of each user
  sessions,      \* auth_sessions: the user of each token, None when there is no row
  lapsed,        \* the tokens past their expiresAt
  conversations, \* the rows: None, or scope, customer and Pi session
  remembered,    \* the InMemorySupportStore of the process: None, or scope and customer
  up, boots,     \* whether the process runs; how many there were
  requests, changes

identity == <<memberships, sessions, lapsed>>
vars == <<identity, conversations, remembered, up, boots, requests, changes>>

-----------------------------------------------------------------------------
(* The repository.                                                         *)

MembershipsOf(u) == memberships[u]

\* resolveExecutionContext: a user with no membership, or several, is nobody.
ContextOf(rows) == IF Cardinality(rows) = 1 THEN CHOOSE m \in rows : TRUE ELSE None

\* Mutant: the expiry of the session is not compared with the clock.
UnexpiredAlways(t) == TRUE
Unexpired(t) == t \notin lapsed

Capabilities(role) ==
  {"agent:invoke", "ticket:create"} \cup (IF role = "agent" THEN {} ELSE {"handoff:create"})
    \cup (IF role = "admin" THEN {"audit:read"} ELSE {})

\* runtimeRequest: scope and permissions come from the context alone.
RuntimeRequest(q) ==
  [conversation |-> q.conversation, customer |-> q.customer,
   scope |-> q.context.scope,
   mayEscalate |-> "handoff:create" \in Capabilities(q.context.role)]

Unsent ==
  [pc |-> "unsent", needs |-> "agent:invoke", token |-> None, user |-> None, context |-> None, conversation |-> None,
   customer |-> None, status |-> None, valid |-> FALSE, held |-> {}]
InFlight(q) == q.pc \notin {"unsent", "answered", "lost"}

Init ==
  /\ memberships = [u \in User |-> {[scope |-> Home[u], role |-> "agent"]}]
  /\ sessions = [t \in Token |-> None]
  /\ lapsed = {}
  /\ conversations = [v \in Conversation |-> None]
  /\ remembered = [v \in Conversation |-> None]
  /\ up = TRUE /\ boots = 1
  /\ requests = [r \in Request |-> Unsent] /\ changes = 0

-----------------------------------------------------------------------------
(* A support request, one action per await.                                *)

At(r, pc) == up /\ requests[r].pc = pc
Move(r, new) ==
  /\ requests' = [requests EXCEPT ![r] = new]
  /\ UNCHANGED <<up, boots, changes>>
Reached(q, pc) == [q EXCEPT !.pc = pc]
Answered(q, status) == [q EXCEPT !.pc = "answered", !.status = status]
Answer(r, status) == Move(r, Answered(requests[r], status))

\* A request to respond to a customer, or for the audit events of the store.
Asked ==
  [needs : {"agent:invoke"}, conversation : Conversation, customer : Customer]
    \cup {[needs |-> "audit:read", conversation |-> None, customer |-> None]}

\* "valid" and "held" are history: whether the session was good when the
\* request was sent, and the memberships its user has held since.
Sent(t, ask) ==
  LET u == IF t = None THEN None ELSE sessions[t] IN
  [pc |-> "session", needs |-> ask.needs, token |-> t, user |-> u, context |-> None,
   conversation |-> ask.conversation, customer |-> ask.customer, status |-> None,
   valid |-> t # None /\ u # None /\ t \notin lapsed,
   held |-> IF u = None THEN {} ELSE {ContextOf(memberships[u])}]

Send(r) ==
  /\ At(r, "unsent")
  /\ \E t \in Token \cup {None}, ask \in Asked : Move(r, Sent(t, ask))
  /\ UNCHANGED <<identity, conversations, remembered>>

FindSession(r) ==
  /\ At(r, "session")
  /\ LET t == requests[r].token IN
     IF t = None \/ (t # None /\ sessions[t] = None) THEN Answer(r, 401)
     ELSE IF Unexpired(t) THEN Move(r, [requests[r] EXCEPT !.pc = "membership", !.user = sessions[t]])
     ELSE Move(r, Reached(requests[r], "expired"))
  /\ UNCHANGED <<identity, conversations, remembered>>

\* The expired session is deleted before the request is refused.
DeleteExpired(r) ==
  /\ At(r, "expired")
  /\ sessions' = [sessions EXCEPT ![requests[r].token] = None]
  /\ Answer(r, 401)
  /\ UNCHANGED <<memberships, lapsed, conversations, remembered>>

\* findUserById (users are never deleted) and listMembershipsForUser.
FindMembership(r) ==
  /\ At(r, "membership")
  /\ LET found == ContextOf(MembershipsOf(requests[r].user)) IN
     IF found = None THEN Answer(r, 401)
     ELSE IF requests[r].needs \notin Capabilities(found.role) THEN Answer(r, 403)
     ELSE IF requests[r].needs = "audit:read" THEN Move(r, [requests[r] EXCEPT !.pc = "list", !.context = found])
     ELSE Move(r, [requests[r] EXCEPT !.pc = "conversation", !.context = found])
  /\ UNCHANGED <<identity, conversations, remembered>>

\* readBusiness: the rows of the caller's store.
ListAudit(r) ==
  /\ At(r, "list") /\ Answer(r, 200)
  /\ UNCHANGED <<identity, conversations, remembered>>

\* What the handler throws is an unhandled rejection: the process ends, and
\* with it every request it was serving.
Ends ==
  /\ up' = FALSE
  /\ remembered' = [v \in Conversation |-> None]
  /\ requests' = [r \in Request |-> IF InFlight(requests[r]) THEN Reached(requests[r], "lost") ELSE requests[r]]
  /\ UNCHANGED <<boots, changes>>

SameScope(row, q) == row.scope = q.context.scope
SameCustomer(row, q) == row.customer = q.customer

\* resolveConversation: the row that is there must be the caller's.
FindConversation(r) ==
  /\ At(r, "conversation")
  /\ LET row == conversations[requests[r].conversation] IN
     IF row = None THEN Move(r, Reached(requests[r], "create")) /\ UNCHANGED remembered
     ELSE IF SameScope(row, requests[r]) /\ SameCustomer(row, requests[r])
       THEN Move(r, Reached(requests[r], "run")) /\ UNCHANGED remembered
     ELSE Ends
  /\ UNCHANGED <<identity, conversations>>

\* conversations.id is the primary key.
Insertable(v) == conversations[v] = None

CreateConversation(r) ==
  /\ At(r, "create")
  /\ LET v == requests[r].conversation IN
     \/ /\ Insertable(v)
        /\ conversations' = [conversations EXCEPT ![v] =
             [scope |-> requests[r].context.scope, customer |-> requests[r].customer, pi |-> None]]
        /\ Move(r, Reached(requests[r], "run")) /\ UNCHANGED remembered
     \/ ~Insertable(v) /\ Ends /\ UNCHANGED conversations
  /\ UNCHANGED identity

\* getOrCreateSession of the runtime, which remembers whom a conversation is with.
Run(r) ==
  /\ At(r, "run")
  /\ LET q == RuntimeRequest(requests[r])
         known == remembered[q.conversation]
         binding == [scope |-> q.scope, customer |-> q.customer] IN
     \/ known \in {None, binding} /\ remembered' = [remembered EXCEPT ![q.conversation] = binding]
        /\ Move(r, Reached(requests[r], "store"))
     \/ known \notin {None, binding} /\ Ends
  /\ UNCHANGED <<identity, conversations>>

\* setConversationPiSession: the Pi session is this process's.
StorePiSession(r) ==
  /\ At(r, "store")
  /\ conversations' = [conversations EXCEPT ![requests[r].conversation].pi = boots]
  /\ Answer(r, 200)
  /\ UNCHANGED <<identity, remembered>>

\* A statement of the request fails, before or after it took effect.
Fails(r) ==
  /\ Faulty /\ up /\ InFlight(requests[r])
  /\ Ends
  /\ UNCHANGED <<identity, conversations>>

Restart ==
  /\ ~up /\ boots < MaxBoots
  /\ up' = TRUE /\ boots' = boots + 1
  /\ UNCHANGED <<identity, conversations, remembered, requests, changes>>

-----------------------------------------------------------------------------
(* Everybody else.                                                         *)

Change == changes < MaxChanges /\ changes' = changes + 1
          /\ UNCHANGED <<conversations, remembered, up, boots>>

\* randomBytes never yields a token somebody holds.
Login(u, t) ==
  /\ Change /\ up
  /\ sessions[t] = None /\ t \notin lapsed /\ \A r \in Request : requests[r].token # t
  /\ sessions' = [sessions EXCEPT ![t] = u]
  /\ UNCHANGED <<memberships, lapsed, requests>>

Logout(t) ==
  /\ Change /\ up /\ sessions[t] # None
  /\ sessions' = [sessions EXCEPT ![t] = None]
  /\ UNCHANGED <<memberships, lapsed, requests>>

Lapse(t) ==
  /\ Change /\ sessions[t] # None /\ t \notin lapsed
  /\ lapsed' = lapsed \cup {t}
  /\ UNCHANGED <<memberships, sessions, requests>>

SetMemberships(u, rows) ==
  /\ Change /\ memberships[u] # rows
  /\ memberships' = [memberships EXCEPT ![u] = rows]
  /\ requests' = [r \in Request |->
       IF InFlight(requests[r]) /\ requests[r].user = u
         THEN [requests[r] EXCEPT !.held = @ \cup {ContextOf(rows)}] ELSE requests[r]]
  /\ UNCHANGED <<sessions, lapsed>>

Next ==
  \/ \E r \in Request :
       \/ Send(r) \/ FindSession(r) \/ DeleteExpired(r) \/ FindMembership(r) \/ ListAudit(r) \/ FindConversation(r)
       \/ CreateConversation(r) \/ Run(r) \/ StorePiSession(r) \/ Fails(r)
  \/ Restart
  \/ \E u \in User, t \in Token : Login(u, t)
  \/ \E t \in Token : Logout(t) \/ Lapse(t)
  \/ \E u \in User, rows \in NewRows : SetMemberships(u, rows)

Spec == Init /\ [][Next]_vars

-----------------------------------------------------------------------------
(* Properties.                                                             *)

\* A run is of a conversation of the caller's store and of the customer it was
\* opened for, and what the runtime remembers of it agrees with the database,
\* although two requests may open the conversation at once (resolveConversation).
RunsInOwnScope ==
  /\ \A r \in Request : requests[r].pc \in {"run", "store"} =>
       LET q == RuntimeRequest(requests[r])
           row == conversations[q.conversation]
       IN row # None /\ row.scope = q.scope /\ row.customer = q.customer
  /\ \A v \in Conversation : remembered[v] # None =>
       /\ conversations[v] # None
       /\ remembered[v] = [scope |-> conversations[v].scope, customer |-> conversations[v].customer]

\* A request acts with a membership its user was alone to hold at some time since
\* the request was sent, and only when its session was good by then: an expired
\* session, a logout or a lost membership that came before the request is never
\* overlooked, however the reads of resolveExecutionContext interleave.
AuthorityIsRecent ==
  \A r \in Request : requests[r].context # None =>
    requests[r].valid /\ requests[r].context \in requests[r].held

\* "Version/idempotency/transition conflict ... existing `conversation_conflict`
\* unchanged", a 409 (ARCHITECTURE_CONTRACT.md:355): as long as no statement fails,
\* every request handleRequest takes is answered.
RefusalIsAnswered == \A r \in Request : requests[r].pc # "lost"
=============================================================================
