--------------------------- MODULE ConsoleSession ---------------------------
(***************************************************************************)
(* The session of the web console (web/src/App.tsx, session.ts) and the    *)
(* server's sessions behind it (src/enterprise/auth.ts): one browser tab,  *)
(* the cookie it shares with the other tabs, the fetches it has under way, *)
(* and answers that arrive in any order.  An effect or a handler of React  *)
(* runs to its next await in one step; "dirty" says that the authenticated *)
(* shell rendered again, which hands the StoreOps views a new actor object *)
(* and so makes their effects run again.                                   *)
(***************************************************************************)
EXTENDS Naturals

CONSTANTS
  User, Store, HomeStore, \* HomeStore[u]: the store of u's membership
  InitialRole,
  Token,                  \* session tokens
  Focus,                  \* bound: the sets of views a behaviour may look at
  NewRole,                \* bound: what an operator makes of a role; None: no single membership
  Lossy,                  \* bound: the kinds of fetch that may fail; "body": an answer cut short
  MaxActs, MaxChanges,    \* bounds: acts of the user; changes by anyone else
  None

Role == {"agent", "supervisor", "admin"}
View == {"business", "audit", "board", "bookings", "knowledge", "attention"}
\* The views whose effect depends on the actor object, new at every render.
ActorViews == {"bookings", "knowledge", "attention"}
Phase == {"bootstrapping", "authenticating", "unauthenticated", "session-invalidated",
          "authenticated", "authorization-error"}

ASSUME ConsoleSessionAssumption ==
  /\ HomeStore \in [User -> Store] /\ InitialRole \in [User -> Role]
  /\ Focus \subseteq SUBSET View
  /\ NewRole \subseteq Role \cup {None}
  /\ Token # {} /\ None \notin User \cup Store \cup Role \cup Token
  /\ {MaxActs, MaxChanges} \subseteq Nat

VARIABLES
  member,    \* the role of each user's only membership, None if there is not exactly one
  sessions,  \* auth_sessions: the user of each token, None when there is no row
  lapsed,    \* the tokens past their expiresAt
  cookie,    \* the session cookie of the browser
  tab,       \* the React state of the tab and the fetches whose answers still count
  acts, changes,
  bodyLost   \* history: the body of an identity answer was cut short

vars == <<member, sessions, lapsed, cookie, tab, acts, changes, bodyLost>>

-----------------------------------------------------------------------------
(* Authority: what roles may do, and what the server answers.              *)

CapabilitiesForRole(r) ==
  CASE r = "agent" -> {"agent:invoke", "conversation:read", "storeops:read"}
    [] r = "supervisor" -> {"agent:invoke", "conversation:read", "storeops:read"}
    [] r = "admin" -> {"agent:invoke", "conversation:read", "audit:read", "storeops:read"}

\* The views among vs that a shell of role r loads.
CanViewNeedsAttention(r) == "storeops:read" \in CapabilitiesForRole(r) /\ r # "agent"
ShouldLoadAuditProof(r) == "audit:read" \in CapabilitiesForRole(r)
Loads(vs, r) ==
  {v \in vs : CASE v = "business" -> TRUE
                  [] v = "audit" -> ShouldLoadAuditProof(r)
                  [] v = "attention" -> CanViewNeedsAttention(r)
                  [] OTHER -> "storeops:read" \in CapabilitiesForRole(r)}

\* resolveExecutionContext; an expired row is deleted when it is found.
Resolved(t) ==
  IF t = None \/ t \in lapsed THEN None
  ELSE IF sessions[t] = None \/ member[sessions[t]] = None THEN None ELSE sessions[t]
Looked(t) == IF t \in lapsed THEN [sessions EXCEPT ![t] = None] ELSE sessions

\* The capability each route asks for.
NeededCapability(v) ==
  CASE v = "business" -> "conversation:read" [] v = "audit" -> "audit:read" [] OTHER -> "storeops:read"

\* The GET routes of storeOps; of them one is refused to agents by name.
ListNeedsAttention(r) == r # "agent"
StoreOpsAllows(v, r) == v = "attention" => ListNeedsAttention(r)

\* readBusiness and authenticatedContext
ReadStatus(v, t) ==
  LET u == Resolved(t)
  IN  IF u = None THEN 401
      ELSE IF NeededCapability(v) \in CapabilitiesForRole(member[u]) /\ StoreOpsAllows(v, member[u])
        THEN 200 ELSE 403
SupportStatus(t) ==
  IF Resolved(t) = None THEN 401
  ELSE IF "agent:invoke" \notin CapabilitiesForRole(member[Resolved(t)]) THEN 403 ELSE 200

-----------------------------------------------------------------------------
(* The tab.                                                                *)

Page(phase, u, r, shell) == [phase |-> phase, user |-> u, role |-> r, shell |-> shell]
HasContext(page) == page.phase \in {"authenticated", "authorization-error"}
Shown(status, of) == [status |-> status, of |-> of]
Closed == [v \in View |-> Shown("closed", {})]

\* shell: history, the shell that sent the fetch.
Fetch(kind, v, t, s) ==
  [kind |-> kind, view |-> v, token |-> t, asks |-> None, status |-> None, value |-> None,
   shell |-> s.page.shell]
Answered(q) == [tab EXCEPT !.net = @ \ {q}]

\* Mutant: unmounting does not invalidate the lifecycle.
InvalidatedNever(net, vs) == net
\* The lifecycles of the views vs are invalidated: no answer to an earlier read counts.
Invalidated(net, vs) == {q \in net : q.kind # "read" \/ q.view \notin vs}
\* SupportWorkspace unmounts: its lifecycle lets no answer through.
SupportInvalidated(net) == {q \in net : q.kind # "support"}

Begin(s, vs) ==
  [s EXCEPT !.views = [v \in View |-> IF v \in vs THEN Shown("loading", {}) ELSE @[v]],
            !.net = Invalidated(@, vs) \cup {Fetch("read", v, cookie, s) : v \in vs}]

Unmounted(s) ==
  [s EXCEPT !.views = Closed, !.dirty = FALSE, !.supporting = FALSE, !.dated = FALSE,
            !.net = SupportInvalidated(Invalidated(@, View))]

\* The effects of a new shell send every read and set the proofs to loading,
\* which renders it again.
Mounted(s) == [Begin(s, Loads(s.focus, s.page.role)) EXCEPT !.dirty = TRUE]

\* setSession in App: the shell's key is the user and the scope.
SetSession(s, phase, u, r) ==
  LET same == HasContext(s.page) /\ s.page.user = u
  IN  IF u = None THEN [Unmounted(s) EXCEPT !.page = Page(phase, None, None, @.shell)]
      ELSE IF same THEN [s EXCEPT !.page = Page(phase, u, r, @.shell), !.dirty = TRUE]
      ELSE Mounted([Unmounted(s) EXCEPT !.page = Page(phase, u, r, @.shell + 1)])

OnSessionInvalidated(s) ==
  IF HasContext(s.page) THEN SetSession(s, "session-invalidated", None, None) ELSE s
OnAuthorizationError(s) ==
  IF HasContext(s.page) THEN SetSession(s, "authorization-error", s.page.user, s.page.role) ELSE s
Refused(s, status) ==
  CASE status = 401 -> OnSessionInvalidated(s) [] status = 403 -> OnAuthorizationError(s) [] OTHER -> s

Display(s, v, status, of) == [s EXCEPT !.views[v] = Shown(status, of)]
Rendered(s) == [s EXCEPT !.dirty = TRUE]

\* refreshBusinessProof up to its await.
RefreshBusinessProof(s) == Rendered(Begin(s, {"business"} \cap s.focus))

\* Mutant: the effect of the business proof depends on the actor object too.
EffectsOfEveryView(s) == [Begin(s, Loads(s.focus, s.page.role)) EXCEPT !.dirty = TRUE]
\* The effects of the new render: those of the views that got a new actor, and
\* those of views that a change of role mounts, enables or takes away.
Effects(s) ==
  LET loads == Loads(s.focus, s.page.role)
      gone == View \ loads
      started == {v \in loads : v \in ActorViews \/ s.views[v].status = "closed"}
      kept == [s EXCEPT !.views = [v \in View |-> IF v \in gone THEN Closed[v] ELSE @[v]],
                        !.net = Invalidated(@, gone)]
  IN  [Begin(kept, started) EXCEPT !.dirty = "audit" \in started]

-----------------------------------------------------------------------------
Init ==
  /\ member = InitialRole /\ lapsed = {}
  /\ \E u \in User \cup {None}, focus \in Focus :
     LET t == CHOOSE x \in Token : TRUE IN
       /\ sessions = [[x \in Token |-> None] EXCEPT ![t] = u]
       /\ cookie = IF u = None THEN None ELSE t
       /\ tab = [page |-> Page("bootstrapping", None, None, 0), views |-> Closed, dirty |-> FALSE,
                 supporting |-> FALSE, dated |-> FALSE, focus |-> focus,
                 net |-> {[kind |-> "me", view |-> None, token |-> IF u = None THEN None ELSE t,
                           asks |-> None, status |-> None, value |-> None, shell |-> 0]}]
  /\ acts = 0 /\ changes = 0 /\ bodyLost = FALSE

Acts == acts < MaxActs /\ acts' = acts + 1 /\ UNCHANGED <<member, sessions, lapsed, cookie, changes, bodyLost>>
Counters == <<acts, changes, bodyLost>>

\* The login form, with the password of u or (None) a wrong one.
LoginSubmit(u) ==
  /\ Acts /\ tab.page.phase \in {"unauthenticated", "session-invalidated"}
  /\ tab' = [SetSession(tab, "authenticating", None, None) EXCEPT
               !.net = @ \cup {[Fetch("login", None, cookie, tab) EXCEPT !.asks = u]}]

\* onLogout: the shell is gone before the server has heard of it.
Logout ==
  /\ Acts /\ HasContext(tab.page)
  /\ tab' = [SetSession(tab, "unauthenticated", None, None) EXCEPT
               !.net = @ \cup {Fetch("logout", None, cookie, tab)}]

SupportSubmit ==
  /\ Acts /\ HasContext(tab.page) /\ ~tab.supporting
  /\ tab' = [tab EXCEPT !.supporting = TRUE, !.net = @ \cup {Fetch("support", None, cookie, tab)}]

\* The passive effects of the last render run.
Flush ==
  /\ tab.dirty /\ HasContext(tab.page)
  /\ tab' = Effects(tab)
  /\ UNCHANGED <<member, sessions, lapsed, cookie, Counters>>

\* Tokens nobody holds; which of them randomBytes yields makes no difference.
Unused == {t \in Token : /\ sessions[t] = None /\ t \notin lapsed /\ t # cookie
                         /\ \A q \in tab.net : t \notin {q.token, q.value}}
NewToken == CHOOSE t \in Unused : TRUE

Serve(q, status, value) ==
  /\ q.status = None
  /\ tab' = [tab EXCEPT !.net = (@ \ {q}) \cup {[q EXCEPT !.status = status, !.value = value]}]
  /\ UNCHANGED <<member, lapsed, cookie, Counters>>

\* EnterpriseAuthService.login.
ServeLogin(q) ==
  /\ q.kind = "login"
  /\ \/ q.asks = None /\ Serve(q, 401, None) /\ UNCHANGED sessions
     \/ /\ q.asks # None /\ Unused # {} /\ Serve(q, 200, NewToken)
        /\ sessions' = [sessions EXCEPT ![NewToken] = q.asks]

\* EnterpriseAuthService.logout, of the token the cookie held when it was sent.
ServeLogout(q) ==
  /\ q.kind = "logout" /\ Serve(q, 204, None)
  /\ sessions' = IF q.token = None THEN sessions ELSE [sessions EXCEPT ![q.token] = None]

\* The answer to a login: the browser stores the cookie, then bootstrapSession.
DeliverLogin(q) ==
  /\ q.kind = "login" /\ q.status # None
  /\ IF q.status = 200
       THEN cookie' = q.value /\ tab' = [Answered(q) EXCEPT !.net = @ \cup {Fetch("me", None, q.value, tab)}]
       ELSE UNCHANGED cookie /\ tab' = SetSession(Answered(q), "unauthenticated", None, None)
  /\ UNCHANGED <<member, sessions, lapsed, Counters>>

DeliverLogout(q) ==
  /\ q.kind = "logout" /\ q.status # None
  /\ cookie' = None
  /\ tab' = SetSession(Answered(q), "unauthenticated", None, None)
  /\ UNCHANGED <<member, sessions, lapsed, Counters>>

\* bootstrapSession: whatever page is shown by now, the answer sets the session.
DeliverMe(q) ==
  /\ q.kind = "me"
  /\ LET u == Resolved(q.token)
     IN  tab' = IF u = None THEN SetSession(Answered(q), "unauthenticated", None, None)
                ELSE SetSession(Answered(q), "authenticated", u, member[u])
  /\ sessions' = Looked(q.token)
  /\ UNCHANGED <<member, lapsed, cookie, Counters>>

\* response.json() of identityContext throws: nothing sets the session.
LoseBody(q) ==
  /\ "body" \in Lossy /\ q.kind = "me" /\ Resolved(q.token) # None
  /\ tab' = Answered(q) /\ bodyLost' = TRUE
  /\ UNCHANGED <<member, sessions, lapsed, cookie, acts, changes>>

\* A read is answered: the server resolves the cookie it was sent with.  The
\* records of the store it finds may be none.
Read(q, v) ==
  /\ q.kind = "read" /\ q.view = v
  /\ sessions' = Looked(q.token)
  /\ UNCHANGED <<member, lapsed, cookie, Counters>>
Records(t) == {{}, {HomeStore[Resolved(t)]}}

\* Mutant: the scope of the records is not compared.
HasScopeUnchecked(records, page) == TRUE
\* parseTickets, parseHandoffs, parseAuditEvents: every record is of the scope shown.
HasScope(records, page) == \A store \in records : HasContext(page) /\ store = HomeStore[page.user]

ProofRead(q, v, records) ==
  LET status == ReadStatus(v, q.token)
      seen == IF status = 200 /\ HasScope(records, tab.page) THEN "verified" ELSE "unavailable"
  IN  Refused(Rendered(Display(Answered(q), v, seen, IF seen = "verified" THEN records ELSE {})), status)

DeliverBusiness(q) ==
  /\ Read(q, "business")
  /\ \E records \in IF Resolved(q.token) = None THEN {{}} ELSE Records(q.token) :
       tab' = ProofRead(q, "business", records)

DeliverAudit(q) ==
  /\ Read(q, "audit")
  /\ \E records \in IF Resolved(q.token) = None THEN {{}} ELSE Records(q.token) :
       tab' = ProofRead(q, "audit", records)

StoreOpsRead(q, v) ==
  LET status == ReadStatus(v, q.token)
      seen == CASE status = 200 -> "ready" [] status = 403 -> "forbidden" [] OTHER -> "unavailable"
  IN  Refused(Display(Answered(q), v, seen, {}), status)

\* The board corrects its date once, from the time zone the server answers.
DeliverBoard(q) ==
  /\ Read(q, "board")
  /\ \/ tab' = StoreOpsRead(q, "board")
     \/ /\ ~tab.dated /\ ReadStatus("board", q.token) = 200
        /\ tab' = [Begin(Answered(q), {"board"}) EXCEPT !.dated = TRUE]

DeliverBookings(q) == Read(q, "bookings") /\ tab' = StoreOpsRead(q, "bookings")
DeliverKnowledge(q) == Read(q, "knowledge") /\ tab' = StoreOpsRead(q, "knowledge")
DeliverAttention(q) == Read(q, "attention") /\ tab' = StoreOpsRead(q, "attention")

\* submitSupportRequest: a completed turn refreshes the business proof.
DeliverSupport(q) ==
  /\ q.kind = "support"
  /\ LET s == [Answered(q) EXCEPT !.supporting = FALSE]
         status == SupportStatus(q.token)
     IN  tab' = IF status = 200 THEN RefreshBusinessProof(s) ELSE Refused(s, status)
  /\ sessions' = Looked(q.token)
  /\ UNCHANGED <<member, lapsed, cookie, Counters>>

\* The connection breaks, before the server has heard of the fetch or after, or
\* the server fails: the catch blocks and the answers that are not ok.
Fail(q) ==
  /\ q.kind \in Lossy
  /\ LET s == Answered(q)
     IN  tab' = CASE q.kind \in {"login", "logout", "me"} -> SetSession(s, "unauthenticated", None, None)
                  [] q.kind = "support" -> [s EXCEPT !.supporting = FALSE]
                  [] q.kind = "read" /\ q.view \in {"business", "audit"} -> Rendered(Display(s, q.view, "unavailable", {}))
                  [] OTHER -> Display(s, q.view, "unavailable", {})
  /\ UNCHANGED <<member, sessions, lapsed, cookie, Counters>>

Deliver(q) ==
  \/ DeliverLogin(q) \/ DeliverLogout(q) \/ DeliverMe(q) \/ DeliverSupport(q)
  \/ DeliverBusiness(q) \/ DeliverAudit(q) \/ DeliverBoard(q)
  \/ DeliverBookings(q) \/ DeliverKnowledge(q) \/ DeliverAttention(q)

\* The membership of u is changed, a session expires, and another tab signs in or out.
Change == changes < MaxChanges /\ changes' = changes + 1 /\ UNCHANGED <<tab, acts, bodyLost>>
SetRole(u, r) == Change /\ member' = [member EXCEPT ![u] = r] /\ UNCHANGED <<sessions, lapsed, cookie>>
Lapse(t) ==
  /\ Change /\ sessions[t] # None /\ lapsed' = lapsed \cup {t}
  /\ UNCHANGED <<member, sessions, cookie>>
OtherTabLogin(u) ==
  /\ Change /\ Unused # {}
  /\ sessions' = [sessions EXCEPT ![NewToken] = u] /\ cookie' = NewToken
  /\ UNCHANGED <<member, lapsed>>
OtherTabLogout ==
  /\ Change /\ cookie # None
  /\ sessions' = [sessions EXCEPT ![cookie] = None] /\ cookie' = None
  /\ UNCHANGED <<member, lapsed>>

Next ==
  \/ \E u \in User \cup {None} : LoginSubmit(u)
  \/ Logout \/ SupportSubmit \/ Flush
  \/ \E q \in tab.net : ServeLogin(q) \/ ServeLogout(q) \/ Deliver(q) \/ LoseBody(q) \/ Fail(q)
  \/ \E u \in User, r \in NewRole : SetRole(u, r)
  \/ \E t \in Token : Lapse(t)
  \/ OtherTabLogout \/ \E u \in User : OtherTabLogin(u)

\* Every fetch is answered or fails, and React runs the effects of a render.
\* Of the user and of other people nothing is assumed.
Answers == \E q \in tab.net : ServeLogin(q) \/ ServeLogout(q) \/ Deliver(q) \/ LoseBody(q) \/ Fail(q)
Fairness == WF_vars(Answers) /\ WF_vars(Flush)
Spec == Init /\ [][Next]_vars /\ Fairness

-----------------------------------------------------------------------------
(* Properties.                                                             *)

\* A ticket, a handoff or an audit event shown as verified belongs to the store
\* in the page's header, even when another tab has changed the cookie the reads
\* were sent with (loadScopedBusinessProof, loadScopedAuditProof).
ProofIsOfShownStore ==
  \A v \in {"business", "audit"} :
    tab.views[v].status = "verified" => tab.views[v].of \subseteq {HomeStore[tab.page.user]}

\* A session ends for "expired" only by an answer to a fetch of the shell that is
\* shown: what an earlier shell of this tab was refused does not end a newer login.
OnlyOwnAnswersEndSession ==
  [][HasContext(tab.page) /\ tab'.page.phase = "session-invalidated"
       => \E q \in tab.net : q \notin tab'.net /\ q.shell = tab.page.shell]_vars

\* "Restoring your secure session" and "Signing in" end, unless the body of the
\* identity answer is cut short, which nothing catches; and the reads of the
\* console come to rest, unless the server refuses the view of a role that was
\* taken away, again and again.
ConsoleSettles ==
  /\ tab.page.phase \in {"bootstrapping", "authenticating"}
       ~> (tab.page.phase \notin {"bootstrapping", "authenticating"} \/ bodyLost)
  /\ \/ <>[](tab.net = {} /\ ~tab.dirty)
     \/ []<>(tab.views["attention"].status = "forbidden")
=============================================================================
