------------------------ MODULE ConsoleSessionProofs ------------------------
(* Proofs about ConsoleSession for every set of users, stores, tokens and  *)
(* views, however answers are delayed, lost and reordered.                 *)
EXTENDS ConsoleSession, TLAPS

-----------------------------------------------------------------------------
(* The state of a tab.                                                     *)

Pages == [phase : Phase, user : User \cup {None}, role : Role \cup {None}, shell : Nat]
Views == [View -> [status : {"closed", "loading", "verified", "ready", "forbidden", "unavailable"},
                   of : SUBSET Store]]
Fetches ==
  [kind : {"me", "login", "logout", "support", "read"}, view : View \cup {None},
   token : Token \cup {None}, asks : User \cup {None}, status : {None, 200, 204, 401},
   value : Token \cup {None}, shell : Nat]
Tabs ==
  [page : Pages, views : Views, dirty : BOOLEAN, supporting : BOOLEAN, dated : BOOLEAN,
   focus : SUBSET View, net : SUBSET Fetches]

\* A page with a context, and only such a page, is somebody's.
PageOK(page) == IF HasContext(page) THEN page.user \in User /\ page.role \in Role ELSE page.user = None

ProofOK(s) ==
  \A v \in {"business", "audit"} :
    s.views[v].status = "verified" => s.views[v].of \subseteq {HomeStore[s.page.user]}

\* The reads and the support request under way are those of the shell that is
\* shown: what an earlier shell asked was dropped when it was unmounted.
OwnOK(s) ==
  \A q \in s.net :
    /\ q.kind = "read" => q.view \in View
    /\ q.kind \in {"read", "support"} => q.shell = s.page.shell

Good(s) == s \in Tabs /\ PageOK(s.page) /\ ProofOK(s) /\ OwnOK(s)

ConsoleTypeOK ==
  /\ member \in [User -> Role \cup {None}]
  /\ sessions \in [Token -> User \cup {None}]
  /\ lapsed \subseteq Token
  /\ cookie \in Token \cup {None}
  /\ tab \in Tabs
  /\ acts \in Nat /\ changes \in Nat /\ bodyLost \in BOOLEAN

Inv == ConsoleTypeOK /\ Good(tab)

-----------------------------------------------------------------------------
(* What the operations of a tab preserve.                                  *)

LEMMA FetchShape ==
  ASSUME NEW kind \in {"me", "login", "logout", "support", "read"}, NEW v \in View \cup {None},
         NEW t \in Token \cup {None}, NEW s \in Tabs
  PROVE  /\ Fetch(kind, v, t, s) \in Fetches
         /\ Fetch(kind, v, t, s).kind = kind /\ Fetch(kind, v, t, s).view = v
         /\ Fetch(kind, v, t, s).shell = s.page.shell
BY DEF Fetch, Fetches, Tabs, Pages

LEMMA ShownShape ==
  ASSUME NEW status \in {"closed", "loading", "verified", "ready", "forbidden", "unavailable"},
         NEW of \in SUBSET Store
  PROVE  /\ Shown(status, of) \in [status : {"closed", "loading", "verified", "ready", "forbidden", "unavailable"},
                                   of : SUBSET Store]
         /\ Shown(status, of).status = status /\ Shown(status, of).of = of
BY DEF Shown

LEMMA BeginGood ==
  ASSUME NEW s, Good(s), NEW vs \in SUBSET View, cookie \in Token \cup {None}
  PROVE  Good(Begin(s, vs)) /\ Begin(s, vs).page = s.page /\ Begin(s, vs).focus = s.focus
<1> DEFINE views == [v \in View |-> IF v \in vs THEN Shown("loading", {}) ELSE s.views[v]]
           asked == {Fetch("read", v, cookie, s) : v \in vs}
           net == Invalidated(s.net, vs) \cup asked
<1>1. s \in Tabs /\ s.net \subseteq Fetches /\ s.views \in Views
  BY DEF Good, Tabs
<1>2. views \in Views /\ \A v \in View : views[v].status = "verified" => views[v] = s.views[v]
  <2>1. /\ Shown("loading", {}).status = "loading"
        /\ Shown("loading", {}) \in [status : {"closed", "loading", "verified", "ready", "forbidden", "unavailable"},
                                     of : SUBSET Store]
    BY ShownShape
  <2> QED  BY <1>1, <2>1 DEF Views
<1>3. net \subseteq Fetches
  BY <1>1, FetchShape DEF Invalidated
<1>4. \A q \in net : q \in s.net \/ (q.kind = "read" /\ q.view \in View /\ q.shell = s.page.shell)
  BY <1>1, FetchShape DEF Invalidated
<1>5. Begin(s, vs) = [s EXCEPT !.views = views, !.net = net]
  BY DEF Begin
<1> HIDE DEF views, asked, net
<1>6. [s EXCEPT !.views = views, !.net = net] \in Tabs
  BY <1>1, <1>2, <1>3 DEF Tabs
<1>7. /\ Begin(s, vs) \in Tabs
      /\ Begin(s, vs).page = s.page /\ Begin(s, vs).focus = s.focus
      /\ Begin(s, vs).views = views /\ Begin(s, vs).net = net
  BY <1>1, <1>5, <1>6 DEF Tabs
<1>8. ProofOK(Begin(s, vs))
  BY <1>2, <1>7 DEF ProofOK, Good, View
<1>9. OwnOK(Begin(s, vs))
  BY <1>4, <1>7 DEF OwnOK, Good
<1> QED  BY <1>7, <1>8, <1>9 DEF Good

\* Nothing of the shell is left: no view is open and no read or support request counts.
LEMMA UnmountedShape ==
  ASSUME NEW s, Good(s)
  PROVE  /\ Unmounted(s) \in Tabs
         /\ Unmounted(s).page = s.page /\ Unmounted(s).focus = s.focus /\ Unmounted(s).views = Closed
         /\ Unmounted(s).net \subseteq s.net
         /\ \A q \in Unmounted(s).net : q.kind \notin {"read", "support"}
<1> DEFINE net == SupportInvalidated(Invalidated(s.net, View))
<1>1. s \in Tabs /\ s.net \subseteq Fetches
  BY DEF Good, Tabs
<1>2. net \subseteq s.net /\ \A q \in net : q.kind \notin {"read", "support"}
  BY DEF SupportInvalidated, Invalidated, Good, OwnOK
<1>3. Closed \in Views
  <2>1. Shown("closed", {}) \in [status : {"closed", "loading", "verified", "ready", "forbidden", "unavailable"},
                                 of : SUBSET Store]
    BY ShownShape
  <2> QED  BY <2>1 DEF Closed, Views
<1>4. Unmounted(s) = [s EXCEPT !.views = Closed, !.dirty = FALSE, !.supporting = FALSE, !.dated = FALSE,
                               !.net = net]
  BY DEF Unmounted
<1> HIDE DEF net
<1> QED  BY <1>1, <1>2, <1>3, <1>4 DEF Tabs

\* A tab with no view open and no read under way may show any page.
LEMMA RepagedGood ==
  ASSUME NEW s, Good(s), NEW page \in Pages, PageOK(page)
  PROVE  /\ Good([Unmounted(s) EXCEPT !.page = page])
         /\ [Unmounted(s) EXCEPT !.page = page].page = page
         /\ [Unmounted(s) EXCEPT !.page = page].net \subseteq s.net
<1>1. PICK u \in Tabs : /\ u = Unmounted(s)
                        /\ u.views = Closed /\ u.net \subseteq s.net
                        /\ \A q \in u.net : q.kind \notin {"read", "support"}
  BY UnmountedShape
<1> DEFINE new == [u EXCEPT !.page = page]
<1>2. new \in Tabs /\ new.page = page /\ new.views = u.views /\ new.net = u.net
  BY DEF Tabs
<1> HIDE DEF new
<1>3. \A v \in View : Closed[v].status = "closed"
  BY ShownShape DEF Closed
<1>4. ProofOK(new)
  BY <1>1, <1>2, <1>3 DEF ProofOK, View
<1>5. OwnOK(new)
  BY <1>1, <1>2 DEF OwnOK
<1> QED  BY <1>1, <1>2, <1>4, <1>5 DEF Good, new

LEMMA DirtyGood ==
  ASSUME NEW s, Good(s), NEW d \in BOOLEAN
  PROVE  /\ Good([s EXCEPT !.dirty = d])
         /\ [s EXCEPT !.dirty = d].page = s.page /\ [s EXCEPT !.dirty = d].net = s.net
<1>1. s \in Tabs
  BY DEF Good
<1> DEFINE new == [s EXCEPT !.dirty = d]
<1>2. new \in Tabs
  BY <1>1 DEF Tabs
<1>3. new.page = s.page /\ new.views = s.views /\ new.net = s.net
  BY <1>1 DEF Tabs
<1> HIDE DEF new
<1>4. Good(new)
  BY <1>2, <1>3 DEF Good, ProofOK, OwnOK
<1> QED  BY <1>3, <1>4 DEF new

LEMMA MountedGood ==
  ASSUME NEW s, Good(s), cookie \in Token \cup {None}
  PROVE  Good(Mounted(s)) /\ Mounted(s).page = s.page
<1>1. Loads(s.focus, s.page.role) \in SUBSET View
  BY DEF Loads, Good, Tabs
<1>2. /\ Good(Begin(s, Loads(s.focus, s.page.role)))
      /\ Begin(s, Loads(s.focus, s.page.role)).page = s.page
  BY <1>1, BeginGood
<1> QED  BY <1>2, DirtyGood DEF Mounted

\* What a page may be set to.
Settable(phase, u, r) ==
  /\ phase \in Phase
  /\ IF phase \in {"authenticated", "authorization-error"} THEN u \in User /\ r \in Role ELSE u = None

LEMMA SetSessionGood ==
  ASSUME NEW s, Good(s), cookie \in Token \cup {None},
         NEW phase, NEW u, NEW r, Settable(phase, u, r)
  PROVE  /\ Good(SetSession(s, phase, u, r))
         /\ SetSession(s, phase, u, r).page.phase = phase
         /\ u = None => SetSession(s, phase, u, r).net \subseteq s.net
<1> USE ConsoleSessionAssumption
<1>1. s \in Tabs /\ s.page \in Pages /\ s.page.shell \in Nat
  BY DEF Good, Tabs, Pages
<1>2. CASE u = None
  <2> DEFINE page == Page(phase, None, None, s.page.shell)
  <2>1. page \in Pages /\ page.phase = phase /\ PageOK(page)
    BY <1>1, <1>2 DEF Page, Pages, PageOK, HasContext, Settable
  <2>2. PICK x \in Tabs : x = Unmounted(s) /\ x.page = s.page
    BY UnmountedShape
  <2>3. SetSession(s, phase, u, r) = [Unmounted(s) EXCEPT !.page = page]
    BY <1>2, <2>2 DEF SetSession, Tabs
  <2> HIDE DEF page
  <2> QED  BY <2>1, <2>3, RepagedGood
<1>3. CASE u # None /\ HasContext(s.page) /\ s.page.user = u
  <2> DEFINE page == Page(phase, u, r, s.page.shell)
  <2>1. page \in Pages /\ page.phase = phase /\ PageOK(page) /\ page.user = u /\ page.shell = s.page.shell
    BY <1>1, <1>3 DEF Page, Pages, PageOK, HasContext, Settable
  <2>2. SetSession(s, phase, u, r) = [s EXCEPT !.page = page, !.dirty = TRUE]
    BY <1>1, <1>3 DEF SetSession, Tabs
  <2> HIDE DEF page
  <2>3. PICK x \in Tabs : /\ x = SetSession(s, phase, u, r)
                          /\ x.page = page /\ x.views = s.views /\ x.net = s.net
    BY <1>1, <2>1, <2>2 DEF Tabs
  <2> QED  BY <1>3, <2>1, <2>3 DEF Good, ProofOK, OwnOK
<1>4. CASE u # None /\ ~(HasContext(s.page) /\ s.page.user = u)
  <2> DEFINE page == Page(phase, u, r, s.page.shell + 1)
  <2>1. page \in Pages /\ page.phase = phase /\ PageOK(page)
    BY <1>1, <1>4 DEF Page, Pages, PageOK, HasContext, Settable
  <2>2. PICK x \in Tabs : x = Unmounted(s) /\ x.page = s.page
    BY UnmountedShape
  <2>3. SetSession(s, phase, u, r) = Mounted([Unmounted(s) EXCEPT !.page = page])
    BY <1>4, <2>2 DEF SetSession, Tabs
  <2> HIDE DEF page
  <2>4. Good([Unmounted(s) EXCEPT !.page = page]) /\ [Unmounted(s) EXCEPT !.page = page].page = page
    BY <2>1, RepagedGood
  <2> QED  BY <1>4, <2>1, <2>3, <2>4, MountedGood
<1> QED  BY <1>2, <1>3, <1>4

\* A refusal ends the session or shows an error, and asks for nothing.
LEMMA RefusedGood ==
  ASSUME NEW s, Good(s), cookie \in Token \cup {None}, NEW status
  PROVE  Good(Refused(s, status)) /\ (Refused(s, status).page.phase = "session-invalidated" /\ HasContext(s.page)
                                        => Refused(s, status).net \subseteq s.net)
<1> USE ConsoleSessionAssumption
<1>1. HasContext(s.page) => s.page.phase # "session-invalidated"
  BY DEF HasContext
<1>2. /\ Good(OnSessionInvalidated(s))
      /\ HasContext(s.page) => OnSessionInvalidated(s).net \subseteq s.net
  BY SetSessionGood DEF OnSessionInvalidated, Settable, Phase
<1>3. /\ Good(OnAuthorizationError(s))
      /\ HasContext(s.page) => OnAuthorizationError(s).page.phase = "authorization-error"
  <2>1. CASE HasContext(s.page)
    <3>1. Settable("authorization-error", s.page.user, s.page.role)
      BY <2>1 DEF Settable, Phase, Good, PageOK
    <3> QED  BY <2>1, <3>1, SetSessionGood DEF OnAuthorizationError
  <2> QED  BY <2>1 DEF OnAuthorizationError
<1>4. CASE status = 401
  BY <1>2, <1>4 DEF Refused
<1>5. CASE status = 403
  BY <1>3, <1>5 DEF Refused
<1>6. CASE status \notin {401, 403}
  BY <1>1, <1>6 DEF Refused
<1> QED  BY <1>4, <1>5, <1>6

LEMMA AnsweredGood ==
  ASSUME Good(tab), NEW q \in tab.net
  PROVE  /\ Good(Answered(q)) /\ Answered(q).page = tab.page
         /\ Answered(q).net = tab.net \ {q} /\ Answered(q).views = tab.views /\ Answered(q).focus = tab.focus
<1> DEFINE new == [tab EXCEPT !.net = @ \ {q}]
<1>1. tab \in Tabs /\ tab.net \ {q} \subseteq Fetches
  BY DEF Good, Tabs
<1>2. new \in Tabs
  BY <1>1 DEF Tabs
<1>3. new.page = tab.page /\ new.views = tab.views /\ new.net = tab.net \ {q} /\ new.focus = tab.focus
  BY <1>1 DEF Tabs
<1> HIDE DEF new
<1>4. Good(new)
  BY <1>2, <1>3 DEF Good, ProofOK, OwnOK
<1> QED  BY <1>3, <1>4 DEF new, Answered

\* A view may show anything but the records of another store.
LEMMA DisplayGood ==
  ASSUME NEW s, Good(s), NEW v \in View,
         NEW status \in {"closed", "loading", "verified", "ready", "forbidden", "unavailable"},
         NEW of \in SUBSET Store, status = "verified" => of \subseteq {HomeStore[s.page.user]}
  PROVE  Good(Display(s, v, status, of)) /\ Display(s, v, status, of).page = s.page
         /\ Display(s, v, status, of).net = s.net
<1>1. s \in Tabs /\ s.views \in Views
  BY DEF Good, Tabs
<1>2. PICK w : w = Shown(status, of)
  OBVIOUS
<1>3. /\ w.status = status /\ w.of = of
      /\ w \in [status : {"closed", "loading", "verified", "ready", "forbidden", "unavailable"}, of : SUBSET Store]
  BY <1>2, ShownShape
<1> DEFINE views == [s.views EXCEPT ![v] = w]
<1>4. views \in Views /\ views[v] = w /\ \A x \in View \ {v} : views[x] = s.views[x]
  BY <1>1, <1>3 DEF Views
<1>5. Display(s, v, status, of) = [s EXCEPT !.views = views]
  BY <1>1, <1>2 DEF Display, Tabs
<1> HIDE DEF views
<1>6. PICK x \in Tabs : x = Display(s, v, status, of) /\ x.page = s.page /\ x.views = views /\ x.net = s.net
  BY <1>1, <1>4, <1>5 DEF Tabs
<1>7. ProofOK(x)
  BY <1>3, <1>4, <1>6 DEF Good, ProofOK, View
<1> QED  BY <1>6, <1>7 DEF Good, OwnOK

LEMMA EffectsGood ==
  ASSUME Good(tab), cookie \in Token \cup {None}
  PROVE  Good(Effects(tab)) /\ Effects(tab).page = tab.page
<1> DEFINE loads == Loads(tab.focus, tab.page.role)
           gone == View \ loads
           started == {v \in loads : v \in ActorViews \/ tab.views[v].status = "closed"}
           views == [v \in View |-> IF v \in gone THEN Closed[v] ELSE tab.views[v]]
           net == Invalidated(tab.net, gone)
           kept == [tab EXCEPT !.views = views, !.net = net]
<1>1. tab \in Tabs /\ tab.net \subseteq Fetches /\ tab.views \in Views /\ loads \in SUBSET View
  BY DEF Good, Tabs, Loads
<1>2. started \in SUBSET View /\ ("audit" \in started) \in BOOLEAN
  BY <1>1
<1>3. net \subseteq tab.net
  BY DEF Invalidated
<1>4. views \in Views /\ \A v \in View : views[v].status = "verified" => views[v] = tab.views[v]
  <2>1. /\ Shown("closed", {}).status = "closed"
        /\ Shown("closed", {}) \in [status : {"closed", "loading", "verified", "ready", "forbidden", "unavailable"},
                                    of : SUBSET Store]
    BY ShownShape
  <2> QED  BY <1>1, <2>1 DEF Views, Closed
<1>5. Effects(tab) = [Begin(kept, started) EXCEPT !.dirty = "audit" \in started]
  BY <1>1 DEF Effects, Tabs
<1> HIDE DEF loads, gone, started, views, net
<1>6. kept \in Tabs
  BY <1>1, <1>3, <1>4 DEF Tabs
<1>7. kept.page = tab.page /\ kept.views = views /\ kept.net = net
  BY <1>1 DEF Tabs
<1> HIDE DEF kept
<1>8. Good(kept)
  BY <1>3, <1>4, <1>6, <1>7 DEF Good, ProofOK, OwnOK, View
<1>9. Good(Begin(kept, started)) /\ Begin(kept, started).page = tab.page
  BY <1>2, <1>7, <1>8, BeginGood
<1> QED  BY <1>2, <1>5, <1>9, DirtyGood

LEMMA RenderedGood ==
  ASSUME NEW s, Good(s)
  PROVE  Good(Rendered(s)) /\ Rendered(s).page = s.page /\ Rendered(s).net = s.net
BY DirtyGood DEF Rendered

\* A fetch that belongs to the shell that is shown, or to none.
LEMMA AskedGood ==
  ASSUME NEW s, Good(s), NEW f \in Fetches,
         f.kind \in {"read", "support"} => f.kind = "support" /\ f.shell = s.page.shell
  PROVE  /\ Good([s EXCEPT !.net = @ \cup {f}])
         /\ [s EXCEPT !.net = @ \cup {f}].page = s.page
<1> DEFINE new == [s EXCEPT !.net = @ \cup {f}]
<1>1. s \in Tabs /\ s.net \cup {f} \subseteq Fetches
  BY DEF Good, Tabs
<1>2. new \in Tabs
  BY <1>1 DEF Tabs
<1>3. new.page = s.page /\ new.views = s.views /\ new.net = s.net \cup {f}
  BY <1>1 DEF Tabs
<1> HIDE DEF new
<1>4. Good(new)
  BY <1>2, <1>3 DEF Good, ProofOK, OwnOK
<1> QED  BY <1>3, <1>4 DEF new

\* The control of the support request is busy or free.
LEMMA SupportingGood ==
  ASSUME NEW s, Good(s), NEW b \in BOOLEAN
  PROVE  /\ Good([s EXCEPT !.supporting = b])
         /\ [s EXCEPT !.supporting = b].page = s.page /\ [s EXCEPT !.supporting = b].net = s.net
         /\ [s EXCEPT !.supporting = b].focus = s.focus
<1> DEFINE new == [s EXCEPT !.supporting = b]
<1>1. s \in Tabs
  BY DEF Good
<1>2. new \in Tabs
  BY <1>1 DEF Tabs
<1>3. new.page = s.page /\ new.views = s.views /\ new.net = s.net /\ new.focus = s.focus
  BY <1>1 DEF Tabs
<1> HIDE DEF new
<1>4. Good(new)
  BY <1>2, <1>3 DEF Good, ProofOK, OwnOK
<1> QED  BY <1>3, <1>4 DEF new

LEMMA DatedGood ==
  ASSUME NEW s, Good(s)
  PROVE  Good([s EXCEPT !.dated = TRUE]) /\ [s EXCEPT !.dated = TRUE].page = s.page
<1> DEFINE new == [s EXCEPT !.dated = TRUE]
<1>1. s \in Tabs
  BY DEF Good
<1>2. new \in Tabs
  BY <1>1 DEF Tabs
<1>3. new.page = s.page /\ new.views = s.views /\ new.net = s.net
  BY <1>1 DEF Tabs
<1> HIDE DEF new
<1>4. Good(new)
  BY <1>2, <1>3 DEF Good, ProofOK, OwnOK
<1> QED  BY <1>3, <1>4 DEF new

-----------------------------------------------------------------------------
(* The server.                                                             *)

LEMMA ResolvedShape ==
  ASSUME ConsoleTypeOK, NEW t \in Token \cup {None}
  PROVE  /\ Resolved(t) \in User \cup {None}
         /\ Resolved(t) # None => member[Resolved(t)] \in Role
         /\ Looked(t) \in [Token -> User \cup {None}]
<1>1. CASE t = None
  BY <1>1 DEF Resolved, Looked, ConsoleTypeOK
<1>2. CASE t \in Token
  BY <1>2 DEF Resolved, Looked, ConsoleTypeOK
<1> QED  BY <1>1, <1>2

\* What a step may do to the tab: it stays good, and a session ends as expired only
\* by an answer to a fetch of the shell that was shown.
EndsByOwn(new) ==
  HasContext(tab.page) /\ new.page.phase = "session-invalidated"
    => \E q \in tab.net : q \notin new.net /\ q.shell = tab.page.shell
Moves(new) == Good(new) /\ EndsByOwn(new)

\* A step that leaves the page, or sets it to anything but expired.
LEMMA QuietMoves ==
  ASSUME Inv, NEW new, Good(new), new.page = tab.page \/ new.page.phase # "session-invalidated"
  PROVE  Moves(new)
BY DEF Moves, EndsByOwn, HasContext

\* The answer to a read or to a support request of the shell may end its session.
LEMMA RefusedMoves ==
  ASSUME Inv, NEW q \in tab.net, q.kind \in {"read", "support"},
         NEW s, Good(s), s.page = tab.page, s.net = tab.net \ {q}, NEW status
  PROVE  Moves(Refused(s, status))
<1>1. /\ Good(Refused(s, status))
      /\ HasContext(tab.page) /\ Refused(s, status).page.phase = "session-invalidated"
           => Refused(s, status).net \subseteq tab.net \ {q}
  BY RefusedGood DEF Inv, ConsoleTypeOK
<1>2. q.shell = tab.page.shell
  BY DEF Inv, Good, OwnOK
<1> QED  BY <1>1, <1>2 DEF Moves, EndsByOwn

-----------------------------------------------------------------------------
(* What the person does.                                                   *)

LEMMA CookieFetch ==
  ASSUME Inv, NEW kind \in {"me", "login", "logout", "support"}
  PROVE  /\ Fetch(kind, None, cookie, tab) \in Fetches
         /\ Fetch(kind, None, cookie, tab).kind = kind
         /\ Fetch(kind, None, cookie, tab).shell = tab.page.shell
<1>1. tab \in Tabs /\ cookie \in Token \cup {None} /\ None \in View \cup {None}
  BY DEF Inv, ConsoleTypeOK
<1> QED  BY <1>1, FetchShape

LEMMA LoginSubmitMoves == ASSUME Inv, NEW u \in User \cup {None}, LoginSubmit(u) PROVE Moves(tab')
<1> DEFINE s == SetSession(tab, "authenticating", None, None)
           f == [Fetch("login", None, cookie, tab) EXCEPT !.asks = u]
<1>1. Good(s) /\ s.page.phase = "authenticating"
  BY SetSessionGood DEF Inv, ConsoleTypeOK, Settable, Phase
<1>2. f \in Fetches /\ f.kind = "login"
  <2>1. PICK g \in Fetches : g = Fetch("login", None, cookie, tab) /\ g.kind = "login"
    BY CookieFetch
  <2> QED  BY <2>1 DEF Fetches
<1>3. tab' = [s EXCEPT !.net = @ \cup {f}]
  BY DEF LoginSubmit
<1> HIDE DEF s, f
<1>4. Good(tab') /\ tab'.page = s.page
  BY <1>1, <1>2, <1>3, AskedGood
<1> QED  BY <1>1, <1>4, QuietMoves

LEMMA LogoutMoves == ASSUME Inv, Logout PROVE Moves(tab')
<1> DEFINE s == SetSession(tab, "unauthenticated", None, None)
           f == Fetch("logout", None, cookie, tab)
<1>1. Good(s) /\ s.page.phase = "unauthenticated"
  BY SetSessionGood DEF Inv, ConsoleTypeOK, Settable, Phase
<1>2. f \in Fetches /\ f.kind = "logout"
  BY CookieFetch
<1>3. tab' = [s EXCEPT !.net = @ \cup {f}]
  BY DEF Logout
<1> HIDE DEF s, f
<1>4. Good(tab') /\ tab'.page = s.page
  BY <1>1, <1>2, <1>3, AskedGood
<1> QED  BY <1>1, <1>4, QuietMoves

LEMMA SupportSubmitMoves == ASSUME Inv, SupportSubmit PROVE Moves(tab')
<1> DEFINE s == [tab EXCEPT !.supporting = TRUE]
           f == Fetch("support", None, cookie, tab)
<1>1. Good(s) /\ s.page = tab.page
  BY SupportingGood DEF Inv
<1>2. f \in Fetches /\ f.kind = "support" /\ f.shell = tab.page.shell
  BY CookieFetch
<1>3. tab' = [s EXCEPT !.net = @ \cup {f}]
  BY DEF SupportSubmit, Inv, ConsoleTypeOK, Tabs
<1> HIDE DEF s, f
<1>4. Good(tab') /\ tab'.page = s.page
  BY <1>1, <1>2, <1>3, AskedGood
<1> QED  BY <1>1, <1>4, QuietMoves

LEMMA FlushMoves == ASSUME Inv, Flush PROVE Moves(tab')
BY EffectsGood, QuietMoves DEF Inv, ConsoleTypeOK, Flush

-----------------------------------------------------------------------------
(* The answers.                                                            *)

LEMMA FetchFields ==
  ASSUME Inv, NEW q \in tab.net
  PROVE  /\ q \in Fetches /\ q.token \in Token \cup {None} /\ q.value \in Token \cup {None}
         /\ q.kind = "read" => q.view \in View
BY DEF Inv, Good, OwnOK, Tabs, Fetches

LEMMA ServeMoves ==
  ASSUME Inv, NEW q \in tab.net, NEW status \in {200, 204, 401}, NEW value \in Token \cup {None},
         Serve(q, status, value)
  PROVE  Moves(tab')
<1> DEFINE f == [q EXCEPT !.status = status, !.value = value]
           net == (tab.net \ {q}) \cup {f}
           new == [tab EXCEPT !.net = net]
<1>1. tab \in Tabs /\ tab.net \subseteq Fetches /\ q \in Fetches
  BY DEF Inv, ConsoleTypeOK, Tabs
<1>2. f \in Fetches /\ f.kind = q.kind /\ f.view = q.view /\ f.shell = q.shell
  <2>1. PICK g \in Fetches : g = q
    BY <1>1
  <2>2. [g EXCEPT !.status = status, !.value = value] \in Fetches
    <3>1. PICK h \in Fetches : h = [g EXCEPT !.status = status]
      <4>1. status \in {None, 200, 204, 401}
        OBVIOUS
      <4>2. [g EXCEPT !.status = status] \in Fetches
        BY <4>1 DEF Fetches
      <4> QED  BY <4>2
    <3>2. [h EXCEPT !.value = value] \in Fetches
      BY DEF Fetches
    <3> QED  BY <3>1, <3>2
  <2>3. /\ [g EXCEPT !.status = status, !.value = value].kind = g.kind
        /\ [g EXCEPT !.status = status, !.value = value].view = g.view
        /\ [g EXCEPT !.status = status, !.value = value].shell = g.shell
    BY DEF Fetches
  <2> QED  BY <2>1, <2>2, <2>3
<1>3. tab' = new
  BY DEF Serve
<1> HIDE DEF f
<1>4. net \subseteq Fetches /\ \A x \in net : x \in tab.net \/ x = f
  BY <1>1, <1>2
<1> HIDE DEF net
<1>5. new \in Tabs
  BY <1>1, <1>4 DEF Tabs
<1>6. new.page = tab.page /\ new.views = tab.views /\ new.net = net
  BY <1>1 DEF Tabs
<1> HIDE DEF new
<1>7. Good(new)
  BY <1>2, <1>4, <1>5, <1>6 DEF Inv, Good, ProofOK, OwnOK
<1> QED  BY <1>3, <1>6, <1>7, QuietMoves

LEMMA DeliverLoginMoves == ASSUME Inv, NEW q \in tab.net, DeliverLogin(q) PROVE Moves(tab')
<1>1. /\ Good(Answered(q)) /\ Answered(q).page = tab.page
      /\ q.value \in Token \cup {None} /\ cookie \in Token \cup {None}
  BY AnsweredGood, FetchFields DEF Inv, ConsoleTypeOK
<1>2. CASE q.status = 200
  <2> DEFINE f == Fetch("me", None, q.value, tab)
  <2>1. f \in Fetches /\ f.kind = "me"
    BY <1>1, FetchShape DEF Inv, ConsoleTypeOK
  <2>2. tab' = [Answered(q) EXCEPT !.net = @ \cup {f}]
    BY <1>2 DEF DeliverLogin
  <2> HIDE DEF f
  <2>3. Good(tab') /\ tab'.page = tab.page
    BY <1>1, <2>1, <2>2, AskedGood
  <2> QED  BY <2>3, QuietMoves
<1>3. CASE q.status # 200
  <2>1. tab' = SetSession(Answered(q), "unauthenticated", None, None)
    BY <1>3 DEF DeliverLogin
  <2>2. Good(tab') /\ tab'.page.phase = "unauthenticated"
    BY <1>1, <2>1, SetSessionGood DEF Settable, Phase
  <2> QED  BY <2>2, QuietMoves
<1> QED  BY <1>2, <1>3

LEMMA SignedOutMoves ==
  ASSUME Inv, NEW q \in tab.net
  PROVE  Moves(SetSession(Answered(q), "unauthenticated", None, None))
<1>1. Good(Answered(q)) /\ cookie \in Token \cup {None}
  BY AnsweredGood DEF Inv, ConsoleTypeOK
<1>2. /\ Good(SetSession(Answered(q), "unauthenticated", None, None))
      /\ SetSession(Answered(q), "unauthenticated", None, None).page.phase = "unauthenticated"
  BY <1>1, SetSessionGood DEF Settable, Phase
<1> QED  BY <1>2, QuietMoves

LEMMA DeliverMeMoves == ASSUME Inv, NEW q \in tab.net, DeliverMe(q) PROVE Moves(tab')
<1> DEFINE u == Resolved(q.token)
<1>1. /\ Good(Answered(q)) /\ cookie \in Token \cup {None}
      /\ u \in User \cup {None} /\ (u # None => member[u] \in Role)
  BY AnsweredGood, FetchFields, ResolvedShape DEF Inv, ConsoleTypeOK
<1>2. CASE u = None
  BY <1>2, SignedOutMoves DEF DeliverMe
<1>3. CASE u # None
  <2>1. tab' = SetSession(Answered(q), "authenticated", u, member[u])
    BY <1>3 DEF DeliverMe
  <2>2. Settable("authenticated", u, member[u])
    BY <1>1, <1>3 DEF Settable, Phase
  <2> HIDE DEF u
  <2>3. Good(tab') /\ tab'.page.phase = "authenticated"
    BY <1>1, <2>1, <2>2, SetSessionGood
  <2> QED  BY <2>3, QuietMoves
<1> QED  BY <1>2, <1>3

\* The records of the store the server resolved are shown as verified only if they
\* are of the store the page shows, whose cookie was sent or not.
LEMMA ProofReadMoves ==
  ASSUME Inv, NEW q \in tab.net, q.kind = "read", NEW v \in {"business", "audit"},
         NEW records \in SUBSET Store
  PROVE  Moves(ProofRead(q, v, records))
<1> DEFINE status == ReadStatus(v, q.token)
           seen == IF status = 200 /\ HasScope(records, tab.page) THEN "verified" ELSE "unavailable"
           of == IF seen = "verified" THEN records ELSE {}
           s == Rendered(Display(Answered(q), v, seen, of))
<1>1. Good(Answered(q)) /\ Answered(q).page = tab.page /\ Answered(q).net = tab.net \ {q}
  BY AnsweredGood DEF Inv
<1>2. /\ seen \in {"closed", "loading", "verified", "ready", "forbidden", "unavailable"}
      /\ of \in SUBSET Store
      /\ seen = "verified" => of \subseteq {HomeStore[tab.page.user]}
  BY DEF HasScope
<1>3. ProofRead(q, v, records) = Refused(s, status)
  BY DEF ProofRead
<1> HIDE DEF seen, of, status
<1>4. /\ Good(Display(Answered(q), v, seen, of)) /\ Display(Answered(q), v, seen, of).page = tab.page
      /\ Display(Answered(q), v, seen, of).net = tab.net \ {q}
  BY <1>1, <1>2, DisplayGood DEF View
<1>5. Good(s) /\ s.page = tab.page /\ s.net = tab.net \ {q}
  BY <1>4, RenderedGood
<1> HIDE DEF s
<1> QED  BY <1>3, <1>5, RefusedMoves

LEMMA RecordsShape ==
  ASSUME Inv, NEW q \in tab.net, NEW records \in IF Resolved(q.token) = None THEN {{}} ELSE Records(q.token)
  PROVE  records \in SUBSET Store
BY FetchFields, ResolvedShape, ConsoleSessionAssumption DEF Records, Inv

LEMMA StoreOpsReadMoves ==
  ASSUME Inv, NEW q \in tab.net, q.kind = "read", NEW v \in View
  PROVE  Moves(StoreOpsRead(q, v))
<1> DEFINE status == ReadStatus(v, q.token)
           seen == CASE status = 200 -> "ready" [] status = 403 -> "forbidden" [] OTHER -> "unavailable"
           s == Display(Answered(q), v, seen, {})
<1>1. Good(Answered(q)) /\ Answered(q).page = tab.page /\ Answered(q).net = tab.net \ {q}
  BY AnsweredGood DEF Inv
<1>2. seen \in {"ready", "forbidden", "unavailable"}
  <2> HIDE DEF status
  <2>1. CASE status = 200  BY <2>1
  <2>2. CASE status = 403  BY <2>2
  <2>3. CASE status \notin {200, 403}  BY <2>3
  <2> QED  BY <2>1, <2>2, <2>3
<1>3. StoreOpsRead(q, v) = Refused(s, status)
  BY DEF StoreOpsRead
<1> HIDE DEF seen, status
<1>4. Good(s) /\ s.page = tab.page /\ s.net = tab.net \ {q}
  BY <1>1, <1>2, DisplayGood
<1> HIDE DEF s
<1> QED  BY <1>3, <1>4, RefusedMoves

LEMMA DeliverBoardMoves == ASSUME Inv, NEW q \in tab.net, DeliverBoard(q) PROVE Moves(tab')
<1>1. q.kind = "read"
  BY DEF DeliverBoard, Read
<1>2. CASE tab' = StoreOpsRead(q, "board")
  BY <1>1, <1>2, StoreOpsReadMoves DEF View
<1>3. CASE tab' = [Begin(Answered(q), {"board"}) EXCEPT !.dated = TRUE]
  <2>1. Good(Answered(q)) /\ Answered(q).page = tab.page /\ cookie \in Token \cup {None}
    BY AnsweredGood DEF Inv, ConsoleTypeOK
  <2>2. {"board"} \in SUBSET View
    BY DEF View
  <2>3. Good(Begin(Answered(q), {"board"})) /\ Begin(Answered(q), {"board"}).page = tab.page
    BY <2>1, <2>2, BeginGood
  <2>4. Good(tab') /\ tab'.page = tab.page
    BY <1>3, <2>3, DatedGood
  <2> QED  BY <2>4, QuietMoves
<1> QED  BY <1>2, <1>3 DEF DeliverBoard

LEMMA DeliverSupportMoves == ASSUME Inv, NEW q \in tab.net, DeliverSupport(q) PROVE Moves(tab')
<1> DEFINE s == [Answered(q) EXCEPT !.supporting = FALSE]
           status == SupportStatus(q.token)
<1>1. /\ Good(Answered(q)) /\ Answered(q).page = tab.page /\ Answered(q).net = tab.net \ {q}
      /\ cookie \in Token \cup {None}
  BY AnsweredGood DEF Inv, ConsoleTypeOK
<1>2. Good(s) /\ s.page = tab.page /\ s.net = tab.net \ {q} /\ s \in Tabs
  BY <1>1, SupportingGood DEF Good
<1>3. q.kind = "support" /\ tab' = IF status = 200 THEN RefreshBusinessProof(s) ELSE Refused(s, status)
  BY DEF DeliverSupport
<1> HIDE DEF s, status
<1>4. CASE status = 200
  <2>1. {"business"} \cap s.focus \in SUBSET View
    BY DEF View
  <2>2. Good(Begin(s, {"business"} \cap s.focus)) /\ Begin(s, {"business"} \cap s.focus).page = tab.page
    BY <1>1, <1>2, <2>1, BeginGood
  <2>3. Good(RefreshBusinessProof(s)) /\ RefreshBusinessProof(s).page = tab.page
    BY <2>2, RenderedGood DEF RefreshBusinessProof
  <2> QED  BY <1>3, <1>4, <2>3, QuietMoves
<1>5. CASE status # 200
  BY <1>2, <1>3, <1>5, RefusedMoves
<1> QED  BY <1>4, <1>5

LEMMA DeliverMoves == ASSUME Inv, NEW q \in tab.net, Deliver(q) PROVE Moves(tab')
<1>1. CASE DeliverLogin(q)  BY <1>1, DeliverLoginMoves
<1>2. CASE DeliverLogout(q)
  BY <1>2, SignedOutMoves DEF DeliverLogout
<1>3. CASE DeliverMe(q)  BY <1>3, DeliverMeMoves
<1>4. CASE DeliverSupport(q)  BY <1>4, DeliverSupportMoves
<1>5. CASE DeliverBusiness(q)
  <2>1. PICK records \in IF Resolved(q.token) = None THEN {{}} ELSE Records(q.token) :
           tab' = ProofRead(q, "business", records)
    BY <1>5 DEF DeliverBusiness
  <2>2. records \in SUBSET Store
    BY RecordsShape
  <2> QED  BY <1>5, <2>1, <2>2, ProofReadMoves DEF DeliverBusiness, Read
<1>6. CASE DeliverAudit(q)
  <2>1. PICK records \in IF Resolved(q.token) = None THEN {{}} ELSE Records(q.token) :
           tab' = ProofRead(q, "audit", records)
    BY <1>6 DEF DeliverAudit
  <2>2. records \in SUBSET Store
    BY RecordsShape
  <2> QED  BY <1>6, <2>1, <2>2, ProofReadMoves DEF DeliverAudit, Read
<1>7. CASE DeliverBoard(q)  BY <1>7, DeliverBoardMoves
<1>8. CASE DeliverBookings(q)
  BY <1>8, StoreOpsReadMoves DEF DeliverBookings, Read, View
<1>9. CASE DeliverKnowledge(q)
  BY <1>9, StoreOpsReadMoves DEF DeliverKnowledge, Read, View
<1>10. CASE DeliverAttention(q)
  BY <1>10, StoreOpsReadMoves DEF DeliverAttention, Read, View
<1> QED  BY <1>1, <1>2, <1>3, <1>4, <1>5, <1>6, <1>7, <1>8, <1>9, <1>10 DEF Deliver

LEMMA FailMoves == ASSUME Inv, NEW q \in tab.net, Fail(q) PROVE Moves(tab')
<1>1. Good(Answered(q)) /\ Answered(q).page = tab.page /\ q \in Fetches
  BY AnsweredGood, FetchFields DEF Inv
<1>2. CASE q.kind \in {"login", "logout", "me"}
  <2>1. tab' = SetSession(Answered(q), "unauthenticated", None, None)
    BY <1>2 DEF Fail
  <2> QED  BY <2>1, SignedOutMoves
<1>3. CASE q.kind = "support"
  <2>1. tab' = [Answered(q) EXCEPT !.supporting = FALSE]
    BY <1>3 DEF Fail
  <2>2. Good(tab') /\ tab'.page = tab.page
    BY <1>1, <2>1, SupportingGood
  <2> QED  BY <2>2, QuietMoves
<1>4. CASE q.kind = "read"
  <2> DEFINE s == Display(Answered(q), q.view, "unavailable", {})
  <2>1. q.view \in View
    BY <1>4, FetchFields
  <2>2. Good(s) /\ s.page = tab.page
    BY <1>1, <2>1, DisplayGood
  <2>3. Good(Rendered(s)) /\ Rendered(s).page = tab.page
    BY <2>2, RenderedGood
  <2>4. tab' = Rendered(s) \/ tab' = s
    BY <1>4 DEF Fail
  <2> HIDE DEF s
  <2> QED  BY <2>2, <2>3, <2>4, QuietMoves
<1> QED  BY <1>1, <1>2, <1>3, <1>4 DEF Fetches

-----------------------------------------------------------------------------
(* The invariant.                                                          *)

LEMMA InitInv == Init => Inv
<1> SUFFICES ASSUME Init PROVE Inv
  OBVIOUS
<1> USE ConsoleSessionAssumption
<1> DEFINE t == CHOOSE x \in Token : TRUE
<1>1. t \in Token
  OBVIOUS
<1>2. PICK u \in User \cup {None}, focus \in Focus :
        /\ sessions = [[x \in Token |-> None] EXCEPT ![t] = u]
        /\ cookie = IF u = None THEN None ELSE t
        /\ tab = [page |-> Page("bootstrapping", None, None, 0), views |-> Closed, dirty |-> FALSE,
                  supporting |-> FALSE, dated |-> FALSE, focus |-> focus,
                  net |-> {[kind |-> "me", view |-> None, token |-> IF u = None THEN None ELSE t,
                            asks |-> None, status |-> None, value |-> None, shell |-> 0]}]
  BY DEF Init
<1> HIDE DEF t
<1>3. sessions \in [Token -> User \cup {None}] /\ cookie \in Token \cup {None}
  BY <1>1, <1>2
<1>4. /\ Page("bootstrapping", None, None, 0) \in Pages
      /\ Page("bootstrapping", None, None, 0).phase = "bootstrapping"
      /\ Page("bootstrapping", None, None, 0).user = None
  BY DEF Page, Pages, Phase
<1>5. Closed \in Views /\ \A v \in View : Closed[v].status = "closed"
  <2>1. /\ Shown("closed", {}).status = "closed"
        /\ Shown("closed", {}) \in [status : {"closed", "loading", "verified", "ready", "forbidden", "unavailable"},
                                    of : SUBSET Store]
    BY ShownShape
  <2> QED  BY <2>1 DEF Closed, Views
<1>6. \A q \in tab.net : q \in Fetches /\ q.kind = "me"
  BY <1>1, <1>2 DEF Fetches
<1>7. tab \in Tabs
  BY <1>2, <1>4, <1>5, <1>6 DEF Tabs
<1>8. ConsoleTypeOK
  BY <1>3, <1>7 DEF ConsoleTypeOK, Init
<1>9. Good(tab)
  <2>1. tab.views = Closed /\ tab.page = Page("bootstrapping", None, None, 0)
    BY <1>2
  <2>2. PageOK(tab.page)
    BY <1>4, <2>1 DEF PageOK, HasContext
  <2>3. ProofOK(tab)
    BY <1>5, <2>1 DEF ProofOK, View
  <2>4. OwnOK(tab)
    BY <1>6 DEF OwnOK
  <2> QED  BY <1>7, <2>2, <2>3, <2>4 DEF Good
<1> QED  BY <1>8, <1>9 DEF Inv

LEMMA UnusedShape == Unused \subseteq Token /\ (Unused # {} => NewToken \in Token)
BY DEF Unused, NewToken

\* What the tab does not have.
OthersOK ==
  /\ member \in [User -> Role \cup {None}]
  /\ sessions \in [Token -> User \cup {None}]
  /\ lapsed \subseteq Token
  /\ cookie \in Token \cup {None}
  /\ acts \in Nat /\ changes \in Nat /\ bodyLost \in BOOLEAN

LEMMA StepMoves == ASSUME Inv, [Next]_vars PROVE Moves(tab') /\ OthersOK'
<1> USE ConsoleSessionAssumption DEF OthersOK
<1>1. ConsoleTypeOK /\ OthersOK /\ Good(tab)
  BY DEF Inv, ConsoleTypeOK
<1>2. ASSUME NEW u \in User \cup {None}, LoginSubmit(u) PROVE Moves(tab') /\ OthersOK'
  <2>1. Moves(tab')
    BY <1>1, <1>2, LoginSubmitMoves
  <2>2. Acts
    BY <1>2 DEF LoginSubmit
  <2> QED  BY <1>1, <2>1, <2>2 DEF Acts
<1>3. CASE Logout
  BY <1>1, <1>3, LogoutMoves DEF Logout, Acts
<1>4. CASE SupportSubmit
  BY <1>1, <1>4, SupportSubmitMoves DEF SupportSubmit, Acts
<1>5. CASE Flush
  BY <1>1, <1>5, FlushMoves DEF Flush, Counters
<1>6. ASSUME NEW q \in tab.net, ServeLogin(q) PROVE Moves(tab') /\ OthersOK'
  <2>1. q.asks \in User \cup {None}
    BY <1>1 DEF ConsoleTypeOK, Tabs, Fetches
  <2>2. CASE Serve(q, 401, None) /\ UNCHANGED sessions
    <3>1. Moves(tab')
      BY <2>2, ServeMoves
    <3> QED  BY <1>1, <2>2, <3>1 DEF Serve, Counters
  <2>3. CASE q.asks # None /\ Unused # {} /\ Serve(q, 200, NewToken) /\ sessions' = [sessions EXCEPT ![NewToken] = q.asks]
    <3>1. NewToken \in Token
      BY <2>3, UnusedShape
    <3>2. Moves(tab')
      BY <2>3, <3>1, ServeMoves
    <3>3. sessions' \in [Token -> User \cup {None}]
      BY <1>1, <2>1, <2>3, <3>1
    <3> QED  BY <1>1, <2>3, <3>2, <3>3 DEF Serve, Counters
  <2> QED  BY <1>6, <2>2, <2>3 DEF ServeLogin
<1>7. ASSUME NEW q \in tab.net, ServeLogout(q) PROVE Moves(tab') /\ OthersOK'
  <2>1. Serve(q, 204, None) /\ q.token \in Token \cup {None}
    BY <1>7, FetchFields DEF ServeLogout
  <2>2. Moves(tab')
    BY <2>1, ServeMoves
  <2>3. sessions' \in [Token -> User \cup {None}]
    BY <1>1, <1>7, <2>1 DEF ServeLogout
  <2> QED  BY <1>1, <2>1, <2>2, <2>3 DEF Serve, Counters
<1>8. ASSUME NEW q \in tab.net, Deliver(q) PROVE Moves(tab') /\ OthersOK'
  <2>1. Moves(tab')
    BY <1>8, DeliverMoves
  <2>2. /\ UNCHANGED <<member, lapsed, Counters>>
        /\ sessions' = sessions \/ sessions' = Looked(q.token)
        /\ cookie' = cookie \/ cookie' = q.value \/ cookie' = None
    BY <1>8 DEF Deliver, DeliverLogin, DeliverLogout, DeliverMe, DeliverSupport, DeliverBusiness, DeliverAudit,
                DeliverBoard, DeliverBookings, DeliverKnowledge, DeliverAttention, Read, Counters
  <2>3. Looked(q.token) \in [Token -> User \cup {None}] /\ q.value \in Token \cup {None}
    BY <1>1, FetchFields, ResolvedShape
  <2> QED  BY <1>1, <2>1, <2>2, <2>3 DEF Counters
<1>9. ASSUME NEW q \in tab.net, LoseBody(q) PROVE Moves(tab') /\ OthersOK'
  <2>1. Good(Answered(q)) /\ Answered(q).page = tab.page
    BY <1>1, AnsweredGood
  <2> QED  BY <1>1, <1>9, <2>1, QuietMoves DEF LoseBody
<1>10. ASSUME NEW q \in tab.net, Fail(q) PROVE Moves(tab') /\ OthersOK'
  BY <1>1, <1>10, FailMoves DEF Fail, Counters
<1>12. ASSUME NEW u \in User, NEW r \in NewRole, SetRole(u, r) PROVE Moves(tab') /\ OthersOK'
  <2>1. UNCHANGED tab /\ [member EXCEPT ![u] = r] \in [User -> Role \cup {None}]
    BY <1>1, <1>12 DEF SetRole, Change
  <2> QED  BY <1>1, <1>12, <2>1, QuietMoves DEF SetRole, Change
<1>13. ASSUME NEW t \in Token, Lapse(t) PROVE Moves(tab') /\ OthersOK'
  BY <1>1, <1>13, QuietMoves DEF Lapse, Change
<1>14. CASE OtherTabLogout
  BY <1>1, <1>14, QuietMoves DEF OtherTabLogout, Change
<1>15. ASSUME NEW u \in User, OtherTabLogin(u) PROVE Moves(tab') /\ OthersOK'
  BY <1>1, <1>15, QuietMoves, UnusedShape DEF OtherTabLogin, Change
<1>16. CASE UNCHANGED vars
  BY <1>1, <1>16, QuietMoves DEF vars
<1> QED  BY <1>2, <1>3, <1>4, <1>5, <1>6, <1>7, <1>8, <1>9, <1>10, <1>12, <1>13, <1>14, <1>15, <1>16 DEF Next

LEMMA StepInv == Inv /\ [Next]_vars => Inv'
<1> SUFFICES ASSUME Inv, [Next]_vars PROVE Inv'
  OBVIOUS
<1>1. Moves(tab') /\ OthersOK'
  BY StepMoves
<1>2. Good(tab)'
  BY <1>1 DEF Moves, Good, PageOK, HasContext, ProofOK, OwnOK
<1> QED  BY <1>1, <1>2 DEF Inv, ConsoleTypeOK, OthersOK, Good

LEMMA AlwaysInv == Spec => []Inv
BY InitInv, StepInv, PTL DEF Spec

-----------------------------------------------------------------------------
(* The theorems.                                                           *)

\* The console and the sessions behind it are type correct, and a page with a
\* context is a user's of a known role, whatever answers arrive late.
THEOREM ConsoleTypeCorrect == Spec => [](ConsoleTypeOK /\ PageOK(tab.page))
<1>1. Inv => ConsoleTypeOK /\ PageOK(tab.page)
  BY DEF Inv, Good
<1> QED  BY <1>1, AlwaysInv, PTL

\* A record shown as verified belongs to the store in the page's header, although
\* another tab may have changed the cookie its read was sent with.
THEOREM ProofIsOfShownStoreHolds == Spec => []ProofIsOfShownStore
<1>1. Inv => ProofIsOfShownStore
  BY DEF Inv, Good, ProofOK, ProofIsOfShownStore
<1> QED  BY <1>1, AlwaysInv, PTL

\* A session ends as expired only by an answer to a fetch of the shell that is
\* shown: what an earlier shell asked was dropped with it.
THEOREM OnlyOwnAnswersEndSessionHolds == Spec => OnlyOwnAnswersEndSession
<1> DEFINE Own == HasContext(tab.page) /\ tab'.page.phase = "session-invalidated"
                    => \E q \in tab.net : q \notin tab'.net /\ q.shell = tab.page.shell
<1>1. Inv /\ [Next]_vars => [Own]_vars
  BY StepMoves DEF Moves, EndsByOwn
<1> HIDE DEF Own
<1>2. Spec => [][Own]_vars
  BY <1>1, AlwaysInv, PTL DEF Spec
<1> QED  BY <1>2 DEF OnlyOwnAnswersEndSession, Own
=============================================================================
