---------------------------- MODULE ServicesProofs ----------------------------
(* Proofs about the parts of Services, each for every behaviour of its own *)
(* and every value of its constants.                                       *)
EXTENDS Services, TLAPS, FiniteSetTheorems, SequenceTheorems, WellFoundedInduction

-----------------------------------------------------------------------------
(* EnterpriseAccess: whose authority a request acts with.                  *)

Contexts == [scope : Scope, role : {"agent", "supervisor", "admin"}]
Bindings == [scope : Scope, customer : Customer]
RequestStates ==
  [pc : {"unsent", "session", "expired", "membership", "list", "conversation", "create", "run", "store",
         "answered", "lost"},
   needs : {"agent:invoke", "audit:read"}, token : Token \cup {None}, user : User \cup {None},
   context : Contexts \cup {None}, conversation : Conversation \cup {None}, customer : Customer \cup {None},
   status : {None, 200, 401, 403}, valid : BOOLEAN, held : SUBSET (Contexts \cup {None})]
SessionRows == [Token -> User \cup {None}]
ConversationTables == [Conversation -> ConversationRows \cup {None}]
Memories == [Conversation -> Bindings \cup {None}]

AccessTypeOK ==
  /\ memberships \in [User -> SUBSET Contexts]
  /\ sessions \in SessionRows /\ lapsed \subseteq Token
  /\ conversations \in ConversationTables /\ remembered \in Memories
  /\ processes \in Nat
  /\ requests \in [SupportRequest -> RequestStates]

\* What a request has read of its session (ss, and ls for the lapsed tokens) and of
\* its user's memberships (ms) is true of the time since it was sent.
BeforeSession(q, ss, ls) ==
  q.pc = "session" /\ q.token # None /\ ss[q.token] # None =>
    q.user = ss[q.token] /\ (q.token \notin ls => q.valid)
AfterSession(q) == q.pc \in {"membership", "list", "conversation", "create", "run", "store"} => q.valid /\ q.user # None
FollowsMemberships(q, ms) == Access!InFlight(q) /\ q.user # None => Access!ContextOf(ms[q.user]) \in q.held
HasAuthority(q) ==
  /\ q.context # None => q.valid /\ q.context \in q.held
  /\ q.pc # "unsent" /\ q.needs = "agent:invoke" => q.conversation \in Conversation /\ q.customer \in Customer
  /\ q.pc \in {"conversation", "create", "run", "store"} => q.context # None /\ q.needs = "agent:invoke"
AuthorityOK(q, ss, ls, ms) ==
  BeforeSession(q, ss, ls) /\ AfterSession(q) /\ FollowsMemberships(q, ms) /\ HasAuthority(q)

\* Rows of cs stay what they were created as, and the process remembers them so.
RunOK(q, cs) ==
  q.pc \in {"run", "store"} =>
    LET row == cs[q.conversation]
    IN  row # None /\ row.scope = q.context.scope /\ row.customer = q.customer
RememberedOK(known, cs) ==
  \A v \in Conversation : known[v] # None =>
    cs[v] # None /\ known[v] = [scope |-> cs[v].scope, customer |-> cs[v].customer]
Grows(cs, ds) ==
  \A v \in Conversation : cs[v] # None =>
    ds[v] # None /\ ds[v].scope = cs[v].scope /\ ds[v].customer = cs[v].customer

AccessInv ==
  /\ AccessTypeOK
  /\ \A r \in SupportRequest : AuthorityOK(requests[r], sessions, lapsed, memberships) /\ RunOK(requests[r], conversations)
  /\ RememberedOK(remembered, conversations)

LEMMA SameCardinality ==
  ASSUME NEW S
  PROVE  Access!Cardinality(S) = Cardinality(S) /\ Tokens!Cardinality(S) = Cardinality(S)
BY DEF Access!Cardinality, Tokens!Cardinality, Cardinality

LEMMA ContextInContexts ==
  ASSUME NEW rows \in SUBSET Contexts
  PROVE  Access!ContextOf(rows) \in Contexts \cup {None}
<1>1. CASE Cardinality(rows) = 1
  <2>1. rows # {}
    BY <1>1, FS_EmptySet
  <2> QED  BY <1>1, <2>1, SameCardinality DEF Access!ContextOf
<1>2. CASE Cardinality(rows) # 1
  BY <1>2, SameCardinality DEF Access!ContextOf
<1> QED  BY <1>1, <1>2

\* Sessions that end take nothing back of what was read before.
LEMMA AuthorityStands ==
  ASSUME NEW q \in RequestStates, NEW ss, NEW ls, NEW ms, NEW st, NEW lt,
         AuthorityOK(q, ss, ls, ms), ls \subseteq lt, \A t \in Token : st[t] # None => st[t] = ss[t]
  PROVE  AuthorityOK(q, st, lt, ms)
<1>1. q.token # None => q.token \in Token
  BY DEF RequestStates
<1>2. BeforeSession(q, st, lt)
  BY <1>1 DEF AuthorityOK, BeforeSession
<1> QED  BY <1>2 DEF AuthorityOK

LEMMA RunStands ==
  ASSUME NEW q \in RequestStates, NEW cs, NEW ds, HasAuthority(q), RunOK(q, cs), Grows(cs, ds)
  PROVE  RunOK(q, ds)
BY DEF HasAuthority, RunOK, Grows

\* A step of one request.
LEMMA Moved ==
  ASSUME AccessInv, NEW r \in SupportRequest, NEW new \in RequestStates,
         requests' = [requests EXCEPT ![r] = new],
         memberships' = memberships, lapsed' = lapsed, processes' = processes,
         sessions' \in SessionRows, \A t \in Token : sessions'[t] # None => sessions'[t] = sessions[t],
         conversations' \in ConversationTables, Grows(conversations, conversations'),
         remembered' \in Memories, RememberedOK(remembered', conversations'),
         AuthorityOK(new, sessions', lapsed, memberships), RunOK(new, conversations')
  PROVE  AccessInv'
<1>1. AccessTypeOK'
  BY DEF AccessInv, AccessTypeOK
<1>2. ASSUME NEW s \in SupportRequest
      PROVE  AuthorityOK(requests'[s], sessions', lapsed', memberships') /\ RunOK(requests'[s], conversations')
  <2>1. CASE s = r
    BY <2>1 DEF AccessInv, AccessTypeOK
  <2>2. CASE s # r
    <3>1. requests'[s] = requests[s] /\ requests[s] \in RequestStates
      BY <2>2 DEF AccessInv, AccessTypeOK
    <3>2. AuthorityOK(requests[s], sessions, lapsed, memberships) /\ RunOK(requests[s], conversations)
      BY DEF AccessInv
    <3>3. AuthorityOK(requests[s], sessions', lapsed, memberships)
      BY <3>1, <3>2, AuthorityStands
    <3>4. RunOK(requests[s], conversations')
      BY <3>1, <3>2, RunStands DEF AuthorityOK
    <3> QED  BY <3>1, <3>3, <3>4
  <2> QED  BY <2>1, <2>2
<1> QED  BY <1>1, <1>2 DEF AccessInv

LEMMA MovedOnly ==
  ASSUME AccessInv, NEW r \in SupportRequest, NEW new \in RequestStates,
         requests' = [requests EXCEPT ![r] = new],
         UNCHANGED <<memberships, sessions, lapsed, processes, conversations, remembered>>,
         AuthorityOK(new, sessions, lapsed, memberships), RunOK(new, conversations)
  PROVE  AccessInv'
<1>1. /\ sessions \in SessionRows /\ conversations \in ConversationTables /\ remembered \in Memories
      /\ RememberedOK(remembered, conversations)
  BY DEF AccessInv, AccessTypeOK
<1>2. Grows(conversations, conversations)
  BY DEF Grows
<1> QED  BY <1>1, <1>2, Moved

LEMMA AnsweredShape ==
  ASSUME NEW q \in RequestStates, NEW status \in {200, 401, 403}
  PROVE  LET new == Access!Answered(q, status)
         IN  /\ new \in RequestStates /\ new.pc = "answered" /\ new.context = q.context
             /\ new.valid = q.valid /\ new.held = q.held /\ new.needs = q.needs
             /\ new.conversation = q.conversation /\ new.customer = q.customer
<1> DEFINE a == [q EXCEPT !.pc = "answered"]
           new == Access!Answered(q, status)
<1>1. /\ a \in RequestStates /\ a.pc = "answered" /\ a.context = q.context
      /\ a.valid = q.valid /\ a.held = q.held /\ a.needs = q.needs
      /\ a.conversation = q.conversation /\ a.customer = q.customer
  BY DEF RequestStates
<1>2. new = [a EXCEPT !.status = status]
  BY DEF RequestStates, Access!Answered
<1> HIDE DEF a
<1>3. LET b == [a EXCEPT !.status = status]
      IN  /\ b \in RequestStates /\ b.pc = "answered" /\ b.context = q.context
          /\ b.valid = q.valid /\ b.held = q.held /\ b.needs = q.needs
          /\ b.conversation = q.conversation /\ b.customer = q.customer
  BY <1>1 DEF RequestStates
<1> QED  BY <1>2, <1>3

\* An answer takes no authority.
LEMMA AnsweredStep ==
  ASSUME AccessInv, NEW r \in SupportRequest, NEW status \in {200, 401, 403}, Access!Answer(r, status),
         requests[r].pc # "unsent", UNCHANGED <<memberships, sessions, lapsed, conversations, remembered>>
  PROVE  AccessInv'
<1> DEFINE new == Access!Answered(requests[r], status)
<1>1. requests[r] \in RequestStates /\ AuthorityOK(requests[r], sessions, lapsed, memberships)
      /\ Access!InFlight(requests[r]) \in BOOLEAN
  BY DEF AccessInv, AccessTypeOK, Access!InFlight
<1>2. /\ new \in RequestStates /\ new.pc = "answered" /\ new.context = requests[r].context
      /\ new.valid = requests[r].valid /\ new.held = requests[r].held
      /\ new.needs = requests[r].needs /\ new.conversation = requests[r].conversation
      /\ new.customer = requests[r].customer
  BY <1>1, AnsweredShape
<1>3. requests' = [requests EXCEPT ![r] = new] /\ processes' = processes
  BY DEF Access!Answer, Access!Move
<1> HIDE DEF new
<1> QED  BY <1>1, <1>2, <1>3, MovedOnly
     DEF AuthorityOK, BeforeSession, AfterSession, FollowsMemberships, HasAuthority, RunOK, Access!InFlight

\* The same request at another statement.
LEMMA PcShape ==
  ASSUME NEW q \in RequestStates, NEW pc \in {"expired", "membership", "create", "run", "store", "lost"}
  PROVE  LET new == Access!Reached(q, pc)
         IN  /\ new \in RequestStates /\ new.pc = pc /\ new.context = q.context /\ new.user = q.user
             /\ new.token = q.token /\ new.valid = q.valid /\ new.held = q.held /\ new.needs = q.needs
             /\ new.conversation = q.conversation /\ new.customer = q.customer
BY DEF RequestStates, Access!Reached

LEMMA SendStep ==
  ASSUME AccessInv, NEW r \in SupportRequest, Access!Send(r)
  PROVE  AccessInv'
<1>1. PICK t \in Token \cup {None}, ask \in Access!Asked : Access!Move(r, Access!Sent(t, ask))
  BY DEF Access!Send
<1> DEFINE u == IF t = None THEN None ELSE sessions[t]
           valid == t # None /\ u # None /\ t \notin lapsed
           kept == IF u = None THEN {} ELSE {Access!ContextOf(memberships[u])}
           new == [pc |-> "session", needs |-> ask.needs, token |-> t, user |-> u, context |-> None,
                   conversation |-> ask.conversation, customer |-> ask.customer, status |-> None,
                   valid |-> valid, held |-> kept]
<1>2. requests' = [requests EXCEPT ![r] = new] /\ processes' = processes
  BY <1>1 DEF Access!Move, Access!Sent
<1>3. u \in User \cup {None} /\ (t # None => u = sessions[t])
  BY DEF AccessInv, AccessTypeOK, SessionRows
<1>4. kept \subseteq Contexts \cup {None}
  <2>1. u # None => memberships[u] \in SUBSET Contexts
    BY <1>3 DEF AccessInv, AccessTypeOK
  <2> QED  BY <2>1, ContextInContexts
<1>5. valid \in BOOLEAN
  OBVIOUS
<1>6. /\ ask.needs \in {"agent:invoke", "audit:read"}
      /\ ask.conversation \in Conversation \cup {None} /\ ask.customer \in Customer \cup {None}
      /\ ask.needs = "agent:invoke" => ask.conversation \in Conversation /\ ask.customer \in Customer
  BY DEF Access!Asked
<1>7. u # None => Access!ContextOf(memberships[u]) \in kept
  OBVIOUS
<1>8. t \notin lapsed /\ t # None /\ u # None => valid
  OBVIOUS
<1> HIDE DEF u, valid, kept
<1>9. new \in RequestStates
  BY <1>3, <1>4, <1>5, <1>6 DEF RequestStates
<1>10. AuthorityOK(new, sessions, lapsed, memberships) /\ RunOK(new, conversations)
  BY <1>3, <1>6, <1>7, <1>8
     DEF AuthorityOK, BeforeSession, AfterSession, FollowsMemberships, HasAuthority, RunOK
<1> QED  BY <1>2, <1>9, <1>10, MovedOnly DEF Access!Send, Access!identity

LEMMA FindSessionStep ==
  ASSUME AccessInv, NEW r \in SupportRequest, Access!FindSession(r)
  PROVE  AccessInv'
<1> DEFINE q == requests[r]
<1>1. q \in RequestStates /\ AuthorityOK(q, sessions, lapsed, memberships)
  BY DEF AccessInv, AccessTypeOK
<1>2. /\ q.pc = "session" /\ UNCHANGED <<memberships, sessions, lapsed, conversations, remembered>>
      /\ \/ Access!Answer(r, 401)
         \/ /\ q.token # None /\ sessions[q.token] # None /\ q.token \notin lapsed
            /\ Access!Move(r, [q EXCEPT !.pc = "membership", !.user = sessions[q.token]])
         \/ Access!Move(r, Access!Reached(q, "expired"))
  BY DEF Access!FindSession, Access!At, Access!Unexpired, Access!identity
<1>3. CASE Access!Answer(r, 401)
  BY <1>2, <1>3, AnsweredStep
<1>4. CASE Access!Move(r, Access!Reached(q, "expired"))
  <2> DEFINE new == Access!Reached(q, "expired")
  <2>1. /\ new \in RequestStates /\ new.pc = "expired" /\ new.context = q.context /\ new.user = q.user
        /\ new.valid = q.valid /\ new.held = q.held /\ new.needs = q.needs
        /\ new.conversation = q.conversation /\ new.customer = q.customer
    BY <1>1, PcShape
  <2>2. requests' = [requests EXCEPT ![r] = new] /\ processes' = processes
    BY <1>4 DEF Access!Move
  <2> HIDE DEF new
  <2>3. AuthorityOK(new, sessions, lapsed, memberships) /\ RunOK(new, conversations)
    BY <1>1, <1>2, <2>1 DEF AuthorityOK, BeforeSession, AfterSession, FollowsMemberships, HasAuthority,
                            RunOK, Access!InFlight
  <2> QED  BY <1>2, <2>1, <2>2, <2>3, MovedOnly
<1>5. CASE /\ q.token # None /\ sessions[q.token] # None /\ q.token \notin lapsed
           /\ Access!Move(r, [q EXCEPT !.pc = "membership", !.user = sessions[q.token]])
  <2> DEFINE new == Access!Reached(q, "membership")
  <2>1. q.user = sessions[q.token] /\ q.valid /\ q.user # None
    BY <1>1, <1>2, <1>5 DEF AuthorityOK, BeforeSession
  <2>2. [q EXCEPT !.pc = "membership", !.user = sessions[q.token]] = new
    BY <1>1, <2>1 DEF RequestStates, Access!Reached
  <2>3. /\ new \in RequestStates /\ new.pc = "membership" /\ new.context = q.context /\ new.user = q.user
        /\ new.valid = q.valid /\ new.held = q.held /\ new.needs = q.needs
        /\ new.conversation = q.conversation /\ new.customer = q.customer
    BY <1>1, PcShape
  <2>4. requests' = [requests EXCEPT ![r] = new] /\ processes' = processes
    BY <1>5, <2>2 DEF Access!Move
  <2> HIDE DEF new
  <2>5. AuthorityOK(new, sessions, lapsed, memberships) /\ RunOK(new, conversations)
    BY <1>1, <1>2, <2>1, <2>3 DEF AuthorityOK, BeforeSession, AfterSession, FollowsMemberships, HasAuthority,
                                  RunOK, Access!InFlight
  <2> QED  BY <1>2, <2>3, <2>4, <2>5, MovedOnly
<1> QED  BY <1>2, <1>3, <1>4, <1>5

LEMMA DeleteExpiredStep ==
  ASSUME AccessInv, NEW r \in SupportRequest, Access!DeleteExpired(r)
  PROVE  AccessInv'
<1> DEFINE new == Access!Answered(requests[r], 401)
           gone == [sessions EXCEPT ![requests[r].token] = None]
<1>1. requests[r] \in RequestStates /\ AuthorityOK(requests[r], sessions, lapsed, memberships)
  BY DEF AccessInv, AccessTypeOK
<1>2. /\ requests' = [requests EXCEPT ![r] = new] /\ requests[r].pc = "expired" /\ sessions' = gone
      /\ UNCHANGED <<memberships, lapsed, conversations, remembered, processes>>
  BY DEF Access!DeleteExpired, Access!Answer, Access!Move, Access!At
<1>3. /\ new \in RequestStates /\ new.pc = "answered" /\ new.context = requests[r].context
      /\ new.valid = requests[r].valid /\ new.held = requests[r].held
      /\ new.needs = requests[r].needs /\ new.conversation = requests[r].conversation
      /\ new.customer = requests[r].customer
  BY <1>1, AnsweredShape
<1> HIDE DEF new
<1>4. gone \in SessionRows /\ \A t \in Token : gone[t] # None => gone[t] = sessions[t]
  BY DEF AccessInv, AccessTypeOK, SessionRows
<1>5. AuthorityOK(new, sessions', lapsed, memberships) /\ RunOK(new, conversations)
  BY <1>1, <1>2, <1>3
     DEF AuthorityOK, BeforeSession, AfterSession, FollowsMemberships, HasAuthority, RunOK, Access!InFlight
<1> HIDE DEF gone
<1>6. /\ conversations \in ConversationTables /\ remembered \in Memories /\ RememberedOK(remembered, conversations)
      /\ Grows(conversations, conversations)
  BY DEF AccessInv, AccessTypeOK, Grows
<1> QED  BY <1>2, <1>3, <1>4, <1>5, <1>6, Moved

LEMMA FindMembershipStep ==
  ASSUME AccessInv, NEW r \in SupportRequest, Access!FindMembership(r)
  PROVE  AccessInv'
<1> DEFINE q == requests[r]
           found == Access!ContextOf(memberships[q.user])
           at(pc) == [q EXCEPT !.pc = pc, !.context = found]
<1>1. q \in RequestStates /\ AuthorityOK(q, sessions, lapsed, memberships)
  BY DEF AccessInv, AccessTypeOK
<1>2. /\ q.pc = "membership" /\ UNCHANGED <<memberships, sessions, lapsed, conversations, remembered>>
      /\ \/ Access!Answer(r, 401)
         \/ Access!Answer(r, 403)
         \/ found # None /\ Access!Move(r, at("list"))
         \/ found # None /\ q.needs # "audit:read" /\ Access!Move(r, at("conversation"))
  BY DEF Access!FindMembership, Access!At, Access!identity, Access!MembershipsOf
<1>3. q.valid /\ q.user # None /\ found \in q.held
  BY <1>1, <1>2 DEF AuthorityOK, AfterSession, FollowsMemberships, Access!InFlight
<1>4. found \in Contexts \cup {None}
  <2>1. memberships[q.user] \in SUBSET Contexts
    BY <1>1, <1>3 DEF AccessInv, AccessTypeOK, RequestStates
  <2> QED  BY <2>1, ContextInContexts
<1>5. CASE Access!Answer(r, 401) \/ Access!Answer(r, 403)
  BY <1>2, <1>5, AnsweredStep
<1> HIDE DEF found
<1>6. ASSUME NEW pc \in {"list", "conversation"}, found # None, pc = "conversation" => q.needs # "audit:read",
             Access!Move(r, at(pc))
      PROVE  AccessInv'
  <2> DEFINE new == at(pc)
  <2>1. /\ new \in RequestStates /\ new.pc = pc /\ new.context = found /\ new.user = q.user
        /\ new.valid = q.valid /\ new.held = q.held /\ new.needs = q.needs
        /\ new.conversation = q.conversation /\ new.customer = q.customer
    <3> DEFINE a == Access!Reached(q, pc)
    <3>1. /\ a \in RequestStates /\ a.pc = pc /\ a.user = q.user
          /\ a.valid = q.valid /\ a.held = q.held /\ a.needs = q.needs
          /\ a.conversation = q.conversation /\ a.customer = q.customer
      BY <1>1 DEF RequestStates, Access!Reached
    <3>2. new = [a EXCEPT !.context = found]
      BY <1>1 DEF RequestStates, Access!Reached
    <3> HIDE DEF a, new
    <3> QED  BY <1>4, <3>1, <3>2 DEF RequestStates
  <2>2. requests' = [requests EXCEPT ![r] = new] /\ processes' = processes
    BY <1>6 DEF Access!Move
  <2>3. q.needs = "audit:read" \/ q.needs = "agent:invoke"
    BY <1>1 DEF RequestStates
  <2>4. Access!ContextOf(memberships[q.user]) \in q.held
    BY <1>3 DEF found
  <2> HIDE DEF new, at
  <2>5. AuthorityOK(new, sessions, lapsed, memberships) /\ RunOK(new, conversations)
    BY <1>1, <1>2, <1>3, <1>6, <2>1, <2>3, <2>4 DEF AuthorityOK, BeforeSession, AfterSession, FollowsMemberships,
                                                    HasAuthority, RunOK
  <2> QED  BY <1>2, <2>1, <2>2, <2>5, MovedOnly
<1> QED  BY <1>2, <1>5, <1>6

\* A request that goes on to a statement after its conversation is there.
LEMMA GoesOn ==
  ASSUME AccessInv, NEW r \in SupportRequest, NEW pc \in {"create", "run", "store"},
         Access!Move(r, Access!Reached(requests[r], pc)),
         requests[r].pc \in {"conversation", "create", "run", "store"},
         UNCHANGED <<memberships, sessions, lapsed>>,
         conversations' \in ConversationTables, Grows(conversations, conversations'),
         remembered' \in Memories, RememberedOK(remembered', conversations'),
         pc # "create" =>
           LET row == conversations'[requests[r].conversation]
           IN  row # None /\ row.scope = requests[r].context.scope /\ row.customer = requests[r].customer
  PROVE  AccessInv'
<1> DEFINE q == requests[r]
           new == Access!Reached(q, pc)
<1>1. q \in RequestStates /\ AuthorityOK(q, sessions, lapsed, memberships)
  BY DEF AccessInv, AccessTypeOK
<1>2. /\ new \in RequestStates /\ new.pc = pc /\ new.context = q.context /\ new.user = q.user
      /\ new.valid = q.valid /\ new.held = q.held /\ new.needs = q.needs
      /\ new.conversation = q.conversation /\ new.customer = q.customer
  BY <1>1, PcShape
<1>3. requests' = [requests EXCEPT ![r] = new] /\ processes' = processes
  BY DEF Access!Move
<1> HIDE DEF new
<1>4. AuthorityOK(new, sessions', lapsed, memberships)
  BY <1>1, <1>2 DEF AuthorityOK, BeforeSession, AfterSession, FollowsMemberships, HasAuthority, Access!InFlight
<1>5. RunOK(new, conversations')
  BY <1>2 DEF RunOK
<1>6. sessions' \in SessionRows /\ \A t \in Token : sessions'[t] # None => sessions'[t] = sessions[t]
  BY DEF AccessInv, AccessTypeOK
<1> QED  BY <1>2, <1>3, <1>4, <1>5, <1>6, Moved

\* The process ends, with every request it was serving.
LEMMA EndedStep ==
  ASSUME AccessInv, Access!Ends, UNCHANGED <<memberships, sessions, lapsed, conversations>>
  PROVE  AccessInv'
<1>1. /\ remembered' = [v \in Conversation |-> None] /\ processes' = processes
      /\ requests' = [r \in SupportRequest |->
           IF Access!InFlight(requests[r]) THEN Access!Reached(requests[r], "lost") ELSE requests[r]]
  BY DEF Access!Ends
<1>2. ASSUME NEW s \in SupportRequest
      PROVE  /\ requests'[s] \in RequestStates
             /\ AuthorityOK(requests'[s], sessions, lapsed, memberships) /\ RunOK(requests'[s], conversations)
  <2> DEFINE q == requests[s]
             new == Access!Reached(q, "lost")
  <2>1. q \in RequestStates /\ AuthorityOK(q, sessions, lapsed, memberships) /\ RunOK(q, conversations)
    BY DEF AccessInv, AccessTypeOK
  <2>2. requests'[s] = IF Access!InFlight(q) THEN new ELSE q
    BY <1>1
  <2>3. /\ new \in RequestStates /\ new.pc = "lost" /\ new.context = q.context /\ new.valid = q.valid
        /\ new.held = q.held /\ new.needs = q.needs /\ new.conversation = q.conversation
        /\ new.customer = q.customer
    BY <2>1, PcShape
  <2> HIDE DEF new
  <2>4. CASE Access!InFlight(q)
    <3>1. AuthorityOK(new, sessions, lapsed, memberships) /\ RunOK(new, conversations)
      BY <2>1, <2>3, <2>4 DEF AuthorityOK, BeforeSession, AfterSession, FollowsMemberships, HasAuthority,
                              RunOK, Access!InFlight
    <3> QED  BY <2>2, <2>3, <2>4, <3>1
  <2>5. CASE ~Access!InFlight(q)
    BY <2>1, <2>2, <2>5
  <2> QED  BY <2>4, <2>5
<1>3. AccessTypeOK'
  <2>1. requests' \in [SupportRequest -> RequestStates]
    BY <1>1, <1>2
  <2>2. remembered' \in Memories
    BY <1>1 DEF Memories
  <2> QED  BY <1>1, <2>1, <2>2 DEF AccessInv, AccessTypeOK
<1>4. RememberedOK(remembered', conversations')
  BY <1>1 DEF RememberedOK
<1> QED  BY <1>2, <1>3, <1>4 DEF AccessInv

LEMMA FindConversationStep ==
  ASSUME AccessInv, NEW r \in SupportRequest, Access!FindConversation(r)
  PROVE  AccessInv'
<1> DEFINE row == conversations[requests[r].conversation]
<1>1. /\ requests[r].pc = "conversation" /\ UNCHANGED <<memberships, sessions, lapsed, conversations>>
      /\ \/ UNCHANGED remembered /\ Access!Move(r, Access!Reached(requests[r], "create"))
         \/ /\ row # None /\ row.scope = requests[r].context.scope /\ row.customer = requests[r].customer
            /\ UNCHANGED remembered /\ Access!Move(r, Access!Reached(requests[r], "run"))
         \/ Access!Ends
  BY DEF Access!FindConversation, Access!At, Access!identity, Access!SameScope, Access!SameCustomer
<1>2. /\ conversations \in ConversationTables /\ remembered \in Memories
      /\ RememberedOK(remembered, conversations) /\ Grows(conversations, conversations)
  BY DEF AccessInv, AccessTypeOK, Grows
<1>3. CASE UNCHANGED remembered /\ Access!Move(r, Access!Reached(requests[r], "create"))
  BY <1>1, <1>2, <1>3, GoesOn
<1>4. CASE /\ row # None /\ row.scope = requests[r].context.scope /\ row.customer = requests[r].customer
           /\ UNCHANGED remembered /\ Access!Move(r, Access!Reached(requests[r], "run"))
  BY <1>1, <1>2, <1>4, GoesOn
<1>5. CASE Access!Ends
  BY <1>1, <1>5, EndedStep
<1> QED  BY <1>1, <1>3, <1>4, <1>5

\* Two requests may both have found no row: the primary key lets one of them insert it.
LEMMA CreateConversationStep ==
  ASSUME AccessInv, NEW r \in SupportRequest, Access!CreateConversation(r)
  PROVE  AccessInv'
<1> DEFINE q == requests[r]
           v == q.conversation
           row == [scope |-> q.context.scope, customer |-> q.customer, pi |-> None]
<1>1. /\ q.pc = "create" /\ UNCHANGED <<memberships, sessions, lapsed>>
      /\ \/ /\ conversations[v] = None /\ conversations' = [conversations EXCEPT ![v] = row]
            /\ UNCHANGED remembered /\ Access!Move(r, Access!Reached(q, "run"))
         \/ UNCHANGED conversations /\ Access!Ends
  BY DEF Access!CreateConversation, Access!At, Access!identity, Access!Insertable
<1>2. CASE UNCHANGED conversations /\ Access!Ends
  BY <1>1, <1>2, EndedStep
<1>3. CASE /\ conversations[v] = None /\ conversations' = [conversations EXCEPT ![v] = row]
           /\ UNCHANGED remembered /\ Access!Move(r, Access!Reached(q, "run"))
  <2>1. q \in RequestStates /\ AuthorityOK(q, sessions, lapsed, memberships)
    BY DEF AccessInv, AccessTypeOK
  <2>2. q.context \in Contexts /\ v \in Conversation /\ q.customer \in Customer
    BY <1>1, <2>1 DEF AuthorityOK, HasAuthority, RequestStates
  <2>3. row \in ConversationRows /\ row # None
    BY <2>2, AccessAssumption DEF ConversationRows, Contexts
  <2>4. conversations \in ConversationTables /\ remembered \in Memories /\ RememberedOK(remembered, conversations)
    BY DEF AccessInv, AccessTypeOK
  <2>5. row.scope = q.context.scope /\ row.customer = q.customer
    OBVIOUS
  <2> HIDE DEF row
  <2>6. conversations' \in ConversationTables /\ conversations'[v] = row
        /\ \A w \in Conversation : w # v => conversations'[w] = conversations[w]
    BY <1>3, <2>2, <2>3, <2>4 DEF ConversationTables
  <2>7. Grows(conversations, conversations')
    BY <1>3, <2>6 DEF Grows
  <2>8. RememberedOK(remembered, conversations')
    BY <1>3, <2>4, <2>6 DEF RememberedOK
  <2>9. remembered' \in Memories /\ RememberedOK(remembered', conversations')
    BY <1>3, <2>4, <2>8
  <2>10. LET row1 == conversations'[q.conversation]
         IN  row1 # None /\ row1.scope = q.context.scope /\ row1.customer = q.customer
    BY <2>3, <2>5, <2>6
  <2> HIDE DEF v
  <2> QED  BY <1>1, <1>3, <2>6, <2>7, <2>9, <2>10, GoesOn
<1> QED  BY <1>1, <1>2, <1>3

LEMMA RunStep ==
  ASSUME AccessInv, NEW r \in SupportRequest, Access!Run(r)
  PROVE  AccessInv'
<1> DEFINE q == requests[r]
           v == q.conversation
           binding == [scope |-> q.context.scope, customer |-> q.customer]
<1>1. /\ q.pc = "run" /\ UNCHANGED <<memberships, sessions, lapsed, conversations>>
      /\ \/ /\ remembered' = [remembered EXCEPT ![v] = binding]
            /\ Access!Move(r, Access!Reached(q, "store"))
         \/ Access!Ends
  BY DEF Access!Run, Access!At, Access!identity, Access!RuntimeRequest
<1>2. CASE Access!Ends
  BY <1>1, <1>2, EndedStep
<1>3. CASE remembered' = [remembered EXCEPT ![v] = binding] /\ Access!Move(r, Access!Reached(q, "store"))
  <2>1. q \in RequestStates /\ AuthorityOK(q, sessions, lapsed, memberships) /\ RunOK(q, conversations)
    BY DEF AccessInv, AccessTypeOK
  <2>2. q.context \in Contexts /\ v \in Conversation /\ q.customer \in Customer
    BY <1>1, <2>1 DEF AuthorityOK, HasAuthority, RequestStates
  <2>3. binding \in Bindings
    BY <2>2 DEF Bindings, Contexts
  <2>4. conversations[v] # None /\ binding = [scope |-> conversations[v].scope, customer |-> conversations[v].customer]
    BY <1>1, <2>1 DEF RunOK
  <2>5. /\ conversations \in ConversationTables /\ Grows(conversations, conversations)
        /\ remembered \in Memories /\ RememberedOK(remembered, conversations)
    BY DEF AccessInv, AccessTypeOK, Grows
  <2> HIDE DEF binding
  <2>6. remembered' \in Memories
    BY <1>3, <2>3, <2>5 DEF Memories
  <2>7. RememberedOK(remembered', conversations)
    BY <1>3, <2>2, <2>4, <2>5 DEF RememberedOK, Memories
  <2>8. LET row == conversations[q.conversation]
        IN  row # None /\ row.scope = q.context.scope /\ row.customer = q.customer
    BY <1>1, <2>1 DEF RunOK
  <2> QED  BY <1>1, <1>3, <2>5, <2>6, <2>7, <2>8, GoesOn
<1> QED  BY <1>1, <1>2, <1>3

LEMMA StorePiSessionStep ==
  ASSUME AccessInv, NEW r \in SupportRequest, Access!StorePiSession(r)
  PROVE  AccessInv'
<1> DEFINE q == requests[r]
           v == q.conversation
           new == Access!Answered(q, 200)
           kept == [conversations EXCEPT ![v].pi = processes]
<1>1. /\ q.pc = "store" /\ UNCHANGED <<memberships, sessions, lapsed, remembered, processes>>
      /\ conversations' = kept /\ requests' = [requests EXCEPT ![r] = new]
  BY DEF Access!StorePiSession, Access!At, Access!identity, Access!Answer, Access!Move
<1>2. q \in RequestStates /\ AuthorityOK(q, sessions, lapsed, memberships) /\ RunOK(q, conversations)
  BY DEF AccessInv, AccessTypeOK
<1>3. v \in Conversation /\ conversations[v] # None
  BY <1>1, <1>2 DEF AuthorityOK, HasAuthority, RunOK, RequestStates
<1>4. /\ conversations \in ConversationTables /\ remembered \in Memories /\ processes \in Nat
      /\ RememberedOK(remembered, conversations)
  BY DEF AccessInv, AccessTypeOK
<1>5. /\ kept \in ConversationTables /\ \A w \in Conversation : w # v => kept[w] = conversations[w]
      /\ kept[v] # None /\ kept[v].scope = conversations[v].scope /\ kept[v].customer = conversations[v].customer
  <2> DEFINE row == [conversations[v] EXCEPT !.pi = processes]
  <2>1. conversations[v] \in ConversationRows
    BY <1>3, <1>4 DEF ConversationTables
  <2>2. row \in ConversationRows /\ row.scope = conversations[v].scope /\ row.customer = conversations[v].customer
    BY <2>1, <1>4 DEF ConversationRows
  <2>3. kept = [conversations EXCEPT ![v] = row]
    BY <1>3, <1>4 DEF ConversationTables
  <2> HIDE DEF row, kept, v
  <2>4. row # None
    BY <2>2, AccessAssumption
  <2> QED  BY <1>3, <1>4, <2>2, <2>3, <2>4 DEF ConversationTables
<1> HIDE DEF kept
<1>6. Grows(conversations, kept)
  BY <1>5 DEF Grows
<1>7. RememberedOK(remembered, kept)
  BY <1>4, <1>5 DEF RememberedOK
<1>8. /\ new \in RequestStates /\ new.pc = "answered" /\ new.context = q.context
      /\ new.valid = q.valid /\ new.held = q.held /\ new.needs = q.needs
      /\ new.conversation = q.conversation /\ new.customer = q.customer
  BY <1>2, AnsweredShape
<1> HIDE DEF new
<1>9. AuthorityOK(new, sessions, lapsed, memberships) /\ RunOK(new, kept)
  BY <1>1, <1>2, <1>8
     DEF AuthorityOK, BeforeSession, AfterSession, FollowsMemberships, HasAuthority, RunOK, Access!InFlight
<1>10. sessions \in SessionRows
  BY DEF AccessInv, AccessTypeOK
<1> QED  BY <1>1, <1>4, <1>5, <1>6, <1>7, <1>8, <1>9, <1>10, Moved

LEMMA RequestStep ==
  ASSUME AccessInv, NEW r \in SupportRequest,
         \/ Access!Send(r) \/ Access!FindSession(r) \/ Access!DeleteExpired(r) \/ Access!FindMembership(r)
         \/ Access!ListAudit(r) \/ Access!FindConversation(r) \/ Access!CreateConversation(r) \/ Access!Run(r)
         \/ Access!StorePiSession(r) \/ Access!Fails(r)
  PROVE  AccessInv'
<1>1. CASE Access!Send(r)
  BY <1>1, SendStep
<1>2. CASE Access!FindSession(r)
  BY <1>2, FindSessionStep
<1>3. CASE Access!DeleteExpired(r)
  BY <1>3, DeleteExpiredStep
<1>4. CASE Access!FindMembership(r)
  BY <1>4, FindMembershipStep
<1>5. CASE Access!ListAudit(r)
  BY <1>5, AnsweredStep DEF Access!ListAudit, Access!At, Access!identity
<1>6. CASE Access!FindConversation(r)
  BY <1>6, FindConversationStep
<1>7. CASE Access!CreateConversation(r)
  BY <1>7, CreateConversationStep
<1>8. CASE Access!Run(r)
  BY <1>8, RunStep
<1>9. CASE Access!StorePiSession(r)
  BY <1>9, StorePiSessionStep
<1>10. CASE Access!Fails(r)
  BY <1>10, EndedStep DEF Access!Fails, Access!identity
<1> QED  BY <1>1, <1>2, <1>3, <1>4, <1>5, <1>6, <1>7, <1>8, <1>9, <1>10

\* A new session has a token no request carries.
LEMMA LoginStep ==
  ASSUME AccessInv, NEW u \in User, NEW t \in Token, Access!Login(u, t)
  PROVE  AccessInv'
<1>1. /\ \A r \in SupportRequest : requests[r].token # t
      /\ sessions' = [sessions EXCEPT ![t] = u]
      /\ UNCHANGED <<memberships, lapsed, requests, conversations, remembered, processes>>
  BY DEF Access!Login, Access!Change
<1>2. /\ sessions' \in SessionRows /\ \A w \in Token : w # t => sessions'[w] = sessions[w]
  BY <1>1 DEF AccessInv, AccessTypeOK, SessionRows
<1>3. AccessTypeOK'
  BY <1>1, <1>2 DEF AccessInv, AccessTypeOK
<1>4. ASSUME NEW r \in SupportRequest
      PROVE  AuthorityOK(requests[r], sessions', lapsed, memberships) /\ RunOK(requests[r], conversations)
  <2>1. /\ requests[r] \in RequestStates /\ requests[r].token # t
        /\ AuthorityOK(requests[r], sessions, lapsed, memberships) /\ RunOK(requests[r], conversations)
    BY <1>1 DEF AccessInv, AccessTypeOK
  <2>2. requests[r].token # None => sessions'[requests[r].token] = sessions[requests[r].token]
    BY <1>2, <2>1 DEF RequestStates
  <2>3. BeforeSession(requests[r], sessions', lapsed)
    BY <2>1, <2>2 DEF AuthorityOK, BeforeSession
  <2> QED  BY <2>1, <2>3 DEF AuthorityOK
<1>5. RememberedOK(remembered, conversations)
  BY DEF AccessInv
<1> QED  BY <1>1, <1>3, <1>4, <1>5 DEF AccessInv

LEMMA SessionEndsStep ==
  ASSUME AccessInv, NEW t \in Token, Access!Logout(t) \/ Access!Lapse(t)
  PROVE  AccessInv'
<1>1. /\ UNCHANGED <<memberships, requests, conversations, remembered, processes>>
      /\ \/ sessions' = [sessions EXCEPT ![t] = None] /\ lapsed' = lapsed
         \/ sessions' = sessions /\ lapsed' = lapsed \cup {t}
  BY DEF Access!Logout, Access!Lapse, Access!Change
<1>2. /\ sessions' \in SessionRows /\ lapsed' \subseteq Token /\ lapsed \subseteq lapsed'
      /\ \A w \in Token : sessions'[w] # None => sessions'[w] = sessions[w]
  BY <1>1 DEF AccessInv, AccessTypeOK, SessionRows
<1>3. AccessTypeOK'
  BY <1>1, <1>2 DEF AccessInv, AccessTypeOK
<1>4. ASSUME NEW r \in SupportRequest
      PROVE  AuthorityOK(requests[r], sessions', lapsed', memberships) /\ RunOK(requests[r], conversations)
  <2>1. /\ requests[r] \in RequestStates
        /\ AuthorityOK(requests[r], sessions, lapsed, memberships) /\ RunOK(requests[r], conversations)
    BY DEF AccessInv, AccessTypeOK
  <2> QED  BY <1>2, <2>1, AuthorityStands
<1>5. RememberedOK(remembered, conversations)
  BY DEF AccessInv
<1> QED  BY <1>1, <1>3, <1>4, <1>5 DEF AccessInv

\* Whoever changes the memberships of a user changes what its requests may have read.
LEMMA SetMembershipsStep ==
  ASSUME AccessInv, NEW u \in User, NEW rows \in NewRows, Access!SetMemberships(u, rows)
  PROVE  AccessInv'
<1> DEFINE context == Access!ContextOf(rows)
<1>1. /\ memberships' = [memberships EXCEPT ![u] = rows]
      /\ requests' = [r \in SupportRequest |->
           IF Access!InFlight(requests[r]) /\ requests[r].user = u
             THEN [requests[r] EXCEPT !.held = @ \cup {context}] ELSE requests[r]]
      /\ UNCHANGED <<sessions, lapsed, conversations, remembered, processes>>
  BY DEF Access!SetMemberships, Access!Change
<1>2. rows \in SUBSET Contexts /\ context \in Contexts \cup {None}
  <2>1. rows \in SUBSET Contexts
    BY AccessAssumption DEF Contexts
  <2> QED  BY <2>1, ContextInContexts
<1>3. memberships' \in [User -> SUBSET Contexts] /\ memberships'[u] = rows
      /\ \A w \in User : w # u => memberships'[w] = memberships[w]
  BY <1>1, <1>2 DEF AccessInv, AccessTypeOK
<1>4. ASSUME NEW r \in SupportRequest
      PROVE  /\ requests'[r] \in RequestStates
             /\ AuthorityOK(requests'[r], sessions, lapsed, memberships') /\ RunOK(requests'[r], conversations)
  <2> DEFINE q == requests[r]
             new == [q EXCEPT !.held = @ \cup {context}]
  <2>1. q \in RequestStates /\ AuthorityOK(q, sessions, lapsed, memberships) /\ RunOK(q, conversations)
    BY DEF AccessInv, AccessTypeOK
  <2>2. requests'[r] = IF Access!InFlight(q) /\ q.user = u THEN new ELSE q
    BY <1>1
  <2> HIDE DEF context
  <2>3. /\ new \in RequestStates /\ new.pc = q.pc /\ new.context = q.context /\ new.valid = q.valid
        /\ new.token = q.token /\ new.user = q.user
        /\ new.held = q.held \cup {context} /\ new.needs = q.needs /\ new.conversation = q.conversation
        /\ new.customer = q.customer
    BY <1>2, <2>1 DEF RequestStates
  <2> HIDE DEF new
  <2>4. CASE Access!InFlight(q) /\ q.user = u
    <3>1. AuthorityOK(new, sessions, lapsed, memberships') /\ RunOK(new, conversations)
      BY <1>3, <2>1, <2>3, <2>4 DEF AuthorityOK, BeforeSession, AfterSession, FollowsMemberships, HasAuthority,
                              RunOK, Access!InFlight, context
    <3> QED  BY <2>2, <2>3, <2>4, <3>1
  <2>5. CASE ~(Access!InFlight(q) /\ q.user = u)
    <3>1. FollowsMemberships(q, memberships')
      BY <1>3, <2>1, <2>5 DEF AuthorityOK, FollowsMemberships, RequestStates
    <3>2. AuthorityOK(q, sessions, lapsed, memberships')
      BY <2>1, <3>1 DEF AuthorityOK
    <3> QED  BY <2>1, <2>2, <2>5, <3>2
  <2> QED  BY <2>4, <2>5
<1>5. AccessTypeOK'
  <2>1. requests' \in [SupportRequest -> RequestStates]
    BY <1>1, <1>4
  <2> QED  BY <1>1, <1>3, <2>1 DEF AccessInv, AccessTypeOK
<1>6. RememberedOK(remembered, conversations)
  BY DEF AccessInv
<1> QED  BY <1>1, <1>4, <1>5, <1>6 DEF AccessInv

LEMMA AccessInit ==
  ASSUME Access!Init
  PROVE  AccessInv
<1>1. /\ memberships = [u \in User |-> {[scope |-> Home[u], role |-> "agent"]}]
      /\ sessions = [t \in Token |-> None] /\ lapsed = {}
      /\ conversations = [v \in Conversation |-> None] /\ remembered = [v \in Conversation |-> None]
      /\ processes = 1 /\ requests = [r \in SupportRequest |-> Access!Unsent]
  BY DEF Access!Init
<1>2. Access!Unsent \in RequestStates
  BY DEF Access!Unsent, RequestStates
<1>3. memberships \in [User -> SUBSET Contexts]
  BY <1>1, AccessAssumption DEF Contexts
<1>4. AccessTypeOK
  BY <1>1, <1>2, <1>3 DEF AccessTypeOK, SessionRows, ConversationTables, Memories
<1>5. \A r \in SupportRequest : AuthorityOK(requests[r], sessions, lapsed, memberships) /\ RunOK(requests[r], conversations)
  <2>1. /\ Access!Unsent.pc = "unsent" /\ Access!Unsent.context = None
    BY DEF Access!Unsent
  <2> QED  BY <1>1, <2>1 DEF AuthorityOK, BeforeSession, AfterSession, FollowsMemberships, HasAuthority, RunOK,
                             Access!InFlight
<1>6. RememberedOK(remembered, conversations)
  BY <1>1 DEF RememberedOK
<1> QED  BY <1>4, <1>5, <1>6 DEF AccessInv

LEMMA AccessStep ==
  ASSUME AccessInv, [Access!Next]_accessVars
  PROVE  AccessInv'
<1>1. CASE \E r \in SupportRequest :
             \/ Access!Send(r) \/ Access!FindSession(r) \/ Access!DeleteExpired(r) \/ Access!FindMembership(r)
             \/ Access!ListAudit(r) \/ Access!FindConversation(r) \/ Access!CreateConversation(r) \/ Access!Run(r)
             \/ Access!StorePiSession(r) \/ Access!Fails(r)
  BY <1>1, RequestStep
<1>2. CASE Access!Restart
  BY <1>2 DEF AccessInv, AccessTypeOK, Access!Restart, Access!identity
<1>3. CASE \E u \in User, t \in Token : Access!Login(u, t)
  BY <1>3, LoginStep
<1>4. CASE \E t \in Token : Access!Logout(t) \/ Access!Lapse(t)
  BY <1>4, SessionEndsStep
<1>5. CASE \E u \in User, rows \in NewRows : Access!SetMemberships(u, rows)
  BY <1>5, SetMembershipsStep
<1>6. CASE UNCHANGED accessVars
  BY <1>6 DEF AccessInv, AccessTypeOK, accessVars
<1> QED  BY <1>1, <1>2, <1>3, <1>4, <1>5, <1>6 DEF Access!Next

\* What a request does, it does with a membership its user was alone to hold since
\* it was sent, with a session that was good by then, and for a conversation of
\* that membership's store (resolveExecutionContext, resolveConversation).
THEOREM AccessRequestsHold == Access!Spec => []RequestsActForTheirUser
<1>1. Access!Init => AccessInv
  BY AccessInit
<1>2. AccessInv /\ [Access!Next]_(Access!vars) => AccessInv'
  BY AccessStep DEF Access!vars, Access!identity, accessVars
<1>3. AccessInv => RequestsActForTheirUser
  <2> SUFFICES ASSUME AccessInv
               PROVE  RequestsActForTheirUser
    OBVIOUS
  <2>1. Access!AuthorityIsRecent
    BY DEF AccessInv, AuthorityOK, HasAuthority, Access!AuthorityIsRecent
  <2>2. Access!RunsInOwnScope
    BY DEF AccessInv, RunOK, RememberedOK, Access!RunsInOwnScope, Access!RuntimeRequest
  <2> QED  BY <2>1, <2>2 DEF RequestsActForTheirUser
<1> QED  BY <1>1, <1>2, <1>3, PTL DEF Access!Spec

-----------------------------------------------------------------------------
(* AccessTokens: what a cached token is still good for.                    *)

TokenNumbers == Nat \ {0}
CallStates ==
  [phase : {"idle", "fetch", "handed", "post", "answered", "done"}, refresh : BOOLEAN,
   token : TokenNumbers \cup {None}, left : Nat, since : Nat, own : BOOLEAN, processed : Nat,
   refused : SUBSET TokenNumbers, result : {None, "ok", "token", "rejected", "accepted", "indeterminate"}]
Caches == [token : TokenNumbers, expires : Nat]
IssuedOK(is) == \E n \in Nat : is \in [1..n -> Nat]
Later(is, js) == \A t \in DOMAIN is : t \in DOMAIN js /\ js[t] = is[t]

TokensTypeOK ==
  /\ client \in Clients /\ cached \in Caches \cup {None}
  /\ calls \in [Call -> CallStates]
  /\ now \in Nat /\ IssuedOK(issued) /\ revoked \subseteq TokenNumbers

\* The cache takes a token to live at most one timeout longer than it does.
CacheOK(ch, is) == ch # None => ch.token \in DOMAIN is /\ ch.expires <= is[ch.token] + Timeout

\* The dead tokens of issues is and revocations rv at time n.
DeadTokens(is, rv, n) == {t \in DOMAIN is : t \in rv \/ is[t] <= n}

TimesOK(q, is, n) ==
  /\ q.phase \in {"fetch", "handed", "post", "answered"} => q.since <= n /\ n <= q.since + Timeout
  /\ q.phase \in {"handed", "post", "answered"} => q.token \in DOMAIN is
  /\ q.phase = "handed" => q.since + q.left <= is[q.token]
  /\ q.phase = "post" /\ ~q.own => q.since + Timeout < is[q.token]
RefusalsOK(q, is, rv, n) ==
  /\ q.phase = "answered" => q.result \in {"ok", "token"}
  /\ q.phase = "answered" /\ q.result = "token" => q.token \in DeadTokens(is, rv, n) /\ (~q.own => q.token \in rv)
  /\ q.refused \subseteq DeadTokens(is, rv, n)
  /\ q.phase \in {"handed", "post", "answered"} => q.token \notin q.refused
TriesOK(q) ==
  /\ q.phase # "done" => q.result # "rejected"
  /\ q.phase \in {"idle", "fetch", "handed"} => ~q.own
  /\ q.phase # "done" => IF q.refresh THEN \E t \in TokenNumbers : q.refused = {t} ELSE q.refused = {}
  /\ q.processed <= 1
  /\ q.phase \in {"idle", "fetch", "handed", "post"} \/ (q.phase = "answered" /\ q.result = "token") => q.processed = 0
GaveUpOK(q) == client.retries /\ q.result = "rejected" /\ q.own => Cardinality(q.refused) = 2
CallOK(q, is, rv, n) == TimesOK(q, is, n) /\ RefusalsOK(q, is, rv, n) /\ TriesOK(q) /\ GaveUpOK(q)

TokensInv ==
  /\ TokensTypeOK /\ CacheOK(cached, issued)
  /\ \A c \in Call : CallOK(calls[c], issued, revoked, now)

LEMMA IssuedFacts ==
  ASSUME IssuedOK(issued)
  PROVE  /\ \A t \in DOMAIN issued : t \in TokenNumbers /\ issued[t] \in Nat
         /\ Cardinality(DOMAIN issued) + 1 \in TokenNumbers
         /\ DOMAIN issued = 1..Cardinality(DOMAIN issued)
<1>1. PICK n \in Nat : issued \in [1..n -> Nat]
  BY DEF IssuedOK
<1>2. Cardinality(1..n) = n
  BY FS_Interval
<1>3. DOMAIN issued = 1..n
  BY <1>1
<1>4. Cardinality(DOMAIN issued) = n
  BY <1>2, <1>3
<1> QED  BY <1>1, <1>3, <1>4 DEF TokenNumbers

\* More issued tokens and more revocations leave a call as it was.
LEMMA CallStands ==
  ASSUME NEW q \in CallStates, NEW is, NEW js, NEW rv, NEW sv, NEW n, CallOK(q, is, rv, n),
         Later(is, js), rv \subseteq sv
  PROVE  CallOK(q, js, sv, n)
<1>1. TimesOK(q, js, n)
  BY DEF CallOK, TimesOK, Later
<1>2. DeadTokens(is, rv, n) \subseteq DeadTokens(js, sv, n)
  BY DEF DeadTokens, Later
<1>3. RefusalsOK(q, js, sv, n)
  BY <1>2 DEF CallOK, RefusalsOK
<1> QED  BY <1>1, <1>3 DEF CallOK

LEMMA CallMoved ==
  ASSUME TokensInv, NEW c \in Call, NEW new \in CallStates, calls' = [calls EXCEPT ![c] = new],
         client' = client, now' = now, cached' \in Caches \cup {None}, revoked' = revoked,
         IssuedOK(issued'), Later(issued, issued'), CacheOK(cached', issued'),
         CallOK(new, issued', revoked, now)
  PROVE  TokensInv'
<1>1. TokensTypeOK'
  BY DEF TokensInv, TokensTypeOK
<1>2. ASSUME NEW d \in Call
      PROVE  CallOK(calls'[d], issued', revoked', now')
  <2>1. CASE d = c
    BY <2>1 DEF TokensInv, TokensTypeOK
  <2>2. CASE d # c
    <3>1. calls'[d] = calls[d] /\ calls[d] \in CallStates /\ CallOK(calls[d], issued, revoked, now)
      BY <2>2 DEF TokensInv, TokensTypeOK
    <3> QED  BY <3>1, CallStands
  <2> QED  BY <2>1, <2>2
<1>3. client' = client
  OBVIOUS
<1> QED  BY <1>1, <1>2, <1>3 DEF TokensInv, CallOK, GaveUpOK

LEMMA CallMovedOnly ==
  ASSUME TokensInv, NEW c \in Call, NEW new \in CallStates, calls' = [calls EXCEPT ![c] = new],
         UNCHANGED <<client, cached, now, issued, revoked>>, CallOK(new, issued, revoked, now)
  PROVE  TokensInv'
<1>1. cached \in Caches \cup {None} /\ IssuedOK(issued) /\ CacheOK(cached, issued)
  BY DEF TokensInv, TokensTypeOK
<1>2. Later(issued, issued)
  BY DEF Later
<1> QED  BY <1>1, <1>2, CallMoved

PostedFrom(q, n, t) == [q EXCEPT !.phase = "post", !.since = n, !.token = t]
FetchedFrom(q, n) == [q EXCEPT !.phase = "fetch", !.since = n]
StoredFrom(q, n) == [q EXCEPT !.phase = "post", !.since = n, !.own = TRUE]
EndedAs(q, result) == [q EXCEPT !.phase = "done", !.result = result]
HandedTo(q, t, n) == [q EXCEPT !.phase = "handed", !.token = t, !.left = n]
TriedAgain(q, n) ==
  [q EXCEPT !.phase = "fetch", !.refresh = TRUE, !.since = n, !.own = FALSE, !.refused = @ \cup {q.token}]
AcceptedBy(q) == [q EXCEPT !.phase = "answered", !.result = "ok", !.processed = @ + 1]
RefusedBy(q) == [q EXCEPT !.phase = "answered", !.result = "token"]

LEMMA IdleShape ==
  /\ Tokens!Idle \in CallStates /\ ~Tokens!Idle.refresh /\ ~Tokens!Idle.own
  /\ Tokens!Idle.processed = 0 /\ Tokens!Idle.refused = {} /\ Tokens!Idle.result = None /\ Tokens!Idle.phase = "idle"
BY DEF Tokens!Idle, CallStates

LEMMA PostedShape ==
  ASSUME NEW q \in CallStates, NEW n \in Nat, NEW t \in TokenNumbers
  PROVE  LET new == PostedFrom(q, n, t)
         IN  /\ new \in CallStates /\ new.phase = "post" /\ new.since = n /\ new.token = t /\ new.own = q.own
             /\ new.refresh = q.refresh /\ new.processed = q.processed /\ new.refused = q.refused
             /\ new.result = q.result
BY DEF CallStates, PostedFrom

LEMMA FetchedShape ==
  ASSUME NEW q \in CallStates, NEW n \in Nat
  PROVE  LET new == FetchedFrom(q, n)
         IN  /\ new \in CallStates /\ new.phase = "fetch" /\ new.since = n /\ new.own = q.own
             /\ new.refresh = q.refresh /\ new.processed = q.processed /\ new.refused = q.refused
             /\ new.result = q.result
BY DEF CallStates, FetchedFrom

LEMMA StoredShape ==
  ASSUME NEW q \in CallStates, NEW n \in Nat
  PROVE  LET new == StoredFrom(q, n)
         IN  /\ new \in CallStates /\ new.phase = "post" /\ new.since = n /\ new.token = q.token /\ new.own = TRUE
             /\ new.refresh = q.refresh /\ new.processed = q.processed /\ new.refused = q.refused
             /\ new.result = q.result
BY DEF CallStates, StoredFrom

LEMMA EndedShape ==
  ASSUME NEW q \in CallStates, NEW result \in {"rejected", "accepted", "indeterminate"}
  PROVE  LET new == EndedAs(q, result)
         IN  /\ new \in CallStates /\ new.phase = "done" /\ new.token = q.token /\ new.own = q.own
             /\ new.refresh = q.refresh /\ new.processed = q.processed /\ new.refused = q.refused
             /\ new.result = result
BY DEF CallStates, EndedAs

LEMMA HandedShape ==
  ASSUME NEW q \in CallStates, NEW t \in TokenNumbers, NEW n \in Nat
  PROVE  LET new == HandedTo(q, t, n)
         IN  /\ new \in CallStates /\ new.phase = "handed" /\ new.token = t /\ new.left = n /\ new.own = q.own
             /\ new.since = q.since /\ new.refresh = q.refresh /\ new.processed = q.processed
             /\ new.refused = q.refused /\ new.result = q.result
BY DEF CallStates, HandedTo

LEMMA TriedShape ==
  ASSUME NEW q \in CallStates, NEW n \in Nat, q.token \in TokenNumbers
  PROVE  LET new == TriedAgain(q, n)
         IN  /\ new \in CallStates /\ new.phase = "fetch" /\ new.since = n /\ ~new.own
             /\ new.refresh /\ new.processed = q.processed /\ new.refused = q.refused \cup {q.token}
             /\ new.result = q.result
<1> DEFINE a == [q EXCEPT !.phase = "fetch", !.refresh = TRUE]
           b == [a EXCEPT !.since = n, !.own = FALSE]
           d == [b EXCEPT !.refused = q.refused \cup {q.token}]
<1>1. a \in CallStates /\ a.phase = "fetch" /\ a.refresh /\ a.processed = q.processed /\ a.refused = q.refused
      /\ a.result = q.result
  BY DEF CallStates
<1>2. TriedAgain(q, n) = d
  BY DEF TriedAgain, CallStates
<1> HIDE DEF a
<1>3. /\ b \in CallStates /\ b.phase = "fetch" /\ b.refresh /\ b.processed = q.processed /\ b.refused = q.refused
      /\ b.result = q.result /\ b.since = n /\ ~b.own
  BY <1>1 DEF CallStates
<1> HIDE DEF b
<1>4. /\ d \in CallStates /\ d.phase = "fetch" /\ d.refresh /\ d.processed = q.processed
      /\ d.refused = q.refused \cup {q.token} /\ d.result = q.result /\ d.since = n /\ ~d.own
  BY <1>3 DEF CallStates
<1> HIDE DEF d
<1> QED  BY <1>2, <1>4

LEMMA AcceptedShape ==
  ASSUME NEW q \in CallStates
  PROVE  LET new == AcceptedBy(q)
         IN  /\ new \in CallStates /\ new.phase = "answered" /\ new.token = q.token /\ new.own = q.own
             /\ new.since = q.since /\ new.refresh = q.refresh /\ new.processed = q.processed + 1
             /\ new.refused = q.refused /\ new.result = "ok"
<1> DEFINE a == [q EXCEPT !.phase = "answered", !.result = "ok"]
           b == [a EXCEPT !.processed = q.processed + 1]
<1>1. /\ a \in CallStates /\ a.phase = "answered" /\ a.token = q.token /\ a.own = q.own
      /\ a.since = q.since /\ a.refresh = q.refresh /\ a.refused = q.refused /\ a.result = "ok"
  BY DEF CallStates
<1>2. AcceptedBy(q) = b /\ q.processed + 1 \in Nat
  BY DEF AcceptedBy, CallStates
<1> HIDE DEF a
<1>3. /\ b \in CallStates /\ b.phase = "answered" /\ b.token = q.token /\ b.own = q.own
      /\ b.since = q.since /\ b.refresh = q.refresh /\ b.refused = q.refused /\ b.result = "ok"
      /\ b.processed = q.processed + 1
  BY <1>1, <1>2 DEF CallStates
<1> HIDE DEF b
<1> QED  BY <1>2, <1>3

LEMMA RefusedShape ==
  ASSUME NEW q \in CallStates
  PROVE  LET new == RefusedBy(q)
         IN  /\ new \in CallStates /\ new.phase = "answered" /\ new.token = q.token /\ new.own = q.own
             /\ new.since = q.since /\ new.refresh = q.refresh /\ new.processed = q.processed
             /\ new.refused = q.refused /\ new.result = "token"
BY DEF CallStates, RefusedBy

LEMMA CallFacts ==
  ASSUME TokensInv, NEW c \in Call
  PROVE  /\ calls[c] \in CallStates /\ CallOK(calls[c], issued, revoked, now)
         /\ client \in Clients /\ now \in Nat /\ Timeout \in Nat
BY TokensAssumption DEF TokensInv, TokensTypeOK

\* The window of the cache is two timeouts: one by which the cache may overrate the
\* token, one for the request that will carry it.
LEMMA StartStep ==
  ASSUME TokensInv, NEW c \in Call, Tokens!Start(c)
  PROVE  TokensInv'
<1>1. /\ UNCHANGED <<client, cached, now, issued, revoked>>
      /\ \/ /\ Tokens!Fresh(now)
            /\ calls' = [calls EXCEPT ![c] = PostedFrom(Tokens!Idle, now, cached.token)]
         \/ calls' = [calls EXCEPT ![c] = FetchedFrom(Tokens!Idle, now)]
  BY DEF Tokens!Start, Tokens!Move, PostedFrom, FetchedFrom
<1>2. now \in Nat /\ Timeout \in Nat
  BY CallFacts
<1>3. CASE calls' = [calls EXCEPT ![c] = FetchedFrom(Tokens!Idle, now)]
  <2> DEFINE new == FetchedFrom(Tokens!Idle, now)
  <2>1. /\ new \in CallStates /\ new.phase = "fetch" /\ new.since = now /\ ~new.own /\ ~new.refresh
        /\ new.processed = 0 /\ new.refused = {} /\ new.result = None
    BY <1>2, IdleShape, FetchedShape
  <2> HIDE DEF new
  <2>2. CallOK(new, issued, revoked, now)
    BY <1>2, <2>1, TokensAssumption DEF CallOK, TimesOK, RefusalsOK, TriesOK, GaveUpOK
  <2> QED  BY <1>1, <1>3, <2>1, <2>2, CallMovedOnly DEF new
<1>4. CASE Tokens!Fresh(now) /\ calls' = [calls EXCEPT ![c] = PostedFrom(Tokens!Idle, now, cached.token)]
  <2> DEFINE new == PostedFrom(Tokens!Idle, now, cached.token)
  <2>1. cached \in Caches /\ cached.expires > now + client.window
    BY <1>4 DEF TokensInv, TokensTypeOK, Tokens!Fresh
  <2>2. client.window \in Nat /\ client.window >= 2 * Timeout
    BY TokensAssumption DEF TokensInv, TokensTypeOK
  <2>3. /\ cached.token \in DOMAIN issued /\ cached.token \in TokenNumbers /\ issued[cached.token] \in Nat
        /\ cached.expires <= issued[cached.token] + Timeout
    <3>1. cached # None
      BY <1>4 DEF Tokens!Fresh
    <3>2. IssuedOK(issued) /\ CacheOK(cached, issued)
      BY DEF TokensInv, TokensTypeOK
    <3> QED  BY <3>1, <3>2, IssuedFacts DEF CacheOK
  <2>4. now + Timeout < issued[cached.token]
    BY <1>2, <2>1, <2>2, <2>3 DEF Caches
  <2>5. /\ new \in CallStates /\ new.phase = "post" /\ new.since = now /\ ~new.own /\ ~new.refresh
        /\ new.token = cached.token /\ new.processed = 0 /\ new.refused = {} /\ new.result = None
    BY <1>2, <2>3, IdleShape, PostedShape
  <2> HIDE DEF new
  <2>6. CallOK(new, issued, revoked, now)
    BY <1>2, <2>3, <2>4, <2>5, TokensAssumption DEF CallOK, TimesOK, RefusalsOK, TriesOK, GaveUpOK
  <2> QED  BY <1>1, <1>4, <2>5, <2>6, CallMovedOnly DEF new
<1> QED  BY <1>1, <1>3, <1>4

LEMMA StoreTokenStep ==
  ASSUME TokensInv, NEW c \in Call, Tokens!StoreToken(c)
  PROVE  TokensInv'
<1> DEFINE q == calls[c]
           new == StoredFrom(q, now)
           kept == [token |-> q.token, expires |-> now + q.left]
<1>1. /\ q.phase = "handed" /\ cached' = kept /\ calls' = [calls EXCEPT ![c] = new]
      /\ UNCHANGED <<client, now, issued, revoked>>
  BY DEF Tokens!StoreToken, Tokens!Move, StoredFrom
<1>2. q \in CallStates /\ CallOK(q, issued, revoked, now) /\ now \in Nat /\ Timeout \in Nat
  BY CallFacts
<1>3. /\ new \in CallStates /\ new.phase = "post" /\ new.since = now /\ new.token = q.token /\ new.own = TRUE
      /\ new.refresh = q.refresh /\ new.processed = q.processed /\ new.refused = q.refused
      /\ new.result = q.result
  BY <1>2, StoredShape
<1>4. IssuedOK(issued)
  BY DEF TokensInv, TokensTypeOK
<1>5. q.token \in DOMAIN issued /\ q.token \in TokenNumbers /\ issued[q.token] \in Nat
  BY <1>1, <1>2, <1>4, IssuedFacts DEF CallOK, TimesOK
<1>6. kept \in Caches /\ CacheOK(kept, issued)
  <2>1. q.since \in Nat /\ q.left \in Nat /\ now <= q.since + Timeout /\ q.since + q.left <= issued[q.token]
    BY <1>1, <1>2 DEF CallOK, TimesOK, CallStates
  <2>2. now + q.left <= issued[q.token] + Timeout
    BY <1>2, <1>5, <2>1
  <2> QED  BY <1>2, <1>5, <2>1, <2>2 DEF Caches, CacheOK
<1> HIDE DEF new, kept
<1>7. CallOK(new, issued, revoked, now)
  BY <1>1, <1>2, <1>3, <1>5 DEF CallOK, TimesOK, RefusalsOK, TriesOK, GaveUpOK
<1>8. Later(issued, issued)
  BY DEF Later
<1> QED  BY <1>1, <1>3, <1>4, <1>6, <1>7, <1>8, CallMoved

\* A call that ends with what it has.
LEMMA EndedStepToken ==
  ASSUME TokensInv, NEW c \in Call, NEW result \in {"rejected", "accepted", "indeterminate"},
         calls' = [calls EXCEPT ![c] = EndedAs(calls[c], result)], result = "rejected" => ~calls[c].own,
         UNCHANGED <<client, cached, now, issued, revoked>>
  PROVE  TokensInv'
<1> DEFINE q == calls[c]
           new == EndedAs(q, result)
<1>1. q \in CallStates /\ CallOK(q, issued, revoked, now)
  BY CallFacts
<1>2. /\ new \in CallStates /\ new.phase = "done" /\ new.token = q.token /\ new.own = q.own
      /\ new.refresh = q.refresh /\ new.processed = q.processed /\ new.refused = q.refused
      /\ new.result = result
  BY <1>1, EndedShape
<1>3. calls' = [calls EXCEPT ![c] = new]
  OBVIOUS
<1> HIDE DEF new
<1>4. CallOK(new, issued, revoked, now)
  BY <1>1, <1>2 DEF CallOK, TimesOK, RefusalsOK, TriesOK, GaveUpOK
<1> QED  BY <1>2, <1>3, <1>4, CallMovedOnly

\* A refused token is dead, and the one that comes next is not.
LEMMA ReadAnswerStep ==
  ASSUME TokensInv, NEW c \in Call, Tokens!ReadAnswer(c)
  PROVE  TokensInv'
<1> DEFINE q == calls[c]
           again == TriedAgain(q, now)
           over == [EndedAs(q, "rejected") EXCEPT !.refused = @ \cup {q.token}]
<1>1. /\ q.phase = "answered" /\ UNCHANGED <<client, now, issued, revoked>>
      /\ \/ /\ q.result = "token" /\ client.retries /\ ~q.refresh
            /\ cached' = None /\ calls' = [calls EXCEPT ![c] = again]
         \/ /\ q.result = "token" /\ (client.retries => q.refresh)
            /\ cached' \in {cached, None} /\ calls' = [calls EXCEPT ![c] = over]
         \/ cached' = cached /\ calls' = [calls EXCEPT ![c] = EndedAs(q, "accepted")]
  BY DEF Tokens!ReadAnswer, Tokens!RefusedOnce, Tokens!Refused, Tokens!Accepted, Tokens!Move, Tokens!Ended,
         TriedAgain, EndedAs
<1>2. q \in CallStates /\ CallOK(q, issued, revoked, now) /\ now \in Nat /\ Timeout \in Nat
  BY CallFacts
<1>3. /\ IssuedOK(issued) /\ Later(issued, issued) /\ cached \in Caches \cup {None} /\ CacheOK(cached, issued)
      /\ CacheOK(None, issued)
  BY DEF TokensInv, TokensTypeOK, Later, CacheOK
<1>4. q.token \in DOMAIN issued /\ q.token \in TokenNumbers
  BY <1>1, <1>2, <1>3, IssuedFacts DEF CallOK, TimesOK
<1>5. CASE q.result = "token" /\ client.retries /\ ~q.refresh /\ cached' = None /\ calls' = [calls EXCEPT ![c] = again]
  <2>1. /\ again \in CallStates /\ again.phase = "fetch" /\ again.since = now /\ ~again.own
        /\ again.refresh /\ again.processed = q.processed /\ again.refused = q.refused \cup {q.token}
        /\ again.result = q.result
    BY <1>2, <1>4, TriedShape
  <2> HIDE DEF again
  <2>2. again.refused = {q.token} /\ q.token \in DeadTokens(issued, revoked, now) /\ again.processed = 0
    BY <1>1, <1>2, <1>5, <2>1 DEF CallOK, TriesOK, RefusalsOK
  <2>3. CallOK(again, issued, revoked, now)
    BY <1>2, <1>4, <1>5, <2>1, <2>2, TokensAssumption DEF CallOK, TimesOK, RefusalsOK, TriesOK, GaveUpOK
  <2> QED  BY <1>1, <1>3, <1>5, <2>1, <2>3, CallMoved
<1>6. CASE /\ q.result = "token" /\ (client.retries => q.refresh)
           /\ cached' \in {cached, None} /\ calls' = [calls EXCEPT ![c] = over]
  <2> DEFINE a == EndedAs(q, "rejected")
  <2>1. /\ a \in CallStates /\ a.phase = "done" /\ a.own = q.own /\ a.processed = q.processed
        /\ a.refused = q.refused /\ a.result = "rejected"
    BY <1>2, EndedShape
  <2> HIDE DEF a
  <2>2. over = [a EXCEPT !.refused = q.refused \cup {q.token}]
    BY <2>1 DEF a
  <2> HIDE DEF over
  <2>3. /\ over \in CallStates /\ over.phase = "done" /\ over.own = q.own /\ over.processed = q.processed
        /\ over.refused = q.refused \cup {q.token} /\ over.result = "rejected"
    BY <1>4, <2>1, <2>2 DEF CallStates
  <2>4. q.token \in DeadTokens(issued, revoked, now) /\ q.token \notin q.refused /\ over.processed <= 1
    BY <1>1, <1>2, <1>6, <2>3 DEF CallOK, RefusalsOK, TriesOK
  <2>5. client.retries => Cardinality(over.refused) = 2
    <3>1. SUFFICES ASSUME client.retries
                   PROVE  Cardinality(over.refused) = 2
      OBVIOUS
    <3>2. PICK t \in TokenNumbers : q.refused = {t}
      BY <1>1, <1>2, <1>6, <3>1 DEF CallOK, TriesOK
    <3>3. IsFiniteSet({t}) /\ Cardinality({t}) = 1
      BY FS_Singleton
    <3>4. q.token \notin {t}
      BY <2>4, <3>2
    <3>5. Cardinality({t} \cup {q.token}) = IF q.token \in {t} THEN Cardinality({t}) ELSE Cardinality({t}) + 1
      BY <3>3, FS_AddElement
    <3>6. Cardinality({t} \cup {q.token}) = 2
      BY <3>3, <3>4, <3>5
    <3> QED  BY <2>3, <3>2, <3>6
  <2>6. CallOK(over, issued, revoked, now)
    BY <1>2, <2>3, <2>4, <2>5 DEF CallOK, TimesOK, RefusalsOK, TriesOK, GaveUpOK
  <2> QED  BY <1>1, <1>3, <1>6, <2>3, <2>6, CallMoved
<1>7. CASE cached' = cached /\ calls' = [calls EXCEPT ![c] = EndedAs(q, "accepted")]
  BY <1>1, <1>7, EndedStepToken
<1> QED  BY <1>1, <1>5, <1>6, <1>7

\* A token is handed out alive, with no more time than it has left.
LEMMA GetTokenStep ==
  ASSUME TokensInv, NEW c \in Call, Tokens!GetToken(c)
  PROVE  TokensInv'
<1> DEFINE q == calls[c]
<1>1. q \in CallStates /\ CallOK(q, issued, revoked, now) /\ now \in Nat /\ Timeout \in Nat /\ Life \in Nat
  BY CallFacts, TokensAssumption
<1>2. /\ q.phase = "fetch" /\ UNCHANGED <<client, cached, now, revoked>>
  BY DEF Tokens!GetToken
<1>3. cached \in Caches \cup {None} /\ CacheOK(cached, issued) /\ IssuedOK(issued) /\ revoked \subseteq TokenNumbers
  BY DEF TokensInv, TokensTypeOK
<1>4. ASSUME NEW t \in TokenNumbers, NEW left \in Nat, calls' = [calls EXCEPT ![c] = HandedTo(q, t, left)],
             IssuedOK(issued'), Later(issued, issued'), t \in DOMAIN issued', issued'[t] \in Nat,
             left <= issued'[t] - now, t \notin q.refused
      PROVE  TokensInv'
  <2> DEFINE new == HandedTo(q, t, left)
  <2>1. /\ new \in CallStates /\ new.phase = "handed" /\ new.token = t /\ new.left = left /\ new.own = q.own
        /\ new.since = q.since /\ new.refresh = q.refresh /\ new.processed = q.processed
        /\ new.refused = q.refused /\ new.result = q.result
    BY <1>1, HandedShape
  <2>2. calls' = [calls EXCEPT ![c] = new]
    BY <1>4
  <2> HIDE DEF new
  <2>3. CallOK(q, issued', revoked, now)
    BY <1>1, <1>4, CallStands
  <2>4. q.since \in Nat /\ q.since <= now /\ now <= q.since + Timeout
    BY <1>1, <1>2 DEF CallOK, TimesOK, CallStates
  <2>5. new.since + new.left <= issued'[t]
    BY <1>1, <1>4, <2>1, <2>4
  <2>6. CallOK(new, issued', revoked, now)
    BY <1>2, <1>4, <2>1, <2>3, <2>4, <2>5 DEF CallOK, TimesOK, RefusalsOK, TriesOK, GaveUpOK
  <2>7. CacheOK(cached, issued')
    BY <1>3, <1>4 DEF CacheOK, Later
  <2> QED  BY <1>2, <1>3, <1>4, <2>1, <2>2, <2>6, <2>7, CallMoved
<1>5. q.refused \subseteq DeadTokens(issued, revoked, now)
  BY <1>1 DEF CallOK, RefusalsOK
<1>6. ASSUME NEW t \in DOMAIN issued, Tokens!Alive(t), issued' = issued,
             Tokens!Move(c, [calls[c] EXCEPT !.phase = "handed", !.token = t, !.left = issued[t] - now])
      PROVE  TokensInv'
  <2> DEFINE left == issued[t] - now
  <2>1. Tokens!Alive(t) /\ issued' = issued /\ calls' = [calls EXCEPT ![c] = HandedTo(q, t, left)]
    BY <1>6 DEF Tokens!Move, HandedTo
  <2>2. t \in TokenNumbers /\ issued[t] \in Nat
    BY <1>3, IssuedFacts
  <2>3. issued[t] > now /\ t \notin revoked
    BY <2>1 DEF Tokens!Alive
  <2>4. t \notin q.refused
    BY <1>1, <1>5, <2>2, <2>3 DEF DeadTokens
  <2>5. left \in Nat /\ left <= issued'[t] - now /\ issued'[t] \in Nat /\ t \in DOMAIN issued'
    BY <1>1, <2>1, <2>2, <2>3
  <2>6. IssuedOK(issued') /\ Later(issued, issued')
    BY <1>3, <2>1 DEF Later
  <2> HIDE DEF left
  <2> QED  BY <1>4, <2>1, <2>2, <2>4, <2>5, <2>6
<1>7. CASE LET t == Cardinality(DOMAIN issued) + 1 IN
             /\ t <= MaxTokens
             /\ issued' = [k \in 1..t |-> IF k = t THEN now + Life ELSE issued[k]]
             /\ Tokens!Move(c, [calls[c] EXCEPT !.phase = "handed", !.token = t, !.left = Life])
  <2> DEFINE n == Cardinality(DOMAIN issued)
             t == n + 1
  <2>1. t \in TokenNumbers /\ DOMAIN issued = 1..n /\ \A k \in DOMAIN issued : issued[k] \in Nat
    BY <1>3, IssuedFacts
  <2>2. issued' = [k \in 1..t |-> IF k = t THEN now + Life ELSE issued[k]]
        /\ calls' = [calls EXCEPT ![c] = HandedTo(q, t, Life)]
    BY <1>7 DEF Tokens!Move, HandedTo
  <2>3. n \in Nat
    <3>1. PICK m \in Nat : issued \in [1..m -> Nat]
      BY <1>3 DEF IssuedOK
    <3>2. DOMAIN issued = 1..m /\ Cardinality(1..m) = m
      BY <3>1, FS_Interval
    <3> QED  BY <3>2
  <2> HIDE DEF n
  <2>4. issued' \in [1..t -> Nat] /\ issued'[t] = now + Life /\ t \in DOMAIN issued'
    BY <1>1, <2>1, <2>2, <2>3
  <2>5. IssuedOK(issued')
    BY <2>3, <2>4 DEF IssuedOK
  <2>6. Later(issued, issued')
    BY <2>1, <2>2, <2>3 DEF Later
  <2>7. t \notin q.refused
    BY <1>5, <2>1, <2>3 DEF DeadTokens
  <2> HIDE DEF t
  <2>8. Life <= issued'[t] - now
    BY <1>1, <2>4
  <2>9. issued'[t] \in Nat
    BY <1>1, <2>4
  <2> QED  BY <1>1, <1>4, <2>1, <2>2, <2>4, <2>5, <2>6, <2>7, <2>8, <2>9
<1>8. Tokens!Cardinality(DOMAIN issued) = Cardinality(DOMAIN issued)
  BY SameCardinality
<1> QED  BY <1>6, <1>7, <1>8 DEF Tokens!GetToken

\* WeCom refuses a token that is not alive: one from the cache is not past its end.
LEMMA ProcessStep ==
  ASSUME TokensInv, NEW c \in Call, Tokens!Process(c)
  PROVE  TokensInv'
<1> DEFINE q == calls[c]
<1>1. q \in CallStates /\ CallOK(q, issued, revoked, now) /\ now \in Nat /\ Timeout \in Nat
  BY CallFacts
<1>2. /\ q.phase = "post" /\ UNCHANGED <<client, cached, now, issued, revoked>>
      /\ \/ calls' = [calls EXCEPT ![c] = AcceptedBy(q)]
         \/ ~Tokens!Alive(q.token) /\ calls' = [calls EXCEPT ![c] = RefusedBy(q)]
  BY DEF Tokens!Process, Tokens!Move, AcceptedBy, RefusedBy
<1>3. CASE calls' = [calls EXCEPT ![c] = AcceptedBy(q)]
  <2> DEFINE new == AcceptedBy(q)
  <2>1. /\ new \in CallStates /\ new.phase = "answered" /\ new.token = q.token /\ new.own = q.own
        /\ new.since = q.since /\ new.refresh = q.refresh /\ new.processed = q.processed + 1
        /\ new.refused = q.refused /\ new.result = "ok"
    BY <1>1, AcceptedShape
  <2> HIDE DEF new
  <2>2. CallOK(new, issued, revoked, now)
    BY <1>1, <1>2, <2>1 DEF CallOK, TimesOK, RefusalsOK, TriesOK, GaveUpOK
  <2> QED  BY <1>2, <1>3, <2>1, <2>2, CallMovedOnly DEF new
<1>4. CASE ~Tokens!Alive(q.token) /\ calls' = [calls EXCEPT ![c] = RefusedBy(q)]
  <2> DEFINE new == RefusedBy(q)
  <2>1. /\ new \in CallStates /\ new.phase = "answered" /\ new.token = q.token /\ new.own = q.own
        /\ new.since = q.since /\ new.refresh = q.refresh /\ new.processed = q.processed
        /\ new.refused = q.refused /\ new.result = "token"
    BY <1>1, RefusedShape
  <2> HIDE DEF new
  <2>2. q.token \in DOMAIN issued /\ issued[q.token] \in Nat
    BY <1>1, <1>2, IssuedFacts DEF CallOK, TimesOK, TokensInv, TokensTypeOK
  <2>3. q.token \in revoked \/ issued[q.token] <= now
    BY <1>1, <1>4, <2>2 DEF Tokens!Alive
  <2>4. ~q.own => q.token \in revoked
    <3>1. q.since \in Nat /\ now <= q.since + Timeout /\ (~q.own => q.since + Timeout < issued[q.token])
      BY <1>1, <1>2 DEF CallOK, TimesOK, CallStates
    <3> QED  BY <1>1, <2>2, <2>3, <3>1
  <2>5. q.token \in DeadTokens(issued, revoked, now)
    BY <2>2, <2>3 DEF DeadTokens
  <2>6. CallOK(new, issued, revoked, now)
    BY <1>1, <1>2, <2>1, <2>4, <2>5 DEF CallOK, TimesOK, RefusalsOK, TriesOK, GaveUpOK
  <2> QED  BY <1>2, <1>4, <2>1, <2>6, CallMovedOnly DEF new
<1> QED  BY <1>2, <1>3, <1>4

LEMMA TickStep ==
  ASSUME TokensInv, Tokens!Tick
  PROVE  TokensInv'
<1>1. /\ UNCHANGED <<client, cached, calls, issued, revoked>> /\ now' = now + 1
      /\ \A c \in Call : Tokens!Waits(c) => now < calls[c].since + Timeout
  BY DEF Tokens!Tick
<1>2. ASSUME NEW c \in Call
      PROVE  CallOK(calls[c], issued, revoked, now')
  <2>1. calls[c] \in CallStates /\ CallOK(calls[c], issued, revoked, now) /\ now \in Nat /\ Timeout \in Nat
    BY CallFacts
  <2>2. calls[c].phase \in {"fetch", "handed", "post", "answered"} => now < calls[c].since + Timeout
    BY <1>1 DEF Tokens!Waits
  <2>3. TimesOK(calls[c], issued, now')
    BY <1>1, <2>1, <2>2 DEF CallOK, TimesOK, CallStates
  <2>4. DeadTokens(issued, revoked, now) \subseteq DeadTokens(issued, revoked, now')
    <3>1. \A t \in DOMAIN issued : issued[t] \in Nat
      BY IssuedFacts DEF TokensInv, TokensTypeOK
    <3> QED  BY <1>1, <2>1, <3>1 DEF DeadTokens
  <2>5. RefusalsOK(calls[c], issued, revoked, now')
    BY <2>1, <2>4 DEF CallOK, RefusalsOK
  <2> QED  BY <2>1, <2>3, <2>5 DEF CallOK
<1>3. now' \in Nat
  BY <1>1 DEF TokensInv, TokensTypeOK
<1> QED  BY <1>1, <1>2, <1>3 DEF TokensInv, TokensTypeOK, CallOK, GaveUpOK

LEMMA RevokeStep ==
  ASSUME TokensInv, NEW t \in DOMAIN issued, Tokens!Revoke(t)
  PROVE  TokensInv'
<1>1. UNCHANGED <<client, cached, calls, now, issued>> /\ revoked' = revoked \cup {t}
  BY DEF Tokens!Revoke
<1>2. t \in TokenNumbers /\ IssuedOK(issued) /\ revoked \subseteq TokenNumbers
  BY IssuedFacts DEF TokensInv, TokensTypeOK
<1>3. Later(issued, issued)
  BY DEF Later
<1>4. ASSUME NEW c \in Call
      PROVE  CallOK(calls[c], issued, revoked', now)
  <2>1. calls[c] \in CallStates /\ CallOK(calls[c], issued, revoked, now)
    BY CallFacts
  <2>2. revoked \subseteq revoked'
    BY <1>1
  <2> QED  BY <1>3, <2>1, <2>2, CallStands
<1> QED  BY <1>1, <1>2, <1>4 DEF TokensInv, TokensTypeOK, CallOK, GaveUpOK

LEMMA TokensStep ==
  ASSUME TokensInv, [Tokens!Next]_tokenVars
  PROVE  TokensInv'
<1>1. ASSUME NEW c \in Call,
             \/ Tokens!Start(c) \/ Tokens!StoreToken(c) \/ Tokens!FetchFails(c) \/ Tokens!ReadAnswer(c)
             \/ Tokens!Lost(c) \/ Tokens!GetToken(c) \/ Tokens!Process(c)
      PROVE  TokensInv'
  <2>1. CASE Tokens!Start(c)
    BY <2>1, StartStep
  <2>2. CASE Tokens!StoreToken(c)
    BY <2>2, StoreTokenStep
  <2>3. CASE Tokens!FetchFails(c)
    <3>1. /\ calls[c].phase \in {"fetch", "handed"} /\ UNCHANGED <<client, cached, now, issued, revoked>>
          /\ calls' = [calls EXCEPT ![c] = EndedAs(calls[c], "rejected")]
      BY <2>3 DEF Tokens!FetchFails, Tokens!Move, Tokens!Ended, EndedAs
    <3>2. ~calls[c].own
      BY <3>1, CallFacts DEF CallOK, TriesOK
    <3> QED  BY <3>1, <3>2, EndedStepToken
  <2>4. CASE Tokens!ReadAnswer(c)
    BY <2>4, ReadAnswerStep
  <2>5. CASE Tokens!Lost(c)
    <3>1. /\ UNCHANGED <<client, cached, now, issued, revoked>>
          /\ calls' = [calls EXCEPT ![c] = EndedAs(calls[c], "indeterminate")]
      BY <2>5 DEF Tokens!Lost, Tokens!Move, Tokens!Ended, EndedAs
    <3> QED  BY <3>1, EndedStepToken
  <2>6. CASE Tokens!GetToken(c)
    BY <2>6, GetTokenStep
  <2>7. CASE Tokens!Process(c)
    BY <2>7, ProcessStep
  <2> QED  BY <1>1, <2>1, <2>2, <2>3, <2>4, <2>5, <2>6, <2>7
<1>2. CASE \E t \in DOMAIN issued : Tokens!Revoke(t)
  BY <1>2, RevokeStep
<1>3. CASE Tokens!Tick
  BY <1>3, TickStep
<1>4. CASE UNCHANGED tokenVars
  BY <1>4 DEF TokensInv, TokensTypeOK, CallOK, GaveUpOK, tokenVars
<1> QED  BY <1>1, <1>2, <1>3, <1>4 DEF Tokens!Next

LEMMA TokensInit ==
  ASSUME Tokens!Init
  PROVE  TokensInv
<1>1. /\ client \in Clients /\ cached = None /\ calls = [c \in Call |-> Tokens!Idle]
      /\ now = 0 /\ issued = <<>> /\ revoked = {}
  BY DEF Tokens!Init
<1>2. IssuedOK(issued)
  <2>1. issued \in [1..0 -> Nat]
    BY <1>1
  <2> QED  BY <2>1 DEF IssuedOK
<1>3. CallOK(Tokens!Idle, issued, revoked, now)
  BY <1>1, IdleShape, TokensAssumption DEF CallOK, TimesOK, RefusalsOK, TriesOK, GaveUpOK
<1> QED  BY <1>1, <1>2, <1>3, IdleShape DEF TokensInv, TokensTypeOK, CacheOK

\* A token from a cache is refused only if WeCom revoked it, a refused call is acted
\* on at most once, and it gives up for a token only after two were refused
\* (accessToken and post in client.ts, staff-protocol.ts).
THEOREM TokensHold == Tokens!Spec => []TokensAreAlive
<1>1. Tokens!Init => TokensInv
  BY TokensInit
<1>2. TokensInv /\ [Tokens!Next]_(Tokens!vars) => TokensInv'
  BY TokensStep DEF Tokens!vars, tokenVars
<1>3. TokensInv => TokensAreAlive
  <2> SUFFICES ASSUME TokensInv
               PROVE  TokensAreAlive
    OBVIOUS
  <2>1. Tokens!CachedTokensAreAlive
    BY DEF TokensInv, CallOK, RefusalsOK, Tokens!CachedTokensAreAlive
  <2>2. Tokens!ActedOnOnce
    BY DEF TokensInv, CallOK, TriesOK, Tokens!ActedOnOnce
  <2>3. Tokens!GivesUpLate
    <3>1. ASSUME NEW c \in Call, client.retries, calls[c].result = "rejected", calls[c].own
          PROVE  Cardinality(calls[c].refused) = 2
      BY <3>1 DEF TokensInv, CallOK, GaveUpOK
    <3> QED  BY <3>1, SameCardinality DEF Tokens!GivesUpLate
  <2> QED  BY <2>1, <2>2, <2>3 DEF TokensAreAlive
<1> QED  BY <1>1, <1>2, <1>3, PTL DEF Tokens!Spec

-----------------------------------------------------------------------------
(* EvidenceAdmission: what a turn answers from.                            *)

\* With one entry of a risk, every entry of it that counts is found.
FoundTogether(found, entries, allowed) ==
  /\ \A e \in found : e \in entries /\ e.domain = "safety"
  /\ \A e \in found, f \in entries :
       f.domain = "safety" /\ f.risk = e.risk /\ (f.status = "approved" \/ (allowed /\ f.status = "synthetic_test_only"))
         => f \in found
AuthorizedBy(entries, how) ==
  /\ entries = {} \/ \E e \in library : Evidence!Admissible(e, "runtime") /\ entries = {e}
  /\ how # "none" => (how = "SINGLE_CANDIDATE" <=> entries # {})

EvidenceInv ==
  /\ library \in Libraries /\ \A e \in library : e.domain = "knowledge" => Evidence!WellFormed(e)
  /\ FoundTogether(safety, library, "retrieval" \in lenient)
  /\ AuthorizedBy(grounding, routing)
  /\ Evidence!ObjectionsStand

LEMMA SameEvidenceCardinality ==
  ASSUME NEW S
  PROVE  Evidence!Cardinality(S) = Cardinality(S)
BY DEF Evidence!Cardinality, Cardinality

\* What a search finds is all knowledge, or every entry of the risks it is about.
LEMMA SearchEndsStep ==
  ASSUME EvidenceInv, NEW s \in Search, Evidence!SearchEnds(s)
  PROVE  EvidenceInv'
<1>1. PICK found \in Evidence!Scored \cup {Evidence!SafetyMatches(lookup[s].risks)} :
        LET admitted == {e \in found : Evidence!Admissible(e, "runtime")} IN
        IF Evidence!Heard(s)
          THEN /\ safety' = {e \in found : e.domain = "safety"}
               /\ grounding' = IF Cardinality(admitted) = 1 THEN admitted ELSE {}
               /\ routing' = Evidence!Decision(Cardinality(admitted))
          ELSE UNCHANGED <<safety, grounding, routing>>
  BY SameEvidenceCardinality DEF Evidence!SearchEnds
<1>2. UNCHANGED <<asking, library, lenient, decision>>
  BY DEF Evidence!SearchEnds, Evidence!inputs
<1> DEFINE admitted == {e \in found : Evidence!Admissible(e, "runtime")}
           hits == {e \in found : e.domain = "safety"}
<1>3. IsFiniteSet(admitted) /\ admitted \subseteq library
  <2>1. found \subseteq library
    BY DEF Evidence!Scored, Evidence!SafetyMatches
  <2>2. IsFiniteSet(library)
    BY EvidenceAssumption DEF EvidenceInv
  <2> QED  BY <2>1, <2>2, FS_Subset
<1>4. FoundTogether(hits, library, "retrieval" \in lenient)
  <2>1. CASE found \in Evidence!Scored
    <3>1. hits = {}
      BY <2>1 DEF Evidence!Scored, Evidence!Admissible
    <3> HIDE DEF hits
    <3> QED  BY <3>1 DEF FoundTogether
  <2>2. CASE found = Evidence!SafetyMatches(lookup[s].risks)
    BY <2>2 DEF Evidence!SafetyMatches, Evidence!QueryMatches, Evidence!Counts, FoundTogether
  <2> QED  BY <2>1, <2>2
<1>5. ASSUME Cardinality(admitted) = 1
      PROVE  AuthorizedBy(admitted, "SINGLE_CANDIDATE")
  <2>1. PICK e : admitted = {e}
    BY <1>3, <1>5, FS_Singleton
  <2>2. e \in library /\ Evidence!Admissible(e, "runtime")
    BY <1>3, <2>1
  <2> QED  BY <2>1, <2>2 DEF AuthorizedBy
<1>6. ASSUME Cardinality(admitted) # 1
      PROVE  AuthorizedBy({}, Evidence!Decision(Cardinality(admitted)))
  BY <1>3, <1>6, FS_CardinalityType DEF AuthorizedBy, Evidence!Decision
<1>7. FoundTogether(safety', library, "retrieval" \in lenient) /\ AuthorizedBy(grounding', routing')
  <2>1. CASE Evidence!Heard(s)
    <3>1. safety' = hits /\ grounding' = (IF Cardinality(admitted) = 1 THEN admitted ELSE {})
          /\ routing' = Evidence!Decision(Cardinality(admitted))
      BY <1>1, <2>1
    <3> HIDE DEF hits, admitted
    <3>2. CASE Cardinality(admitted) = 1
      <4>1. Evidence!Decision(Cardinality(admitted)) = "SINGLE_CANDIDATE"
        BY <3>2 DEF Evidence!Decision
      <4> QED  BY <1>4, <1>5, <3>1, <3>2, <4>1
    <3>3. CASE Cardinality(admitted) # 1
      BY <1>4, <1>6, <3>1, <3>3
    <3> QED  BY <3>2, <3>3
  <2>2. CASE ~Evidence!Heard(s)
    BY <1>1, <2>2 DEF EvidenceInv
  <2> QED  BY <2>1, <2>2
<1>8. (AuthorizedBy(grounding, routing))'
  BY <1>2, <1>7 DEF AuthorizedBy, Evidence!Admissible, Evidence!KnowledgeScopeAllows, Evidence!Counts
<1>9. (Evidence!ObjectionsStand)'
  BY <1>2 DEF EvidenceInv, Evidence!ObjectionsStand
<1>10. (FoundTogether(safety, library, "retrieval" \in lenient))'
  BY <1>2, <1>7 DEF FoundTogether
<1>11. (library \in Libraries /\ \A e \in library : e.domain = "knowledge" => Evidence!WellFormed(e))'
  BY <1>2 DEF EvidenceInv, Evidence!WellFormed
<1> QED  BY <1>8, <1>9, <1>10, <1>11 DEF EvidenceInv

LEMMA FaqMatchesStep ==
  ASSUME EvidenceInv, NEW s \in Search, Evidence!FaqMatches(s)
  PROVE  EvidenceInv'
<1>1. /\ UNCHANGED <<asking, library, lenient, safety, decision>> /\ routing' = "none"
      /\ \E e \in library : Evidence!Admissible(e, "runtime") /\ grounding' = {e}
  BY DEF Evidence!FaqMatches, Evidence!inputs
<1>2. AuthorizedBy(grounding', routing')
  BY <1>1 DEF AuthorizedBy
<1>3. (AuthorizedBy(grounding, routing))'
  BY <1>1, <1>2 DEF AuthorizedBy, Evidence!Admissible, Evidence!KnowledgeScopeAllows, Evidence!Counts
<1> QED  BY <1>1, <1>3 DEF EvidenceInv, Evidence!ObjectionsStand, FoundTogether, Evidence!WellFormed

\* decideSafety sees every approved entry of the risk, or none.
LEMMA DecideStep ==
  ASSUME EvidenceInv, Evidence!Decide
  PROVE  EvidenceInv'
<1>1. UNCHANGED <<asking, library, lenient, lookup, grounding, routing, safety>>
  BY DEF Evidence!Decide, Evidence!inputs
<1> DEFINE scoped == Evidence!Scoped
           covering == {e \in library : e.domain = "safety" /\ e.risk = asking.risk
                                       /\ e.status = "approved" /\ e.pause}
<1>2. ASSUME NEW heard \in SUBSET Evidence!DecideSafety.options,
             Cardinality(heard) = IF Cardinality(Evidence!DecideSafety.options) < 3
                                    THEN Cardinality(Evidence!DecideSafety.options) ELSE 3,
             Evidence!DecideSafety.disposition = "supported"
      PROVE  /\ \A e \in covering : ~e.requiresEscalation
             /\ heard # {} /\ heard \subseteq UNION {e.options : e \in covering}
  <2>1. /\ scoped # {} /\ ~Evidence!Objects(scoped) /\ Evidence!Options(scoped) # {}
        /\ Evidence!DecideSafety.options = Evidence!Options(scoped)
    BY <1>2 DEF Evidence!DecideSafety
  <2>2. scoped = covering
    <3>1. \A e \in safety : e \in library /\ e.domain = "safety"
      BY DEF EvidenceInv, FoundTogether
    <3>2. \A e \in safety, f \in library :
            f.domain = "safety" /\ f.risk = e.risk /\ f.status = "approved" => f \in safety
      BY DEF EvidenceInv, FoundTogether
    <3>3. PICK e \in safety : e.risk = asking.risk
      BY <2>1 DEF Evidence!Scoped
    <3>4. ASSUME NEW f \in covering
          PROVE  f \in scoped
      <4>1. f \in safety
        BY <3>2, <3>3, <3>4
      <4> QED  BY <3>4, <4>1 DEF Evidence!Scoped
    <3>5. ASSUME NEW f \in scoped
          PROVE  f \in covering
      BY <3>1, <3>5 DEF Evidence!Scoped
    <3> HIDE DEF scoped, covering
    <3> QED  BY <3>4, <3>5
  <2>3. IsFiniteSet(Evidence!Options(scoped))
    <3>1. IsFiniteSet(UNION {e.options : e \in library})
      BY EvidenceAssumption DEF EvidenceInv
    <3>2. Evidence!Options(scoped) \subseteq UNION {e.options : e \in library}
      BY <2>2 DEF Evidence!Options
    <3> QED  BY <3>1, <3>2, FS_Subset
  <2> HIDE DEF scoped, covering
  <2>4. heard # {}
    <3>1. Cardinality(Evidence!Options(scoped)) \in Nat /\ Cardinality(Evidence!Options(scoped)) # 0
      BY <2>1, <2>3, FS_CardinalityType, FS_EmptySet
    <3>2. Cardinality(heard) # 0
      BY <1>2, <2>1, <3>1
    <3> QED  BY <3>2, FS_EmptySet
  <2> QED  BY <1>2, <2>1, <2>2, <2>4 DEF Evidence!Objects, Evidence!Options
<1>3. Evidence!ObjectionsStand'
  <2>1. CASE decision' = [disposition |-> "none", options |-> {}]
    BY <2>1 DEF Evidence!ObjectionsStand
  <2>2. CASE \E heard \in SUBSET Evidence!DecideSafety.options :
               /\ Evidence!Cardinality(heard) = IF Evidence!Cardinality(Evidence!DecideSafety.options) < 3
                                                  THEN Evidence!Cardinality(Evidence!DecideSafety.options) ELSE 3
               /\ decision' = [Evidence!DecideSafety EXCEPT !.options = heard]
    <3>1. PICK heard \in SUBSET Evidence!DecideSafety.options :
               /\ Evidence!Cardinality(heard) = IF Evidence!Cardinality(Evidence!DecideSafety.options) < 3
                                                  THEN Evidence!Cardinality(Evidence!DecideSafety.options) ELSE 3
               /\ decision' = [Evidence!DecideSafety EXCEPT !.options = heard]
      BY <2>2
    <3>2. decision'.disposition = Evidence!DecideSafety.disposition /\ decision'.options = heard
      BY <3>1 DEF Evidence!DecideSafety
    <3>3. Cardinality(heard) = IF Cardinality(Evidence!DecideSafety.options) < 3
                                 THEN Cardinality(Evidence!DecideSafety.options) ELSE 3
      BY <3>1, SameEvidenceCardinality
    <3>4. Evidence!DecideSafety.disposition = "supported" =>
            /\ \A e \in covering : ~e.requiresEscalation
            /\ heard # {} /\ heard \subseteq UNION {e.options : e \in covering}
      BY <1>2, <3>3
    <3> QED  BY <1>1, <3>2, <3>4 DEF Evidence!ObjectionsStand
  <2> QED  BY <2>1, <2>2 DEF Evidence!Decide
<1> QED  BY <1>1, <1>3 DEF EvidenceInv, FoundTogether, AuthorizedBy, Evidence!WellFormed, Evidence!Admissible,
                       Evidence!KnowledgeScopeAllows, Evidence!Counts

LEMMA EvidenceStep ==
  ASSUME EvidenceInv, [Evidence!Next]_evidenceVars
  PROVE  EvidenceInv'
<1>1. ASSUME UNCHANGED <<asking, library, lenient, grounding, routing, safety, decision>>
      PROVE  EvidenceInv'
  BY <1>1 DEF EvidenceInv, FoundTogether, AuthorizedBy, Evidence!WellFormed, Evidence!Admissible,
              Evidence!KnowledgeScopeAllows, Evidence!Counts, Evidence!ObjectionsStand
<1>2. ASSUME NEW s \in Search, Evidence!Begin(s) \/ Evidence!TimesOut(s)
      PROVE  EvidenceInv'
  BY <1>1, <1>2 DEF Evidence!Begin, Evidence!TimesOut, Evidence!inputs
<1>3. ASSUME NEW s \in Search, Evidence!SearchEnds(s)
      PROVE  EvidenceInv'
  BY <1>3, SearchEndsStep
<1>4. ASSUME NEW s \in Search, Evidence!FaqMatches(s)
      PROVE  EvidenceInv'
  BY <1>4, FaqMatchesStep
<1>5. CASE Evidence!Decide
  BY <1>5, DecideStep
<1>6. CASE UNCHANGED evidenceVars
  BY <1>1, <1>6 DEF evidenceVars
<1> QED  BY <1>2, <1>3, <1>4, <1>5, <1>6 DEF Evidence!Next

LEMMA EvidenceHolds ==
  ASSUME EvidenceInv
  PROVE  Evidence!ObjectionsStand /\ Evidence!OneEntryAuthorizes
<1>1. CASE grounding = {}
  BY <1>1, FS_EmptySet, SameEvidenceCardinality DEF EvidenceInv, AuthorizedBy, Evidence!OneEntryAuthorizes
<1>2. CASE \E e \in library : Evidence!Admissible(e, "runtime") /\ grounding = {e}
  <2>1. PICK e \in library : Evidence!Admissible(e, "runtime") /\ grounding = {e}
    BY <1>2
  <2>2. Evidence!Cardinality(grounding) = 1
    BY <2>1, FS_Singleton, SameEvidenceCardinality
  <2>3. Evidence!WellFormed(e)
    BY <2>1 DEF EvidenceInv, Evidence!Admissible
  <2>4. /\ e.store # None => <<e.tenant, e.store>> = <<asking.tenant, asking.store>>
        /\ e.tenant # None => e.tenant = asking.tenant
        /\ e.status = "approved" \/ (e.status = "synthetic_test_only" /\ "runtime" \in lenient)
    BY <2>1, <2>3 DEF Evidence!WellFormed, Evidence!Admissible, Evidence!KnowledgeScopeAllows, Evidence!Counts
  <2> QED  BY <2>1, <2>2, <2>4 DEF EvidenceInv, AuthorizedBy, Evidence!OneEntryAuthorizes
<1> QED  BY <1>1, <1>2 DEF EvidenceInv, AuthorizedBy

-----------------------------------------------------------------------------
(* SemanticSelector: what a selection stands on.                           *)

Invocations ==
  [phase : {"unasked", "waiting", "ended"}, completion : Selector!Completion \cup {None},
   timedOut : BOOLEAN, aborted : BOOLEAN,
   outcome : {None, "selected", "abstained", "invalid", "timeout", "provider_error"},
   evidence : Candidates \cup {None}]
Seen(o) == IF o = "primary" THEN offered ELSE Selector!Reverse(offered)

\* What has ended has ended with what came in time.
InvocationOK(i, seen) ==
  /\ i.phase # "ended" => i.outcome = None /\ i.evidence = None
  /\ i.phase = "waiting" => Len(offered) \in 2..3
  /\ i.evidence # None <=> i.outcome = "selected"
  /\ i.outcome = "selected" /\ Len(offered) > 1 =>
       /\ i.completion # None /\ i.completion \in Selector!Text /\ ~i.timedOut /\ ~i.aborted
       /\ i.completion.shape \in {"exact_json", "surrounding_whitespace_json"}
       /\ \E n \in DOMAIN seen : seen[n] = i.evidence /\ Selector!Label[n] = i.completion.selection
  /\ i.outcome = "timeout" =>
       \/ i.timedOut \/ i.aborted
       \/ i.completion # None /\ i.completion.kind = "failure"

SelectorInv ==
  /\ offered \in Offers /\ invocation \in [Selector!Order -> Invocations]
  /\ \A o \in Selector!Order : InvocationOK(invocation[o], Seen(o))

LEMMA SeenFacts ==
  ASSUME offered \in Offers, NEW o \in Selector!Order
  PROVE  /\ Selector!Ordered(o) = Seen(o) /\ Len(offered) \in Nat
         /\ DOMAIN Seen(o) = 1..Len(offered) /\ Len(Seen(o)) = Len(offered)
         /\ \A n \in DOMAIN Seen(o) : Seen(o)[n] \in Candidates
<1>1. offered \in Seq(Candidates)
  BY SelectorAssumption
<1>2. Len(offered) \in Nat /\ DOMAIN offered = 1..Len(offered) /\ \A n \in 1..Len(offered) : offered[n] \in Candidates
  BY <1>1
<1> DEFINE back == [i \in 1..Len(offered) |-> offered[(Len(offered) - i) + 1]]
<1>3. back \in [1..Len(offered) -> Candidates]
  BY <1>2
<1>4. back \in Seq(Candidates) /\ Len(back) = Len(offered)
  BY <1>2, <1>3
<1>5. Selector!Reverse(offered) = back
  BY DEF Selector!Reverse
<1> HIDE DEF back
<1> QED  BY <1>2, <1>3, <1>4, <1>5 DEF Seen, Selector!Ordered

LEMMA InvocationMoved ==
  ASSUME SelectorInv, NEW o \in Selector!Order, NEW new \in Invocations, offered' = offered,
         invocation' = [invocation EXCEPT ![o] = new], InvocationOK(new, Seen(o))
  PROVE  SelectorInv'
<1>1. invocation' \in [Selector!Order -> Invocations]
  BY DEF SelectorInv
<1>2. ASSUME NEW p \in Selector!Order
      PROVE  InvocationOK(invocation'[p], Seen(p))
  BY DEF SelectorInv
<1> QED  BY <1>1, <1>2 DEF SelectorInv, InvocationOK, Seen

SettledAs(i, outcome, evidence) == [i EXCEPT !.phase = "ended", !.outcome = outcome, !.evidence = evidence]

LEMMA SettledShape ==
  ASSUME NEW i \in Invocations, NEW evidence \in Candidates \cup {None},
         NEW outcome \in {"selected", "abstained", "invalid", "timeout", "provider_error"}
  PROVE  LET new == SettledAs(i, outcome, evidence)
         IN  /\ new \in Invocations /\ new.phase = "ended" /\ new.outcome = outcome /\ new.evidence = evidence
             /\ new.completion = i.completion /\ new.timedOut = i.timedOut /\ new.aborted = i.aborted
BY DEF Invocations, SettledAs

LEMMA SettledStep ==
  ASSUME SelectorInv, NEW o \in Selector!Order, NEW evidence \in Candidates \cup {None},
         NEW outcome \in {"selected", "abstained", "invalid", "timeout", "provider_error"},
         Selector!Ended(o, outcome, evidence), offered' = offered,
         evidence # None <=> outcome = "selected",
         outcome = "selected" /\ Len(offered) > 1 =>
           /\ invocation[o].completion # None /\ invocation[o].completion \in Selector!Text
           /\ ~invocation[o].timedOut /\ ~invocation[o].aborted
           /\ invocation[o].completion.shape \in {"exact_json", "surrounding_whitespace_json"}
           /\ \E n \in DOMAIN Seen(o) : Seen(o)[n] = evidence /\ Selector!Label[n] = invocation[o].completion.selection,
         outcome = "timeout" =>
           \/ invocation[o].timedOut \/ invocation[o].aborted
           \/ invocation[o].completion # None /\ invocation[o].completion.kind = "failure"
  PROVE  SelectorInv'
<1> DEFINE i == invocation[o]
           new == SettledAs(i, outcome, evidence)
<1>1. i \in Invocations
  BY DEF SelectorInv
<1>2. invocation' = [invocation EXCEPT ![o] = new]
  BY DEF SelectorInv, Selector!Ended, SettledAs
<1>3. /\ new \in Invocations /\ new.phase = "ended" /\ new.outcome = outcome /\ new.evidence = evidence
      /\ new.completion = i.completion /\ new.timedOut = i.timedOut /\ new.aborted = i.aborted
  <2> HIDE DEF i
  <2>1. \A e \in Candidates \cup {None} :
        \A u \in {"selected", "abstained", "invalid", "timeout", "provider_error"} :
          LET n == SettledAs(i, u, e)
          IN  /\ n \in Invocations /\ n.phase = "ended" /\ n.outcome = u /\ n.evidence = e
              /\ n.completion = i.completion /\ n.timedOut = i.timedOut /\ n.aborted = i.aborted
    BY <1>1, SettledShape
  <2> QED  BY <2>1
<1> HIDE DEF new
<1>4. InvocationOK(new, Seen(o))
  BY <1>3 DEF InvocationOK
<1> QED  BY <1>2, <1>3, <1>4, InvocationMoved

LEMMA AskStep ==
  ASSUME SelectorInv, NEW o \in Selector!Order, Selector!Ask(o) \/ Selector!TakeOnly(o)
  PROVE  SelectorInv'
<1> DEFINE i == invocation[o]
           new == [i EXCEPT !.phase = "waiting"]
<1>1. i \in Invocations /\ InvocationOK(i, Seen(o)) /\ offered \in Offers
  BY DEF SelectorInv
<1>2. Selector!Ordered(o) = Seen(o) /\ Len(offered) \in Nat /\ Len(Seen(o)) = Len(offered)
  BY <1>1, SeenFacts
<1>3. CASE Selector!TakeOnly(o)
  <2>1. Len(offered) = 1 /\ Selector!Ended(o, "selected", Head(offered)) /\ offered' = offered
    BY <1>3 DEF Selector!TakeOnly
  <2>2. Head(offered) \in Candidates /\ Head(offered) # None
    <3>1. offered \in Seq(Candidates) /\ Len(offered) = 1
      BY <1>1, <2>1, SelectorAssumption
    <3>2. Head(offered) \in Candidates
      BY <3>1
    <3> QED  BY <3>2, SelectorAssumption
  <2> QED  BY <1>2, <2>1, <2>2, SettledStep
<1>4. CASE Selector!Ask(o)
  <2>1. /\ offered' = offered /\ i.phase = "unasked"
        /\ \/ Selector!Ended(o, "invalid", None)
           \/ i.aborted /\ Selector!Ended(o, "timeout", None)
           \/ Selector!ValidInput(o) /\ invocation' = [invocation EXCEPT ![o].phase = "waiting"]
    BY <1>4 DEF Selector!Ask, Selector!Turn
  <2>2. CASE Selector!Ended(o, "invalid", None)
    BY <2>1, <2>2, SettledStep
  <2>3. CASE i.aborted /\ Selector!Ended(o, "timeout", None)
    BY <2>1, <2>3, SettledStep, SelectorAssumption
  <2>4. CASE Selector!ValidInput(o) /\ invocation' = [invocation EXCEPT ![o].phase = "waiting"]
    <3>1. /\ new \in Invocations /\ new.phase = "waiting" /\ new.outcome = i.outcome /\ new.evidence = i.evidence
      BY <1>1 DEF Invocations
    <3>2. invocation' = [invocation EXCEPT ![o] = new]
      BY <2>4 DEF SelectorInv
    <3> HIDE DEF new
    <3>3. Len(offered) \in 2..3
      BY <1>2, <2>4 DEF Selector!ValidInput
    <3>4. InvocationOK(new, Seen(o))
      BY <1>1, <2>1, <3>1, <3>3, SelectorAssumption DEF InvocationOK
    <3> QED  BY <2>1, <3>1, <3>2, <3>4, InvocationMoved
  <2> QED  BY <2>1, <2>2, <2>3, <2>4
<1> QED  BY <1>3, <1>4

\* What changes after the call has ended, or before, unmakes nothing.
LEMMA HappensStep ==
  ASSUME SelectorInv, NEW o \in Selector!Order,
         Selector!Complete(o) \/ Selector!TimerFires(o) \/ Selector!CallerAborts(o)
  PROVE  SelectorInv'
<1> DEFINE i == invocation[o]
<1>1. i \in Invocations /\ InvocationOK(i, Seen(o)) /\ None # "selected" /\ None # "timeout"
  BY SelectorAssumption DEF SelectorInv
<1>2. CASE Selector!Complete(o)
  <2>1. PICK c \in Selector!Completion : invocation' = [invocation EXCEPT ![o].completion = c]
    BY <1>2 DEF Selector!Complete
  <2>2. offered' = offered /\ i.completion = None /\ Selector!ValidInput(o)
    BY <1>2 DEF Selector!Complete
  <2> DEFINE new == [i EXCEPT !.completion = c]
  <2>3. /\ new \in Invocations /\ new.phase = i.phase /\ new.outcome = i.outcome /\ new.evidence = i.evidence
        /\ new.timedOut = i.timedOut /\ new.aborted = i.aborted
    BY <1>1 DEF Invocations
  <2>4. invocation' = [invocation EXCEPT ![o] = new]
    BY <2>1 DEF SelectorInv
  <2> HIDE DEF new
  <2>5. InvocationOK(new, Seen(o))
    BY <1>1, <2>2, <2>3 DEF InvocationOK
  <2> QED  BY <2>2, <2>3, <2>4, <2>5, InvocationMoved
<1>3. CASE Selector!TimerFires(o)
  <2> DEFINE new == [i EXCEPT !.timedOut = TRUE]
  <2>1. offered' = offered /\ i.phase = "waiting" /\ invocation' = [invocation EXCEPT ![o] = new]
    BY <1>3 DEF Selector!TimerFires, SelectorInv
  <2>2. /\ new \in Invocations /\ new.phase = i.phase /\ new.outcome = i.outcome /\ new.evidence = i.evidence
        /\ new.completion = i.completion /\ new.timedOut = TRUE /\ new.aborted = i.aborted
    BY <1>1 DEF Invocations
  <2> HIDE DEF new
  <2>3. InvocationOK(new, Seen(o))
    BY <1>1, <2>1, <2>2 DEF InvocationOK
  <2> QED  BY <2>1, <2>2, <2>3, InvocationMoved
<1>4. CASE Selector!CallerAborts(o)
  <2> DEFINE new == [i EXCEPT !.aborted = TRUE]
  <2>1. offered' = offered /\ i.phase # "ended" /\ invocation' = [invocation EXCEPT ![o] = new]
    BY <1>4 DEF Selector!CallerAborts, SelectorInv
  <2>2. /\ new \in Invocations /\ new.phase = i.phase /\ new.outcome = i.outcome /\ new.evidence = i.evidence
        /\ new.completion = i.completion /\ new.timedOut = i.timedOut /\ new.aborted = TRUE
    BY <1>1 DEF Invocations
  <2> HIDE DEF new
  <2>3. InvocationOK(new, Seen(o))
    BY <1>1, <2>1, <2>2 DEF InvocationOK
  <2> QED  BY <2>1, <2>2, <2>3, InvocationMoved
<1> QED  BY <1>2, <1>3, <1>4

\* A label that was given out is that of one candidate, in the order that was shown.
LEMMA LabelledFacts ==
  ASSUME offered \in Offers, NEW o \in Selector!Order, Len(offered) \in 2..3, NEW label \in Selector!Allowed(o)
  PROVE  \E n \in DOMAIN Seen(o) : /\ Seen(o)[n] = Selector!Labelled(o, label) /\ Selector!Label[n] = label
                                   /\ Seen(o)[n] \in Candidates
<1>1. /\ Selector!Ordered(o) = Seen(o) /\ DOMAIN Seen(o) = 1..Len(offered)
      /\ \A n \in DOMAIN Seen(o) : Seen(o)[n] \in Candidates
  BY SeenFacts
<1>2. PICK n \in 1..Len(offered) : label = Selector!Label[n]
  BY <1>1 DEF Selector!Allowed
<1>3. n \in 1..3
  <2>1. \A k \in 2..3 : 1..k \subseteq 1..3
    OBVIOUS
  <2> QED  BY <2>1
<1> DEFINE m == CHOOSE i \in 1..3 : Selector!Label[i] = label
<1>4. m \in 1..3 /\ Selector!Label[m] = label
  BY <1>2, <1>3
<1>5. m = n
  BY <1>2, <1>3, <1>4 DEF Selector!Label
<1> QED  BY <1>1, <1>2, <1>5 DEF Selector!Labelled

LEMMA SettleStep ==
  ASSUME SelectorInv, NEW o \in Selector!Order, Selector!Settle(o)
  PROVE  SelectorInv'
<1> DEFINE i == invocation[o]
           c == i.completion
<1>1. i \in Invocations /\ InvocationOK(i, Seen(o)) /\ offered \in Offers /\ None # "selected" /\ None # "timeout"
  BY SelectorAssumption DEF SelectorInv
<1>2. i.phase = "waiting" /\ offered' = offered /\ Len(offered) \in 2..3
  BY <1>1 DEF Selector!Settle, InvocationOK
<1>3. CASE Selector!TooLate(o)
  <2>1. Selector!Ended(o, "timeout", None) /\ (i.timedOut \/ i.aborted)
    BY <1>3 DEF Selector!Settle, Selector!TooLate
  <2> QED  BY <1>1, <1>2, <2>1, SettledStep
<1>4. CASE ~Selector!TooLate(o)
  <2>1. /\ ~i.timedOut /\ ~i.aborted /\ c # None
        /\ CASE c.kind = "rejection" -> Selector!Ended(o, "provider_error", None)
             [] c.kind = "failure" -> Selector!Ended(o, c.outcome, None)
             [] OTHER -> Selector!Ended(o, Selector!Parsed(o, c),
                           IF Selector!Parsed(o, c) = "selected" THEN Selector!Labelled(o, c.selection) ELSE None)
    BY <1>4 DEF Selector!Settle, Selector!TooLate
  <2>2. \/ c \in Selector!Text \/ c \in [kind : {"failure"}, outcome : {"provider_error", "timeout"}]
        \/ c \in [kind : {"rejection"}]
    BY <1>1, <2>1 DEF Invocations, Selector!Completion
  <2>3. CASE c \in [kind : {"rejection"}]
    <3>1. Selector!Ended(o, "provider_error", None)
      BY <2>1, <2>3
    <3> QED  BY <1>1, <1>2, <3>1, SettledStep
  <2>4. CASE c \in [kind : {"failure"}, outcome : {"provider_error", "timeout"}]
    <3>1. c.kind = "failure" /\ c.outcome \in {"provider_error", "timeout"} /\ Selector!Ended(o, c.outcome, None)
      BY <2>1, <2>4
    <3> QED  BY <1>1, <1>2, <2>1, <3>1, SettledStep
  <2>5. CASE c \in Selector!Text
    <3>1. c.kind = "text"
      BY <2>5 DEF Selector!Text
    <3>2. Selector!Ended(o, Selector!Parsed(o, c),
                           IF Selector!Parsed(o, c) = "selected" THEN Selector!Labelled(o, c.selection) ELSE None)
      BY <2>1, <3>1
    <3>3. Selector!Parsed(o, c) \in {"selected", "abstained", "invalid"}
      BY DEF Selector!Parsed
    <3>4. CASE Selector!Parsed(o, c) # "selected"
      BY <1>1, <1>2, <3>2, <3>3, <3>4, SettledStep
    <3>5. CASE Selector!Parsed(o, c) = "selected"
      <4>1. c.shape \in {"exact_json", "surrounding_whitespace_json"} /\ c.selection \in Selector!Allowed(o)
        BY <3>5 DEF Selector!Parsed
      <4>2. PICK n \in DOMAIN Seen(o) :
              /\ Seen(o)[n] = Selector!Labelled(o, c.selection) /\ Selector!Label[n] = c.selection
              /\ Seen(o)[n] \in Candidates
        BY <1>1, <1>2, <4>1, LabelledFacts
      <4>3. Selector!Labelled(o, c.selection) \in Candidates /\ Selector!Labelled(o, c.selection) # None
        BY <4>2, SelectorAssumption
      <4>4. Selector!Ended(o, "selected", Selector!Labelled(o, c.selection))
        BY <3>2, <3>5
      <4> QED  BY <1>1, <1>2, <2>1, <2>5, <4>1, <4>2, <4>3, <4>4, SettledStep
    <3> QED  BY <3>4, <3>5
  <2> QED  BY <2>2, <2>3, <2>4, <2>5
<1> QED  BY <1>3, <1>4

LEMMA SelectorStep ==
  ASSUME SelectorInv, [Selector!Next]_selectorVars
  PROVE  SelectorInv'
<1>1. CASE UNCHANGED selectorVars
  BY <1>1 DEF SelectorInv, InvocationOK, Seen, selectorVars
<1>2. ASSUME NEW o \in Selector!Order,
             \/ Selector!TakeOnly(o) \/ Selector!Ask(o) \/ Selector!Complete(o) \/ Selector!TimerFires(o)
             \/ Selector!CallerAborts(o) \/ Selector!Settle(o)
      PROVE  SelectorInv'
  BY <1>2, AskStep, HappensStep, SettleStep
<1> QED  BY <1>1, <1>2 DEF Selector!Next

LEMMA SelectorInit ==
  ASSUME Selector!Init
  PROVE  SelectorInv
<1>1. offered \in Offers /\ invocation = [o \in Selector!Order |-> Selector!Unasked]
  BY DEF Selector!Init
<1>2. /\ Selector!Unasked \in Invocations /\ Selector!Unasked.phase = "unasked"
      /\ Selector!Unasked.outcome = None /\ Selector!Unasked.evidence = None
  BY DEF Selector!Unasked, Invocations
<1> QED  BY <1>1, <1>2, SelectorAssumption DEF SelectorInv, InvocationOK

LEMMA SelectorHolds ==
  ASSUME SelectorInv
  PROVE  Selector!SelectionStands
<1> SUFFICES ASSUME NEW o \in Selector!Order
             PROVE  LET i == invocation[o] IN
                    /\ i.evidence # None <=> i.outcome = "selected"
                    /\ i.outcome = "selected" /\ Len(offered) > 1 =>
                         /\ i.completion.kind = "text" /\ ~i.timedOut /\ ~i.aborted
                         /\ i.completion.shape \in {"exact_json", "surrounding_whitespace_json"}
                         /\ \E n \in DOMAIN Seen(o) : Seen(o)[n] = i.evidence /\ Selector!Label[n] = i.completion.selection
                    /\ i.outcome = "timeout" => i.timedOut \/ i.aborted \/ i.completion.kind = "failure"
  BY DEF Selector!SelectionStands, Seen
<1>1. InvocationOK(invocation[o], Seen(o))
  BY DEF SelectorInv
<1>2. \A c \in Selector!Text : c.kind = "text"
  BY DEF Selector!Text
<1> QED  BY <1>1, <1>2 DEF InvocationOK

\* A risk is answered only over no objection of an approved entry, a turn answers from
\* one entry of its own scope, and a selection stands on an answer in time
\* (createTools in index.ts, decideSafety, semantic-selector.ts).
THEOREM EvidenceAdmissionHolds == Evidence!Spec /\ Selector!Spec => []EvidenceIsAdmitted
<1>1. Evidence!Init => EvidenceInv
  BY FS_EmptySet DEF Evidence!Init, EvidenceInv, FoundTogether, AuthorizedBy, Evidence!ObjectionsStand
<1>2. EvidenceInv /\ [Evidence!Next]_(Evidence!vars) => EvidenceInv'
  BY EvidenceStep DEF Evidence!vars, evidenceVars
<1>3. Selector!Init => SelectorInv
  BY SelectorInit
<1>4. SelectorInv /\ [Selector!Next]_(Selector!vars) => SelectorInv'
  BY SelectorStep DEF Selector!vars, selectorVars
<1>5. EvidenceInv /\ SelectorInv => EvidenceIsAdmitted
  BY EvidenceHolds, SelectorHolds DEF EvidenceIsAdmitted
<1> QED  BY <1>1, <1>2, <1>3, <1>4, <1>5, PTL DEF Evidence!Spec, Selector!Spec

-----------------------------------------------------------------------------
(* EnterpriseStartup: what a process serves, and on which responses.       *)

Rows == {Setup[i] : i \in DOMAIN Setup}
UserRows == {Startup!UserOf(w) : w \in Startup!Everyone}
MemberRows == {Startup!MemberOf(w) : w \in Startup!Everyone}

LEMMA SeedFacts ==
  /\ Startup!SeedRows = Rows \cup UserRows \cup MemberRows
  /\ Startup!SeedOrder \in Seq(Startup!SeedRows) /\ Startup!SeedOrder # <<>>
<1> DEFINE users == [i \in DOMAIN People |-> Startup!UserOf(People[i])]
           members == [i \in DOMAIN People |-> Startup!MemberOf(People[i])]
           S == Rows \cup UserRows \cup MemberRows
<1>1. Setup \in Seq(S) /\ Range(Setup) = Rows
  BY StartupAssumption DEF Rows, Range
<1>2. Len(People) \in Nat /\ DOMAIN People = 1..Len(People) /\ 1 \in DOMAIN People
  BY StartupAssumption
<1>3. users \in Seq(S) /\ members \in Seq(S) /\ Len(members) = Len(People)
  BY <1>2 DEF UserRows, MemberRows, Startup!Everyone
<1>4. Range(users) = UserRows /\ Range(members) = MemberRows
  BY DEF UserRows, MemberRows, Startup!Everyone, Range
<1>5. Startup!SeedOrder = (Setup \o users) \o members
  BY DEF Startup!SeedOrder
<1> HIDE DEF users, members, S
<1>6. Setup \o users \in Seq(S) /\ Range(Setup \o users) = Rows \cup UserRows
  BY <1>1, <1>3, <1>4, ConcatProperties, RangeConcatenation
<1>7. /\ (Setup \o users) \o members \in Seq(S) /\ Range((Setup \o users) \o members) = S
      /\ Len((Setup \o users) \o members) = Len(Setup \o users) + Len(members)
  <2>1. \A q \in Seq(S) : Range(q \o members) = Range(q) \cup Range(members)
    BY <1>3, RangeConcatenation
  <2>2. Range((Setup \o users) \o members) = S
    <3>1. Range((Setup \o users) \o members) = Range(Setup \o users) \cup Range(members)
      BY <1>6, <2>1, Zenon
    <3> QED  BY <1>4, <1>6, <3>1 DEF S
  <2>3. \A q \in Seq(S) : q \o members \in Seq(S) /\ Len(q \o members) = Len(q) + Len(members)
    BY <1>3, ConcatProperties
  <2> QED  BY <1>6, <2>2, <2>3, Zenon
<1>8. Startup!SeedRows = S
  BY <1>5, <1>7 DEF Startup!SeedRows, Range
<1>9. Startup!SeedOrder # <<>>
  <2>1. Len(Startup!SeedOrder) >= 1
    BY <1>2, <1>3, <1>5, <1>6, <1>7
  <2> QED  BY <2>1
<1> QED  BY <1>5, <1>7, <1>8, <1>9 DEF S

LEMMA RowFacts ==
  /\ \A v, w : Startup!UserOf(v) # Startup!MemberOf(w)
  /\ \A v, w : Startup!UserOf(v) = Startup!UserOf(w) => v = w
  /\ \A v, w : Startup!MemberOf(v) = Startup!MemberOf(w) => v = w
  /\ \A row \in Rows : \A w : row # Startup!UserOf(w) /\ row # Startup!MemberOf(w)
<1>1. \A row \in Rows : row[1] \notin {"user", "membership"}
  BY StartupAssumption DEF Rows
<1>2. \A w : Startup!UserOf(w)[1] = "user" /\ Startup!MemberOf(w)[1] = "membership"
             /\ Startup!UserOf(w)[2] = w /\ Startup!MemberOf(w)[2] = w
  BY DEF Startup!UserOf, Startup!MemberOf
<1>3. "user" # "membership"
  OBVIOUS
<1> QED  BY <1>1, <1>2, <1>3

\* The rows of a graph that are there have what they reference.
Closed(g) == \A row \in g : Startup!References(row) \subseteq g

LEMMA MembersComplete ==
  ASSUME NEW g \in SUBSET Startup!SeedRows, Closed(g), NEW w \in Startup!Everyone,
         Startup!MemberOf(w) \in g
  PROVE  Rows \subseteq g /\ Startup!UserOf(w) \in g
<1>1. {Startup!UserOf(w)} \cup {Setup[i] : i \in DOMAIN Setup} \subseteq Startup!References(Startup!MemberOf(w))
  BY DEF Startup!References
<1>2. Startup!References(Startup!MemberOf(w)) \subseteq g
  BY DEF Closed
<1> QED  BY <1>1, <1>2 DEF Rows

LEMMA LegacyClosed ==
  Closed(Startup!SeedRows \ {Startup!UserOf(Newcomer), Startup!MemberOf(Newcomer)})
<1> DEFINE g == Startup!SeedRows \ {Startup!UserOf(Newcomer), Startup!MemberOf(Newcomer)}
<1>1. ASSUME NEW row \in g, NEW e \in Startup!References(row)
      PROVE  e \in g
  <2>1. PICK w \in Startup!Everyone : row = Startup!MemberOf(w) /\ (e = Startup!UserOf(w) \/ e \in Rows)
    BY DEF Startup!References, Rows
  <2>2. w # Newcomer
    BY <2>1
  <2>3. CASE e = Startup!UserOf(w)
    BY <2>2, <2>3, SeedFacts, RowFacts DEF UserRows
  <2>4. CASE e \in Rows
    BY <2>4, SeedFacts, RowFacts
  <2> QED  BY <2>1, <2>3, <2>4
<1> QED  BY <1>1 DEF Closed

LEMMA SeedClosed == Closed({}) /\ Closed(Startup!SeedRows)
<1>1. ASSUME NEW row \in Startup!SeedRows, NEW e \in Startup!References(row)
      PROVE  e \in Startup!SeedRows
  <2>1. PICK w \in Startup!Everyone : row = Startup!MemberOf(w) /\ (e = Startup!UserOf(w) \/ e \in Rows)
    BY DEF Startup!References, Rows
  <2> QED  BY <2>1, SeedFacts DEF UserRows
<1> QED  BY <1>1 DEF Closed

Serving == {"serving", "closing", "draining", "ending"}
AppStages == {"off", "migrate", "apply", "read", "check", "create", "register"} \cup Serving
AppStates ==
  [pc : AppStages,
   at : Nat, seen : SUBSET (Startup!Everyone \cup Requests), todo : Seq(Startup!SeedRows),
   runs : BOOLEAN, env : Environments \cup {None}]
ServedRequests ==
  [pc : {"unsent", "received", "queued", "running", "done"}, at : Processes \cup {None}, connected : BOOLEAN]

SchemaOK(a, p, listed, lock) ==
  /\ a.pc \in {"migrate", "apply"} => a.at \in 1..Migrations /\ 1..(a.at - 1) \subseteq listed
  /\ a.pc = "apply" => lock = p /\ (a.runs <=> a.at \notin listed)
  /\ a.pc \notin {"off", "migrate", "apply"} => listed = 1..Migrations
\* Whoever creates rows has those that are missing still to do.
GraphOK(a, g) ==
  /\ a.pc = "read" => a.at # 0
  /\ a.pc \in {"migrate", "apply", "read"} => a.seen \subseteq Startup!Everyone
  /\ a.pc = "check" =>
       /\ a.at \in 1..Len(People) /\ a.seen # {} /\ a.seen \subseteq Startup!Everyone
       /\ Startup!LegacyComplete(a.seen)
       /\ \A i \in 1..(a.at - 1) : Startup!MemberOf(People[i]) \in g
  /\ a.pc = "create" => a.todo # <<>> /\ Startup!SeedRows \subseteq g \cup Range(a.todo)
  /\ a.pc \in {"register"} \cup Serving => g = Startup!SeedRows
ProcessOK(a, p, listed, lock, g, holding) ==
  /\ SchemaOK(a, p, listed, lock) /\ GraphOK(a, g)
  /\ a.pc # "off" => a.env \in Environments /\ Startup!Configured(a.env)
  /\ a.pc \in {"serving", "closing", "draining"} => holding # None

\* The run that is at the head of the chain of a demo runtime has its own responses.
ChainOK(q, r, chain, holding) ==
  /\ q.pc = "queued" => \E i \in DOMAIN chain : chain[i] = r
  /\ q.pc = "running" => chain # <<>> /\ Head(chain) = r /\ (holding = r \/ (~q.connected /\ holding = None))
RunsOK(q, r, a, chain, holding) ==
  q.pc \in {"received", "queued", "running"} =>
    /\ q.at \in Processes /\ a.pc \in Serving
    /\ a.pc \in {"draining", "ending"} => ~q.connected
    /\ a.env.runtime = "deterministic" => ChainOK(q, r, chain, holding)

StartupTypeOK ==
  /\ applied \in [1..Migrations -> Nat] /\ ledger \subseteq 1..Migrations
  /\ graph \subseteq Startup!SeedRows
  /\ app \in [Processes -> AppStates] /\ queue \in [Processes -> Seq(Requests)]
  /\ script \in [Processes -> Requests \cup {None, "registered"}]
  /\ request \in [Requests -> ServedRequests]
StoreOK == Startup!MigratedOnce /\ Closed(graph)
ProcessesOK == \A p \in Processes : ProcessOK(app[p], p, ledger, ledgerLock, graph, script[p])
RequestsOK ==
  \A r \in Requests :
    RunsOK(request[r], r, app[request[r].at], queue[request[r].at], script[request[r].at])
StartupInv == StartupTypeOK /\ StoreOK /\ ProcessesOK /\ RequestsOK

PcOf(a, pc) == [a EXCEPT !.pc = pc]
PcAt(a, pc, at) == [a EXCEPT !.pc = pc, !.at = at]
Begun(a, listed) == [a EXCEPT !.pc = "apply", !.runs = a.at \notin listed]
PcSeen(a, pc, seen) == [a EXCEPT !.pc = pc, !.seen = seen]
PcTodo(a, pc, todo) == [a EXCEPT !.pc = pc, !.todo = todo]
Booted(a, env) == [a EXCEPT !.pc = "migrate", !.at = 1, !.env = env]
AtSeen(a, at, seen) == [a EXCEPT !.at = at, !.seen = seen]

LEMMA PcOfShape ==
  ASSUME NEW a \in AppStates, NEW pc \in AppStages
  PROVE  LET b == PcOf(a, pc) IN b \in AppStates /\ b.pc = pc /\ b.at = a.at /\ b.seen = a.seen /\ b.todo = a.todo /\ b.env = a.env
BY DEF AppStates, AppStages, PcOf

LEMMA PcAtShape ==
  ASSUME NEW a \in AppStates, NEW pc \in AppStages, NEW at \in Nat
  PROVE  LET b == PcAt(a, pc, at) IN b \in AppStates /\ b.pc = pc /\ b.at = at /\ b.seen = a.seen /\ b.env = a.env
BY DEF AppStates, AppStages, PcAt

LEMMA BegunShape ==
  ASSUME NEW a \in AppStates, NEW listed
  PROVE  LET b == Begun(a, listed) IN b \in AppStates /\ b.pc = "apply" /\ b.at = a.at /\ b.seen = a.seen /\ (b.runs <=> a.at \notin listed) /\ b.env = a.env
BY DEF AppStates, AppStages, Begun

LEMMA PcSeenShape ==
  ASSUME NEW a \in AppStates, NEW pc \in AppStages, NEW seen \in SUBSET (Startup!Everyone \cup Requests)
  PROVE  LET b == PcSeen(a, pc, seen) IN b \in AppStates /\ b.pc = pc /\ b.at = a.at /\ b.seen = seen /\ b.env = a.env
BY DEF AppStates, AppStages, PcSeen

LEMMA PcTodoShape ==
  ASSUME NEW a \in AppStates, NEW pc \in AppStages, NEW todo \in Seq(Startup!SeedRows)
  PROVE  LET b == PcTodo(a, pc, todo) IN b \in AppStates /\ b.pc = pc /\ b.todo = todo /\ b.env = a.env
BY DEF AppStates, AppStages, PcTodo

LEMMA AtSeenShape ==
  ASSUME NEW a \in AppStates, NEW at \in Nat, NEW seen \in SUBSET (Startup!Everyone \cup Requests)
  PROVE  LET b == AtSeen(a, at, seen) IN b \in AppStates /\ b.pc = a.pc /\ b.at = at /\ b.seen = seen /\ b.env = a.env
BY DEF AppStates, AppStages, AtSeen

LEMMA BootedShape ==
  ASSUME NEW a \in AppStates, NEW env \in Environments
  PROVE  LET b == Booted(a, env) IN b \in AppStates /\ b.pc = "migrate" /\ b.at = 1 /\ b.seen = a.seen /\ b.env = env
<1> DEFINE b == PcAt(a, "migrate", 1)
<1>1. b \in AppStates /\ b.pc = "migrate" /\ b.at = 1 /\ b.seen = a.seen
  BY PcAtShape DEF AppStages
<1>2. Booted(a, env) = [b EXCEPT !.env = env]
  BY DEF Booted, PcAt, AppStates
<1> HIDE DEF b
<1> QED  BY <1>1, <1>2 DEF AppStates

LEMMA OffShape == Startup!Off \in AppStates /\ Startup!Off.pc = "off" /\ Startup!Off.seen = {}
BY DEF AppStates, AppStages, Startup!Off

LEMMA ProcessStands ==
  ASSUME NEW a \in AppStates, NEW q \in Processes, NEW listed, NEW lists \in SUBSET (1..Migrations), NEW lock, NEW locks,
         NEW g, NEW h \in SUBSET Startup!SeedRows, NEW holding, ProcessOK(a, q, listed, lock, g, holding),
         listed \subseteq lists, g \subseteq h, a.pc = "apply" => lists = listed /\ locks = lock
  PROVE  ProcessOK(a, q, lists, locks, h, holding)
<1>1. SchemaOK(a, q, lists, locks)
  BY DEF ProcessOK, SchemaOK
<1>2. GraphOK(a, h)
  BY DEF ProcessOK, GraphOK, Serving
<1> QED  BY <1>1, <1>2 DEF ProcessOK

LEMMA RunsStand ==
  ASSUME NEW q \in ServedRequests, NEW r, NEW a \in AppStates, NEW chain, NEW holding, RunsOK(q, r, a, chain, holding),
         NEW b \in AppStates, NEW holds, a.pc \in Serving => b.pc \in Serving /\ b.env = a.env,
         b.pc \in {"draining", "ending"} => a.pc \in {"draining", "ending"} \/ (q.connected => q.pc = "done"),
         a.pc \in Serving => holds = holding \/ (holds = None /\ a.pc = "draining")
  PROVE  RunsOK(q, r, b, chain, holds)
<1> SUFFICES ASSUME q.pc \in {"received", "queued", "running"}
             PROVE  /\ q.at \in Processes /\ b.pc \in Serving
                    /\ b.pc \in {"draining", "ending"} => ~q.connected
                    /\ b.env.runtime = "deterministic" => ChainOK(q, r, chain, holds)
  BY DEF RunsOK
<1>1. /\ q.at \in Processes /\ a.pc \in Serving /\ b.pc \in Serving /\ b.env = a.env
      /\ a.pc \in {"draining", "ending"} => ~q.connected
      /\ a.env.runtime = "deterministic" => ChainOK(q, r, chain, holding)
  BY DEF RunsOK
<1>2. b.pc \in {"draining", "ending"} => ~q.connected
  BY <1>1
<1>3. ASSUME a.env.runtime = "deterministic"
      PROVE  ChainOK(q, r, chain, holds)
  BY <1>1, <1>3 DEF ChainOK
<1> QED  BY <1>1, <1>2, <1>3

\* A process moves on, and the others stand.
LEMMA AppMoved ==
  ASSUME StartupInv, NEW p \in Processes, NEW new \in AppStates, app' = [app EXCEPT ![p] = new],
         queue' = queue, request' = request,
         script' \in [Processes -> Requests \cup {None, "registered"}],
         \A q \in Processes \ {p} : script'[q] = script[q],
         applied' \in [1..Migrations -> Nat], ledger \subseteq ledger', ledger' \subseteq 1..Migrations,
         Startup!MigratedOnce', graph \subseteq graph', graph' \subseteq Startup!SeedRows, Closed(graph)',
         \A q \in Processes \ {p} : app[q].pc = "apply" => ledger' = ledger /\ ledgerLock' = ledgerLock,
         ProcessOK(new, p, ledger', ledgerLock', graph', script'[p]),
         app[p].pc \in Serving => new.pc \in Serving /\ new.env = app[p].env,
         new.pc \in {"draining", "ending"} => app[p].pc \in {"draining", "ending"} \/ Startup!ServerClosed(p),
         app[p].pc \in Serving => script'[p] = script[p] \/ (script'[p] = None /\ app[p].pc = "draining")
  PROVE  StartupInv'
<1>1. app \in [Processes -> AppStates] /\ request \in [Requests -> ServedRequests]
  BY DEF StartupInv, StartupTypeOK
<1>2. app' \in [Processes -> AppStates] /\ app'[p] = new /\ \A q \in Processes \ {p} : app'[q] = app[q]
  BY <1>1
<1>3. StartupTypeOK' /\ StoreOK'
  BY <1>2 DEF StartupInv, StartupTypeOK, StoreOK
<1>4. ASSUME NEW q \in Processes
      PROVE  ProcessOK(app'[q], q, ledger', ledgerLock', graph', script'[q])
  <2>1. CASE q = p
    BY <1>2, <2>1
  <2>2. CASE q # p
    <3>1. ProcessOK(app[q], q, ledger, ledgerLock, graph, script[q]) /\ app[q] \in AppStates
      BY <1>1 DEF StartupInv, ProcessesOK
    <3>2. script'[q] = script[q] /\ app'[q] = app[q]
      BY <1>2, <2>2
    <3>3. app[q].pc = "apply" => ledger' = ledger /\ ledgerLock' = ledgerLock
      BY <2>2
    <3>4. ProcessOK(app[q], q, ledger', ledgerLock', graph', script[q])
      BY <3>1, <3>3, ProcessStands
    <3> QED  BY <3>2, <3>4
  <2> QED  BY <2>1, <2>2
<1>5. ASSUME NEW r \in Requests
      PROVE  RunsOK(request[r], r, app'[request[r].at], queue[request[r].at], script'[request[r].at])
  <2> DEFINE q == request[r]
  <2>1. RunsOK(q, r, app[q.at], queue[q.at], script[q.at]) /\ q \in ServedRequests
    BY <1>1 DEF StartupInv, RequestsOK
  <2>2. CASE q.pc \notin {"received", "queued", "running"}
    BY <2>2 DEF RunsOK
  <2>3. CASE q.pc \in {"received", "queued", "running"} /\ q.at # p
    <3>1. q.at \in Processes
      BY <2>1, <2>3 DEF RunsOK
    <3>2. app'[q.at] = app[q.at] /\ script'[q.at] = script[q.at]
      BY <1>2, <2>3, <3>1
    <3> QED  BY <2>1, <3>2
  <2>4. CASE q.pc \in {"received", "queued", "running"} /\ q.at = p
    <3>1. app[p] \in AppStates
      BY <1>1
    <3>2. Startup!ServerClosed(p) => (q.connected => q.pc = "done")
      BY <2>4 DEF Startup!ServerClosed
    <3>3. RunsOK(q, r, app[p], queue[p], script[p])
      BY <2>1, <2>4
    <3> HIDE DEF q
    <3>4. RunsOK(q, r, new, queue[p], script'[p])
      BY <2>1, <3>1, <3>2, <3>3, RunsStand
    <3> QED  BY <1>2, <2>4, <3>4 DEF q
  <2> QED  BY <2>2, <2>3, <2>4
<1>6. ProcessesOK' /\ RequestsOK'
  BY <1>4, <1>5 DEF ProcessesOK, RequestsOK
<1> QED  BY <1>3, <1>6 DEF StartupInv

LEMMA AppSteps ==
  ASSUME StartupInv, NEW p \in Processes, NEW new \in AppStates, app' = [app EXCEPT ![p] = new],
         UNCHANGED <<applied, ledger, ledgerLock, graph, queue, script, request>>,
         ProcessOK(new, p, ledger, ledgerLock, graph, script[p]),
         app[p].pc \in Serving => new.pc \in Serving /\ new.env = app[p].env,
         new.pc \in {"draining", "ending"} => app[p].pc \in {"draining", "ending"} \/ Startup!ServerClosed(p)
  PROVE  StartupInv'
<1>1. script' \in [Processes -> Requests \cup {None, "registered"}] /\ applied' \in [1..Migrations -> Nat]
  BY DEF StartupInv, StartupTypeOK
<1>2. graph' \subseteq Startup!SeedRows /\ ledger' \subseteq 1..Migrations
  BY DEF StartupInv, StartupTypeOK
<1>3. Startup!MigratedOnce' /\ Closed(graph)'
  BY DEF StartupInv, StoreOK, Startup!MigratedOnce
<1>4. ProcessOK(new, p, ledger', ledgerLock', graph', script'[p])
  OBVIOUS
<1> QED  BY <1>1, <1>2, <1>3, <1>4, AppMoved

LEMMA AppFacts ==
  ASSUME StartupInv, NEW p \in Processes
  PROVE  /\ app[p] \in AppStates /\ ProcessOK(app[p], p, ledger, ledgerLock, graph, script[p])
         /\ graph \in SUBSET Startup!SeedRows /\ ledger \subseteq 1..Migrations /\ Closed(graph)
         /\ app \in [Processes -> AppStates] /\ script \in [Processes -> Requests \cup {None, "registered"}]
         /\ applied \in [1..Migrations -> Nat] /\ queue \in [Processes -> Seq(Requests)]
         /\ request \in [Requests -> ServedRequests] /\ Startup!MigratedOnce
BY DEF StartupInv, StartupTypeOK, ProcessesOK, StoreOK

LEMMA BootStep ==
  ASSUME StartupInv, NEW p \in Processes, Startup!Boot(p)
  PROVE  StartupInv'
<1>1. PICK env \in Environments : \E bootstrapped \in Startup!Bootstraps(env) :
        app' = IF Startup!Configured(env) /\ bootstrapped
                 THEN [app EXCEPT ![p] = [Startup!Off EXCEPT !.pc = "migrate", !.at = 1, !.env = env]]
                 ELSE app
  BY DEF Startup!Boot
<1>5. PICK bootstrapped \in Startup!Bootstraps(env) :
        app' = IF Startup!Configured(env) /\ bootstrapped
                 THEN [app EXCEPT ![p] = [Startup!Off EXCEPT !.pc = "migrate", !.at = 1, !.env = env]]
                 ELSE app
  BY <1>1
<1>2. app[p].pc = "off" /\ UNCHANGED <<applied, ledger, ledgerLock, graph, queue, script, request>>
  BY DEF Startup!Boot, Startup!store, Startup!serving
<1>3. CASE Startup!Configured(env) /\ bootstrapped
  <2> DEFINE new == Booted(Startup!Off, env)
  <2>1. app' = [app EXCEPT ![p] = new]
    BY <1>3, <1>5 DEF Booted
  <2>2. new \in AppStates /\ new.pc = "migrate" /\ new.at = 1 /\ new.seen = {} /\ new.env = env
    BY BootedShape, OffShape
  <2> HIDE DEF new
  <2>3. ProcessOK(new, p, ledger, ledgerLock, graph, script[p])
    BY <1>3, <2>2, StartupAssumption DEF ProcessOK, SchemaOK, GraphOK, Serving
  <2>7. app[p].pc \notin Serving /\ new.pc \notin {"draining", "ending"}
    BY <1>2, <2>2 DEF Serving
  <2> QED  BY <1>2, <2>1, <2>2, <2>3, <2>7, AppSteps
<1>4. CASE ~(Startup!Configured(env) /\ bootstrapped)
  <2>1. UNCHANGED <<applied, ledger, ledgerLock, graph, app, queue, script, request>>
    BY <1>5, <1>2, <1>4
  <2> QED  BY <2>1 DEF StartupInv, StartupTypeOK, StoreOK, Startup!MigratedOnce, ProcessesOK, RequestsOK
<1> QED  BY <1>3, <1>4

LEMMA BeginStep ==
  ASSUME StartupInv, NEW p \in Processes, Startup!BeginMigration(p)
  PROVE  StartupInv'
<1> DEFINE new == Begun(app[p], ledger)
<1>1. /\ app[p].pc = "migrate" /\ ledgerLock = None /\ ledgerLock' = p
      /\ app' = [app EXCEPT ![p] = new] /\ UNCHANGED <<applied, ledger, graph, queue, script, request>>
  BY AppFacts DEF Startup!BeginMigration, Startup!LedgerFree, Startup!serving, Begun
<1>2. new \in AppStates /\ new.pc = "apply" /\ new.at = app[p].at /\ new.seen = app[p].seen /\ (new.runs <=> app[p].at \notin ledger)
      /\ new.env = app[p].env
  BY AppFacts, BegunShape
<1> HIDE DEF new
<1>3. ProcessOK(new, p, ledger', ledgerLock', graph', script'[p])
  BY <1>1, <1>2, AppFacts DEF ProcessOK, SchemaOK, GraphOK, Serving
<1>4. \A q \in Processes : app[q].pc # "apply"
  BY <1>1, StartupAssumption DEF StartupInv, ProcessesOK, ProcessOK, SchemaOK
<1>5. Startup!MigratedOnce' /\ Closed(graph)'
  BY <1>1 DEF StartupInv, StoreOK, Startup!MigratedOnce
<1>6. app[p].pc \notin Serving /\ new.pc \notin {"draining", "ending"}
  BY <1>1, <1>2 DEF Serving
<1>7. script' \in [Processes -> Requests \cup {None, "registered"}] /\ applied' \in [1..Migrations -> Nat]
      /\ graph' \subseteq Startup!SeedRows /\ ledger' \subseteq 1..Migrations
  BY <1>1, AppFacts
<1> QED  BY <1>1, <1>2, <1>3, <1>4, <1>5, <1>6, <1>7, AppMoved

LEMMA EndsStep ==
  ASSUME StartupInv, NEW p \in Processes, Startup!Ends(p)
  PROVE  StartupInv'
<1>1. /\ app' = [app EXCEPT ![p] = Startup!Off] /\ ledgerLock' = (IF ledgerLock = p THEN None ELSE ledgerLock)
      /\ queue' = [queue EXCEPT ![p] = <<>>] /\ script' = [script EXCEPT ![p] = None]
      /\ request' = [r \in Requests |-> IF request[r].at = p /\ request[r].pc # "done"
                                          THEN [request[r] EXCEPT !.pc = "done"] ELSE request[r]]
      /\ UNCHANGED <<applied, ledger, graph>>
  BY DEF Startup!Ends
<1>2. \A q \in Processes : /\ app[q] \in AppStates /\ ProcessOK(app[q], q, ledger, ledgerLock, graph, script[q])
                           /\ queue[q] \in Seq(Requests)
  BY AppFacts
<1>3. /\ app'[p] = Startup!Off /\ queue'[p] = <<>> /\ script'[p] = None
      /\ \A q \in Processes \ {p} : app'[q] = app[q] /\ queue'[q] = queue[q] /\ script'[q] = script[q]
  BY <1>1, AppFacts
<1>4. \A r \in Requests : request'[r] \in ServedRequests
  <2> TAKE r \in Requests
  <2>1. request[r] \in ServedRequests /\ [request[r] EXCEPT !.pc = "done"] \in ServedRequests
    BY AppFacts DEF ServedRequests
  <2> QED  BY <1>1, <2>1
<1>5. StartupTypeOK'
  <2>1. request' \in [Requests -> ServedRequests]
    BY <1>1, <1>4
  <2>2. queue' \in [Processes -> Seq(Requests)]
    BY <1>1, AppFacts
  <2>3. script' \in [Processes -> Requests \cup {None, "registered"}]
    BY <1>1, AppFacts
  <2>4. app' \in [Processes -> AppStates]
    BY <1>1, AppFacts, OffShape
  <2>5. applied' \in [1..Migrations -> Nat] /\ ledger' \subseteq 1..Migrations /\ graph' \subseteq Startup!SeedRows
    BY <1>1, AppFacts
  <2> QED  BY <2>1, <2>2, <2>3, <2>4, <2>5 DEF StartupTypeOK
<1>6. StoreOK'
  BY <1>1 DEF StartupInv, StoreOK, Startup!MigratedOnce
<1>7. ASSUME NEW q \in Processes
      PROVE  ProcessOK(app'[q], q, ledger', ledgerLock', graph', script'[q])
  <2>1. CASE q = p
    <3>1. app'[q].pc = "off"
      BY <1>3, <2>1, OffShape
    <3> QED  BY <3>1 DEF ProcessOK, SchemaOK, GraphOK, Serving
  <2>2. CASE q # p
    <3>1. app[q].pc = "apply" => ledger' = ledger /\ ledgerLock' = ledgerLock
      BY <1>1, <1>2, <2>2 DEF ProcessOK, SchemaOK
    <3>2. graph \in SUBSET Startup!SeedRows /\ ledger' \in SUBSET (1..Migrations) /\ ledger \subseteq ledger'
          /\ graph' \in SUBSET Startup!SeedRows /\ graph \subseteq graph'
      BY <1>1, AppFacts
    <3>3. ProcessOK(app[q], q, ledger', ledgerLock', graph', script[q])
      BY <1>2, <3>1, <3>2, ProcessStands
    <3> QED  BY <1>3, <2>2, <3>3
  <2> QED  BY <2>1, <2>2
<1>8. ASSUME NEW r \in Requests
      PROVE  RunsOK(request'[r], r, app'[request'[r].at], queue'[request'[r].at], script'[request'[r].at])
  <2>1. /\ request[r] \in ServedRequests
        /\ RunsOK(request[r], r, app[request[r].at], queue[request[r].at], script[request[r].at])
    BY AppFacts DEF StartupInv, RequestsOK
  <2>2. CASE request[r].at = p /\ request[r].pc # "done"
    <3>1. request'[r].pc = "done"
      BY <1>1, <2>1, <2>2 DEF ServedRequests
    <3> QED  BY <3>1 DEF RunsOK
  <2>3. CASE ~(request[r].at = p /\ request[r].pc # "done")
    <3>1. request'[r] = request[r]
      BY <1>1, <2>3
    <3>2. CASE request[r].pc \in {"received", "queued", "running"}
      <4>1. request[r].at \in Processes /\ request[r].at # p
        BY <2>1, <2>3, <3>2 DEF RunsOK
      <4> QED  BY <1>3, <2>1, <3>1, <4>1
    <3>3. CASE request[r].pc \notin {"received", "queued", "running"}
      BY <3>1, <3>3 DEF RunsOK
    <3> QED  BY <3>2, <3>3
  <2> QED  BY <2>2, <2>3
<1> QED  BY <1>5, <1>6, <1>7, <1>8 DEF StartupInv, ProcessesOK, RequestsOK

LEMMA CommitStep ==
  ASSUME StartupInv, NEW p \in Processes, Startup!CommitMigration(p)
  PROVE  StartupInv'
<1> DEFINE m == app[p].at
           next == IF m = Migrations THEN "read" ELSE "migrate"
           after == IF m = Migrations THEN 1 ELSE m + 1
           new == PcAt(app[p], next, after)
<1>1. /\ app[p].pc = "apply" /\ applied' = [applied EXCEPT ![m] = IF app[p].runs THEN @ + 1 ELSE @]
      /\ ledger' = ledger \cup {m} /\ ledgerLock' = (IF ledgerLock = p THEN None ELSE ledgerLock)
      /\ UNCHANGED <<graph, queue, script, request>>
  BY DEF Startup!CommitMigration, Startup!serving
<1>2. app' = [app EXCEPT ![p] = new]
  BY DEF Startup!CommitMigration, PcAt
<1>3. m \in 1..Migrations /\ 1..(m - 1) \subseteq ledger /\ ledgerLock = p /\ (app[p].runs <=> m \notin ledger)
      /\ app[p].env \in Environments /\ Startup!Configured(app[p].env) /\ Migrations \in Nat
      /\ app[p].seen \subseteq Startup!Everyone
  BY <1>1, AppFacts, StartupAssumption DEF ProcessOK, SchemaOK, GraphOK
<1>4. next \in AppStages /\ after \in Nat
  BY <1>3 DEF AppStages
<1>5. new \in AppStates /\ new.pc = next /\ new.at = after /\ new.seen = app[p].seen /\ new.env = app[p].env
  BY <1>4, AppFacts, PcAtShape
<1> HIDE DEF new
<1>6. \A k \in 1..Migrations : applied[k] = (IF k \in ledger THEN 1 ELSE 0)
  BY AppFacts DEF Startup!MigratedOnce
<1>7. applied' \in [1..Migrations -> Nat] /\ \A k \in 1..Migrations : applied'[k] = (IF k \in ledger' THEN 1 ELSE 0)
  BY <1>1, <1>3, <1>6, AppFacts
<1>8. ledger' \subseteq 1..Migrations /\ 1..m \subseteq ledger'
  BY <1>1, <1>3, AppFacts
<1>9. Startup!MigratedOnce'
  BY <1>1, <1>7, <1>8, AppFacts DEF Startup!MigratedOnce
<1>10. ProcessOK(new, p, ledger', ledgerLock', graph', script'[p])
  <2>1. CASE m = Migrations
    <3>1. new.pc = "read" /\ new.at = 1 /\ ledger' = 1..Migrations
      BY <1>5, <1>8, <2>1
    <3>2. new.seen \subseteq Startup!Everyone
      BY <1>3, <1>5
    <3> QED  BY <1>3, <1>5, <3>1, <3>2 DEF ProcessOK, SchemaOK, GraphOK, Serving
  <2>2. CASE m # Migrations
    <3>1. new.pc = "migrate" /\ new.at = m + 1 /\ m + 1 \in 1..Migrations /\ 1..((m + 1) - 1) \subseteq ledger'
      BY <1>3, <1>5, <1>8, <2>2
    <3> QED  BY <1>3, <1>5, <3>1 DEF ProcessOK, SchemaOK, GraphOK, Serving
  <2> QED  BY <2>1, <2>2
<1>11. \A q \in Processes \ {p} : app[q].pc # "apply"
  BY <1>3, AppFacts DEF ProcessOK, SchemaOK
<1>12. app[p].pc \notin Serving /\ new.pc \notin {"draining", "ending"}
  BY <1>1, <1>5 DEF Serving
<1>13. script' \in [Processes -> Requests \cup {None, "registered"}]
       /\ graph \subseteq graph' /\ graph' \subseteq Startup!SeedRows /\ ledger \subseteq ledger' /\ Closed(graph)'
  BY <1>1, AppFacts DEF Closed
<1> QED  BY <1>1, <1>2, <1>5, <1>7, <1>8, <1>9, <1>10, <1>11, <1>12, <1>13, AppMoved

LEMMA ReadStep ==
  ASSUME StartupInv, NEW p \in Processes, Startup!ReadUser(p)
  PROVE  StartupInv'
<1> DEFINE who == People[app[p].at]
           found == IF Startup!UserOf(who) \in graph THEN app[p].seen \cup {who} ELSE app[p].seen
           new == AtSeen(app[p], app[p].at + 1, found)
<1>1. /\ app[p].pc = "read" /\ app[p].at <= Len(People)
      /\ UNCHANGED <<applied, ledger, ledgerLock, graph, queue, script, request>>
  BY DEF Startup!ReadUser, Startup!store, Startup!serving
<1>2. app' = [app EXCEPT ![p] = new]
  BY DEF Startup!ReadUser, AtSeen
<1>3. app[p] \in AppStates /\ app[p].at # 0 /\ app[p].seen \subseteq Startup!Everyone
  BY <1>1, AppFacts DEF ProcessOK, GraphOK
<1>4. app[p].at \in DOMAIN People /\ app[p].at + 1 \in Nat
  BY <1>1, <1>3, StartupAssumption DEF AppStates
<1>5. found \subseteq Startup!Everyone
  BY <1>3, <1>4 DEF Startup!Everyone
<1>6. new \in AppStates /\ new.pc = app[p].pc /\ new.at = app[p].at + 1 /\ new.seen = found /\ new.env = app[p].env
  BY <1>3, <1>4, <1>5, AtSeenShape
<1> HIDE DEF new, found
<1>7. ProcessOK(new, p, ledger, ledgerLock, graph, script[p])
  <2>1. new.pc = "read" /\ new.at # 0 /\ new.seen \subseteq Startup!Everyone
    BY <1>1, <1>3, <1>5, <1>6 DEF AppStates
  <2> QED  BY <1>1, <1>6, <2>1, AppFacts DEF ProcessOK, SchemaOK, GraphOK, Serving
<1>8. app[p].pc \notin Serving /\ new.pc \notin {"draining", "ending"}
  BY <1>1, <1>6 DEF Serving
<1> QED  BY <1>1, <1>2, <1>6, <1>7, <1>8, AppSteps

\* Creating, a process has the rows that are missing still to do.
LEMMA CreateStarts ==
  ASSUME StartupInv, NEW p \in Processes, app[p].pc \in {"read", "check"}, NEW todo \in Seq(Startup!SeedRows),
         todo # <<>>, Startup!SeedRows \subseteq graph \cup Range(todo),
         app' = [app EXCEPT ![p] = PcTodo(app[p], "create", todo)],
         UNCHANGED <<applied, ledger, ledgerLock, graph, queue, script, request>>
  PROVE  StartupInv'
<1> DEFINE new == PcTodo(app[p], "create", todo)
<1>1. new \in AppStates /\ new.pc = "create" /\ new.todo = todo /\ new.env = app[p].env
  BY AppFacts, PcTodoShape DEF AppStages
<1> HIDE DEF new
<1>2. ProcessOK(new, p, ledger, ledgerLock, graph, script[p])
  BY <1>1, AppFacts DEF ProcessOK, SchemaOK, GraphOK, Serving
<1>3. app[p].pc \notin Serving /\ new.pc \notin {"draining", "ending"}
  BY <1>1 DEF Serving
<1>4. app' = [app EXCEPT ![p] = new]
  BY DEF new
<1> QED  BY <1>1, <1>2, <1>3, <1>4, AppSteps

LEMMA JudgeStep ==
  ASSUME StartupInv, NEW p \in Processes, Startup!Judge(p)
  PROVE  StartupInv'
<1>1. app[p].pc = "read"
  BY DEF Startup!Judge
<1>2. CASE /\ app[p].seen = {}
           /\ app' = [app EXCEPT ![p].pc = "create", ![p].todo = Startup!SeedOrder]
           /\ UNCHANGED <<applied, ledger, ledgerLock, graph, queue, script, request>>
  <2>1. app' = [app EXCEPT ![p] = PcTodo(app[p], "create", Startup!SeedOrder)]
    BY <1>2 DEF PcTodo
  <2>2. Range(Startup!SeedOrder) = Startup!SeedRows
    BY DEF Range, Startup!SeedRows
  <2> QED  BY <1>1, <1>2, <2>1, <2>2, SeedFacts, CreateStarts
<1>3. CASE /\ app[p].seen # {} /\ Startup!LegacyComplete(app[p].seen)
           /\ app' = [app EXCEPT ![p].pc = "check", ![p].at = 1]
           /\ UNCHANGED <<applied, ledger, ledgerLock, graph, queue, script, request>>
  <2> DEFINE new == PcAt(app[p], "check", 1)
  <2>1. app' = [app EXCEPT ![p] = new]
    BY <1>3 DEF PcAt
  <2>2. new \in AppStates /\ new.pc = "check" /\ new.at = 1 /\ new.seen = app[p].seen /\ new.env = app[p].env
    BY AppFacts, PcAtShape DEF AppStages
  <2> HIDE DEF new
  <2>3. Len(People) \in Nat /\ 1 \in 1..Len(People) /\ 1..(1 - 1) = {}
    BY StartupAssumption
  <2>4. ProcessOK(new, p, ledger, ledgerLock, graph, script[p])
    BY <1>1, <1>3, <2>2, <2>3, AppFacts DEF ProcessOK, SchemaOK, GraphOK, Serving
  <2>5. app[p].pc \notin Serving /\ new.pc \notin {"draining", "ending"}
    BY <1>1, <2>2 DEF Serving
  <2> QED  BY <1>3, <2>1, <2>2, <2>4, <2>5, AppSteps
<1>4. CASE Startup!Ends(p)
  BY <1>4, EndsStep
<1> QED  BY <1>2, <1>3, <1>4 DEF Startup!Judge, Startup!store, Startup!serving

\* Who has checked everyone before the newcomer lacks the newcomer's rows alone.
LEMMA NewcomerMissing ==
  ASSUME NEW g \in SUBSET Startup!SeedRows, Closed(g), NEW at \in 1..Len(People), NEW seen \in SUBSET Startup!Everyone,
         seen # {}, Startup!LegacyComplete(seen), People[at] \notin seen,
         \A i \in 1..(at - 1) : Startup!MemberOf(People[i]) \in g
  PROVE  Startup!SeedRows \subseteq g \cup {Startup!UserOf(People[at]), Startup!MemberOf(People[at])}
<1>1. /\ Len(People) \in Nat /\ DOMAIN People = 1..Len(People)
      /\ \A i \in DOMAIN People : People[i] = Newcomer => i = Len(People)
  BY StartupAssumption
<1>2. People[at] = Newcomer /\ at = Len(People)
  BY <1>1 DEF Startup!LegacyComplete, Startup!Everyone
<1>3. ASSUME NEW w \in Startup!Everyone, w # Newcomer
      PROVE  Startup!MemberOf(w) \in g
  <2>1. PICK i \in DOMAIN People : People[i] = w
    BY DEF Startup!Everyone
  <2>2. i \in 1..(at - 1)
    BY <1>1, <1>2, <1>3, <2>1
  <2> QED  BY <2>1, <2>2
<1>4. PICK v \in Startup!Everyone : v # Newcomer
  BY <1>2
<1>5. Rows \subseteq g
  BY <1>3, <1>4, MembersComplete
<1>6. \A w \in Startup!Everyone : w # Newcomer => Startup!UserOf(w) \in g /\ Startup!MemberOf(w) \in g
  BY <1>3, MembersComplete
<1> QED  BY <1>2, <1>5, <1>6, SeedFacts DEF UserRows, MemberRows

LEMMA HeadRest ==
  ASSUME NEW S, NEW q \in Seq(S), q # <<>>
  PROVE  Head(q) \in S /\ Tail(q) \in Seq(S) /\ Range(q) = {Head(q)} \cup Range(Tail(q))
<1>1. Len(q) \in Nat /\ Len(q) >= 1 /\ DOMAIN q = 1..Len(q) /\ Head(q) = q[1]
  OBVIOUS
<1>2. Tail(q) \in Seq(S) /\ Len(Tail(q)) = Len(q) - 1 /\ \A i \in 1..(Len(q) - 1) : Tail(q)[i] = q[i + 1]
  BY <1>1
<1>3. ASSUME NEW i \in DOMAIN q
      PROVE  q[i] \in {Head(q)} \cup Range(Tail(q))
  <2>1. CASE i = 1
    BY <1>1, <2>1
  <2>2. CASE i # 1
    <3>1. i - 1 \in DOMAIN Tail(q) /\ Tail(q)[i - 1] = q[i]
      BY <1>1, <1>2, <2>2
    <3> QED  BY <3>1 DEF Range
  <2> QED  BY <2>1, <2>2
<1>4. \A i \in DOMAIN Tail(q) : Tail(q)[i] \in Range(q)
  BY <1>1, <1>2 DEF Range
<1>5. Head(q) \in Range(q)
  BY <1>1 DEF Range
<1> QED  BY <1>1, <1>2, <1>3, <1>4, <1>5 DEF Range

LEMMA CheckStep ==
  ASSUME StartupInv, NEW p \in Processes, Startup!CheckMember(p)
  PROVE  StartupInv'
<1> DEFINE who == People[app[p].at]
           last == app[p].at = Len(People)
<1>1. app[p].pc = "check"
  BY DEF Startup!CheckMember
<1>2. /\ app[p].at \in 1..Len(People) /\ app[p].seen \subseteq Startup!Everyone /\ app[p].seen # {}
      /\ Startup!LegacyComplete(app[p].seen)
      /\ \A i \in 1..(app[p].at - 1) : Startup!MemberOf(People[i]) \in graph
  BY <1>1, AppFacts DEF ProcessOK, GraphOK
<1>3. Len(People) \in Nat /\ DOMAIN People = 1..Len(People) /\ who \in Startup!Everyone
  BY <1>2, StartupAssumption DEF Startup!Everyone
<1>4. CASE /\ who \notin app[p].seen
           /\ app' = [app EXCEPT ![p].pc = "create", ![p].todo = <<Startup!UserOf(who), Startup!MemberOf(who)>>]
           /\ UNCHANGED <<applied, ledger, ledgerLock, graph, queue, script, request>>
  <2> DEFINE todo == <<Startup!UserOf(who), Startup!MemberOf(who)>>
  <2>1. app' = [app EXCEPT ![p] = PcTodo(app[p], "create", todo)]
    BY <1>4 DEF PcTodo
  <2>2. Startup!UserOf(who) \in Startup!SeedRows /\ Startup!MemberOf(who) \in Startup!SeedRows
    BY <1>3, SeedFacts DEF UserRows, MemberRows
  <2>3. todo \in Seq(Startup!SeedRows) /\ todo # <<>>
    BY <2>2
  <2>4. Range(todo) = {Startup!UserOf(who), Startup!MemberOf(who)}
    BY DEF Range
  <2>5. Startup!SeedRows \subseteq graph \cup {Startup!UserOf(who), Startup!MemberOf(who)}
    BY <1>2, <1>4, AppFacts, NewcomerMissing
  <2> HIDE DEF todo
  <2> QED  BY <1>1, <1>4, <2>1, <2>3, <2>4, <2>5, CreateStarts
<1>5. CASE /\ who \in app[p].seen /\ Startup!MemberOf(who) \in graph /\ who \notin moved
           /\ app' = [app EXCEPT ![p].pc = IF last THEN "register" ELSE "check",
                                 ![p].at = IF last THEN 1 ELSE @ + 1]
           /\ UNCHANGED <<applied, ledger, ledgerLock, graph, queue, script, request>>
  <2> DEFINE next == IF last THEN "register" ELSE "check"
             after == IF last THEN 1 ELSE app[p].at + 1
             new == PcAt(app[p], next, after)
  <2>1. app' = [app EXCEPT ![p] = new]
    BY <1>5 DEF PcAt
  <2>2. next \in AppStages /\ after \in Nat
    BY <1>2, <1>3 DEF AppStages
  <2>3. new \in AppStates /\ new.pc = next /\ new.at = after /\ new.seen = app[p].seen /\ new.env = app[p].env
    BY <2>2, AppFacts, PcAtShape
  <2> HIDE DEF new
  <2>4. ProcessOK(new, p, ledger, ledgerLock, graph, script[p])
    <3>1. \A i \in 1..app[p].at : Startup!MemberOf(People[i]) \in graph
      BY <1>2, <1>5
    <3>2. CASE last
      <4>1. \A w \in Startup!Everyone : Startup!MemberOf(w) \in graph
        BY <1>3, <3>1, <3>2 DEF Startup!Everyone
      <4>2. \A w \in Startup!Everyone : Startup!UserOf(w) \in graph /\ Rows \subseteq graph
        BY <4>1, AppFacts, MembersComplete
      <4>3. graph = Startup!SeedRows
        BY <1>3, <4>1, <4>2, SeedFacts, AppFacts DEF UserRows, MemberRows
      <4>4. new.pc = "register"
        BY <2>3, <3>2
      <4> QED  BY <1>1, <2>3, <4>3, <4>4, AppFacts DEF ProcessOK, SchemaOK, GraphOK, Serving
    <3>3. CASE ~last
      <4>1. new.pc = "check" /\ new.at = app[p].at + 1 /\ new.at \in 1..Len(People) /\ 1..(new.at - 1) = 1..app[p].at
        BY <1>2, <1>3, <2>3, <3>3
      <4> QED  BY <1>1, <1>2, <2>3, <3>1, <4>1, AppFacts DEF ProcessOK, SchemaOK, GraphOK, Serving
    <3> QED  BY <3>2, <3>3
  <2>5. app[p].pc \notin Serving /\ new.pc \notin {"draining", "ending"}
    BY <1>1, <2>3 DEF Serving
  <2> QED  BY <1>5, <2>1, <2>3, <2>4, <2>5, AppSteps
<1>6. CASE Startup!Ends(p)
  BY <1>6, EndsStep
<1> QED  BY <1>4, <1>5, <1>6 DEF Startup!CheckMember, Startup!store, Startup!serving

LEMMA CreateStep ==
  ASSUME StartupInv, NEW p \in Processes, Startup!CreateRow(p)
  PROVE  StartupInv'
<1> DEFINE row == Head(app[p].todo)
           rest == Tail(app[p].todo)
<1>1. app[p].pc = "create"
  BY DEF Startup!CreateRow
<1>2. CASE /\ Startup!Insertable(row) /\ graph' = graph \cup {row}
           /\ app' = [app EXCEPT ![p].todo = rest, ![p].pc = IF rest = <<>> THEN "register" ELSE "create"]
           /\ UNCHANGED <<applied, ledger, ledgerLock, queue, script, request>>
  <2> DEFINE next == IF rest = <<>> THEN "register" ELSE "create"
             new == PcTodo(app[p], next, rest)
  <2>1. /\ app[p].todo \in Seq(Startup!SeedRows) /\ app[p].todo # <<>>
        /\ Startup!SeedRows \subseteq graph \cup Range(app[p].todo)
    BY <1>1, AppFacts DEF ProcessOK, GraphOK, AppStates
  <2>2. row \in Startup!SeedRows /\ rest \in Seq(Startup!SeedRows) /\ Range(app[p].todo) = {row} \cup Range(rest)
    BY <2>1, HeadRest
  <2>3. app' = [app EXCEPT ![p] = new]
    BY <1>2, AppFacts DEF PcTodo, AppStates
  <2>4. new \in AppStates /\ new.pc = next /\ new.todo = rest /\ new.env = app[p].env
    <3>1. next \in AppStages
      BY DEF AppStages
    <3>2. app[p] \in AppStates /\ rest \in Seq(Startup!SeedRows)
      BY <2>2, AppFacts
    <3> HIDE DEF next, rest
    <3> QED  BY <3>1, <3>2, PcTodoShape
  <2> HIDE DEF new
  <2>5. graph \subseteq graph' /\ graph' \subseteq Startup!SeedRows /\ Startup!SeedRows \subseteq graph' \cup Range(rest)
    BY <1>2, <2>1, <2>2, AppFacts
  <2>6. Closed(graph)'
    BY <1>2, AppFacts DEF Closed, Startup!Insertable
  <2>7. ProcessOK(new, p, ledger', ledgerLock', graph', script'[p])
    <3>1. rest = <<>> => Range(rest) = {}
      BY DEF Range
    <3> QED  BY <1>1, <1>2, <2>4, <2>5, <3>1, AppFacts DEF ProcessOK, SchemaOK, GraphOK, Serving
  <2>8. app[p].pc \notin Serving /\ new.pc \notin {"draining", "ending"}
    BY <1>1, <2>4 DEF Serving
  <2>9. /\ script' \in [Processes -> Requests \cup {None, "registered"}] /\ applied' \in [1..Migrations -> Nat]
        /\ ledger' \subseteq 1..Migrations /\ Startup!MigratedOnce'
    BY <1>2, AppFacts DEF Startup!MigratedOnce
  <2> QED  BY <1>2, <2>3, <2>4, <2>5, <2>6, <2>7, <2>8, <2>9, AppMoved
<1>3. CASE Startup!Ends(p)
  BY <1>3, EndsStep
<1> QED  BY <1>2, <1>3 DEF Startup!CreateRow, Startup!Insert, Startup!store, Startup!serving

LEMMA ServeStep ==
  ASSUME StartupInv, NEW p \in Processes, Startup!Serve(p)
  PROVE  StartupInv'
<1> DEFINE new == PcOf(app[p], "serving")
<1>1. /\ app[p].pc = "register" /\ script' = [script EXCEPT ![p] = "registered"]
      /\ UNCHANGED <<applied, ledger, ledgerLock, graph, queue, request>> /\ app' = [app EXCEPT ![p] = new]
  BY DEF Startup!Serve, Startup!store, PcOf
<1>2. new \in AppStates /\ new.pc = "serving" /\ new.env = app[p].env
  BY AppFacts, PcOfShape DEF AppStages, Serving
<1> HIDE DEF new
<1>3. script'[p] = "registered" /\ "registered" # None /\ script' \in [Processes -> Requests \cup {None, "registered"}]
      /\ \A q \in Processes \ {p} : script'[q] = script[q]
  BY <1>1, AppFacts, StartupAssumption
<1>4. ProcessOK(new, p, ledger', ledgerLock', graph', script'[p])
  BY <1>1, <1>2, <1>3, AppFacts DEF ProcessOK, SchemaOK, GraphOK, Serving
<1>5. app[p].pc \notin Serving /\ new.pc \notin {"draining", "ending"}
  BY <1>1, <1>2 DEF Serving
<1>6. /\ applied' \in [1..Migrations -> Nat] /\ ledger' \subseteq 1..Migrations /\ Startup!MigratedOnce'
      /\ graph' \subseteq Startup!SeedRows /\ Closed(graph)'
  BY <1>1, AppFacts DEF Startup!MigratedOnce, Closed
<1> QED  BY <1>1, <1>2, <1>3, <1>4, <1>5, <1>6, AppMoved

LEMMA CloseSteps ==
  ASSUME StartupInv, NEW p \in Processes, Startup!Signal(p) \/ Startup!CloseServer(p)
  PROVE  StartupInv'
<1>1. CASE Startup!Signal(p)
  <2> DEFINE new == PcOf(app[p], "closing")
  <2>1. /\ app[p].pc = "serving" /\ app' = [app EXCEPT ![p] = new]
        /\ UNCHANGED <<applied, ledger, ledgerLock, graph, queue, script, request>>
    BY <1>1 DEF Startup!Signal, Startup!store, Startup!serving, PcOf
  <2>2. new \in AppStates /\ new.pc = "closing" /\ new.env = app[p].env
    BY AppFacts, PcOfShape DEF AppStages, Serving
  <2> HIDE DEF new
  <2>3. ProcessOK(new, p, ledger, ledgerLock, graph, script[p])
    BY <2>1, <2>2, AppFacts DEF ProcessOK, SchemaOK, GraphOK, Serving
  <2>4. new.pc \in Serving /\ new.pc \notin {"draining", "ending"}
    BY <2>2 DEF Serving
  <2> QED  BY <2>1, <2>2, <2>3, <2>4, AppSteps
<1>2. CASE Startup!CloseServer(p)
  <2> DEFINE waits == {queue[p][i] : i \in DOMAIN queue[p]}
             new == PcSeen(app[p], "draining", waits)
  <2>1. /\ app[p].pc = "closing" /\ app' = [app EXCEPT ![p] = new] /\ Startup!ServerClosed(p)
        /\ UNCHANGED <<applied, ledger, ledgerLock, graph, queue, script, request>>
    BY <1>2 DEF Startup!CloseServer, Startup!store, Startup!serving, PcSeen
  <2>2. waits \subseteq Requests
    BY AppFacts
  <2>3. new \in AppStates /\ new.pc = "draining" /\ new.env = app[p].env
    BY <2>2, AppFacts, PcSeenShape DEF AppStages, Serving
  <2> HIDE DEF new
  <2>4. ProcessOK(new, p, ledger, ledgerLock, graph, script[p])
    BY <2>1, <2>3, AppFacts DEF ProcessOK, SchemaOK, GraphOK, Serving
  <2>5. new.pc \in Serving
    BY <2>3 DEF Serving
  <2> QED  BY <2>1, <2>3, <2>4, <2>5, AppSteps
<1> QED  BY <1>1, <1>2

LEMMA CloseRuntimeStep ==
  ASSUME StartupInv, NEW p \in Processes, Startup!CloseRuntime(p)
  PROVE  StartupInv'
<1> DEFINE new == PcOf(app[p], "ending")
<1>1. /\ app[p].pc = "draining" /\ script' = [script EXCEPT ![p] = None]
      /\ UNCHANGED <<applied, ledger, ledgerLock, graph, queue, request>> /\ app' = [app EXCEPT ![p] = new]
  BY DEF Startup!CloseRuntime, Startup!store, PcOf
<1>2. new \in AppStates /\ new.pc = "ending" /\ new.env = app[p].env
  BY AppFacts, PcOfShape DEF AppStages, Serving
<1> HIDE DEF new
<1>3. script'[p] = None /\ script' \in [Processes -> Requests \cup {None, "registered"}]
      /\ \A q \in Processes \ {p} : script'[q] = script[q]
  BY <1>1, AppFacts
<1>4. ProcessOK(new, p, ledger', ledgerLock', graph', script'[p])
  BY <1>1, <1>2, AppFacts DEF ProcessOK, SchemaOK, GraphOK, Serving
<1>5. new.pc \in Serving
  BY <1>2 DEF Serving
<1>6. /\ applied' \in [1..Migrations -> Nat] /\ ledger' \subseteq 1..Migrations /\ Startup!MigratedOnce'
      /\ graph' \subseteq Startup!SeedRows /\ Closed(graph)'
  BY <1>1, AppFacts DEF Startup!MigratedOnce, Closed
<1> QED  BY <1>1, <1>2, <1>3, <1>4, <1>5, <1>6, AppMoved

\* A request moves on, and the others stand.
LEMMA RequestMoved ==
  ASSUME StartupInv, NEW r \in Requests, NEW new \in ServedRequests, request' = [request EXCEPT ![r] = new],
         UNCHANGED <<applied, ledger, ledgerLock, graph, app>>, queue' \in [Processes -> Seq(Requests)],
         script' \in [Processes -> Requests \cup {None, "registered"}],
         \A p \in Processes : script[p] # None => script'[p] # None,
         RunsOK(new, r, app[new.at], queue'[new.at], script'[new.at]),
         \A s \in Requests \ {r} : request[s].pc \in {"received", "queued", "running"} =>
           RunsOK(request[s], s, app[request[s].at], queue'[request[s].at], script'[request[s].at])
  PROVE  StartupInv'
<1>1. request \in [Requests -> ServedRequests]
  BY AppFacts DEF StartupInv, StartupTypeOK
<1>2. request'[r] = new /\ (\A s \in Requests \ {r} : request'[s] = request[s]) /\ request' \in [Requests -> ServedRequests]
  BY <1>1
<1>3. StartupTypeOK' /\ StoreOK'
  BY <1>2 DEF StartupInv, StartupTypeOK, StoreOK, Startup!MigratedOnce
<1>4. ProcessesOK'
  BY DEF StartupInv, ProcessesOK, ProcessOK
<1>5. ASSUME NEW s \in Requests
      PROVE  RunsOK(request'[s], s, app'[request'[s].at], queue'[request'[s].at], script'[request'[s].at])
  <2>1. CASE s = r
    BY <1>2, <2>1
  <2>2. CASE s # r /\ request[s].pc \in {"received", "queued", "running"}
    BY <1>2, <2>2
  <2>3. CASE s # r /\ request[s].pc \notin {"received", "queued", "running"}
    BY <1>2, <2>3 DEF RunsOK
  <2> QED  BY <2>1, <2>2, <2>3
<1> QED  BY <1>3, <1>4, <1>5 DEF StartupInv, RequestsOK

LEMMA RequestFacts ==
  ASSUME StartupInv, NEW r \in Requests
  PROVE  LET q == request[r] IN
         /\ request \in [Requests -> ServedRequests] /\ q \in ServedRequests
         /\ RunsOK(q, r, app[q.at], queue[q.at], script[q.at])
         /\ q.pc \in {"received", "queued", "running"} =>
              /\ q.at \in Processes /\ queue[q.at] \in Seq(Requests) /\ app[q.at].pc \in Serving
              /\ app[q.at].pc \in {"serving", "closing", "draining"} => script[q.at] # None
<1>1. request \in [Requests -> ServedRequests] /\ queue \in [Processes -> Seq(Requests)]
  BY DEF StartupInv, StartupTypeOK
<1>2. RunsOK(request[r], r, app[request[r].at], queue[request[r].at], script[request[r].at])
  BY DEF StartupInv, RequestsOK
<1>3. ASSUME request[r].pc \in {"received", "queued", "running"}
      PROVE  request[r].at \in Processes /\ app[request[r].at].pc \in Serving
  BY <1>2, <1>3 DEF RunsOK
<1>4. \A p \in Processes : app[p].pc \in {"serving", "closing", "draining"} => script[p] # None
  BY AppFacts DEF ProcessOK
<1> QED  BY <1>1, <1>2, <1>3, <1>4

RequestOf(q, pc) == [q EXCEPT !.pc = pc]

LEMMA RequestShape ==
  ASSUME NEW q \in ServedRequests, NEW pc \in {"unsent", "received", "queued", "running", "done"}
  PROVE  LET new == RequestOf(q, pc) IN
         new \in ServedRequests /\ new.pc = pc /\ new.at = q.at /\ new.connected = q.connected
BY DEF ServedRequests, RequestOf

LEMMA ReceiveStep ==
  ASSUME StartupInv, NEW r \in Requests, NEW p \in Processes, Startup!Receive(r, p)
  PROVE  StartupInv'
<1> DEFINE new == [pc |-> "received", at |-> p, connected |-> TRUE]
<1>1. /\ app[p].pc = "serving" /\ request' = [request EXCEPT ![r] = new]
      /\ UNCHANGED <<applied, ledger, ledgerLock, graph, app, queue, script>>
  BY DEF Startup!Receive, Startup!store
<1>2. new \in ServedRequests /\ new.pc = "received" /\ new.at = p /\ new.connected
  BY DEF ServedRequests
<1> HIDE DEF new
<1>3. RunsOK(new, r, app[new.at], queue'[new.at], script'[new.at])
  BY <1>1, <1>2 DEF RunsOK, ChainOK, Serving
<1>4. \A s \in Requests : RunsOK(request[s], s, app[request[s].at], queue'[request[s].at], script'[request[s].at])
  BY <1>1, RequestFacts
<1>5. queue' \in [Processes -> Seq(Requests)] /\ script' \in [Processes -> Requests \cup {None, "registered"}]
  BY <1>1, AppFacts
<1> QED  BY <1>1, <1>2, <1>3, <1>4, <1>5, RequestMoved

LEMMA DisconnectStep ==
  ASSUME StartupInv, NEW r \in Requests, Startup!Disconnect(r)
  PROVE  StartupInv'
<1> DEFINE new == [request[r] EXCEPT !.connected = FALSE]
<1>1. /\ request' = [request EXCEPT ![r] = new] /\ request[r].pc \in {"received", "queued", "running"}
      /\ UNCHANGED <<applied, ledger, ledgerLock, graph, app, queue, script>>
  BY DEF Startup!Disconnect, Startup!store
<1>2. new \in ServedRequests /\ new.pc = request[r].pc /\ new.at = request[r].at /\ ~new.connected
  BY RequestFacts DEF ServedRequests
<1> HIDE DEF new
<1>3. RunsOK(new, r, app[new.at], queue'[new.at], script'[new.at])
  <2>1. RunsOK(request[r], r, app[request[r].at], queue[request[r].at], script[request[r].at])
    BY RequestFacts
  <2> QED  BY <1>1, <1>2, <2>1 DEF RunsOK, ChainOK
<1>4. \A s \in Requests : RunsOK(request[s], s, app[request[s].at], queue'[request[s].at], script'[request[s].at])
  BY <1>1, RequestFacts
<1>5. /\ queue' \in [Processes -> Seq(Requests)] /\ script' \in [Processes -> Requests \cup {None, "registered"}]
      /\ \A p \in Processes : script[p] # None => script'[p] # None
  BY <1>1, RequestFacts, AppFacts
<1> QED  BY <1>1, <1>2, <1>3, <1>4, <1>5, RequestMoved

\* A run that joins the chain leaves its head alone.
LEMMA ChainGrows ==
  ASSUME NEW chain \in Seq(Requests), NEW r \in Requests, NEW s, NEW q, NEW holding, ChainOK(q, s, chain, holding)
  PROVE  ChainOK(q, s, Append(chain, r), holding)
<1>1. /\ Len(chain) \in Nat /\ Len(Append(chain, r)) = Len(chain) + 1 /\ Append(chain, r) \in Seq(Requests)
      /\ \A i \in 1..Len(chain) : Append(chain, r)[i] = chain[i]
  BY AppendProperties
<1>2. chain # <<>> => Append(chain, r) # <<>> /\ Head(Append(chain, r)) = Head(chain)
  BY <1>1
<1>3. \A i \in DOMAIN chain : i \in DOMAIN Append(chain, r) /\ Append(chain, r)[i] = chain[i]
  BY <1>1
<1> QED  BY <1>2, <1>3 DEF ChainOK

\* When the run at the head ends, the others stay in the chain.
LEMMA ChainShrinks ==
  ASSUME NEW chain \in Seq(Requests), chain # <<>>, NEW s, Head(chain) # s, NEW q, NEW holding, ChainOK(q, s, chain, holding)
  PROVE  ChainOK(q, s, Tail(chain), holding)
<1>1. Len(chain) \in Nat /\ Len(chain) >= 1 /\ DOMAIN chain = 1..Len(chain) /\ Head(chain) = chain[1]
  OBVIOUS
<1>2. Tail(chain) \in Seq(Requests) /\ Len(Tail(chain)) = Len(chain) - 1 /\ \A i \in 1..(Len(chain) - 1) : Tail(chain)[i] = chain[i + 1]
  BY <1>1
<1>3. ASSUME NEW i \in DOMAIN chain, chain[i] = s
      PROVE  i - 1 \in DOMAIN Tail(chain) /\ Tail(chain)[i - 1] = s
  BY <1>1, <1>2, <1>3
<1> QED  BY <1>3 DEF ChainOK

LEMMA EnqueueStep ==
  ASSUME StartupInv, NEW r \in Requests, Startup!Enqueue(r)
  PROVE  StartupInv'
<1> DEFINE p == request[r].at
           new == RequestOf(request[r], "queued")
<1>1. /\ request[r].pc = "received" /\ queue' = [queue EXCEPT ![p] = IF Startup!Demo(p) THEN Append(@, r) ELSE @]
      /\ request' = [request EXCEPT ![r] = new] /\ UNCHANGED <<applied, ledger, ledgerLock, graph, app, script>>
  BY DEF Startup!Enqueue, Startup!store, RequestOf
<1>2. /\ request[r] \in ServedRequests /\ RunsOK(request[r], r, app[p], queue[p], script[p])
      /\ p \in Processes /\ queue[p] \in Seq(Requests)
  BY <1>1, RequestFacts
<1>3. new \in ServedRequests /\ new.pc = "queued" /\ new.at = p /\ new.connected = request[r].connected
  BY <1>2, RequestShape
<1>4. queue' \in [Processes -> Seq(Requests)] /\ script' \in [Processes -> Requests \cup {None, "registered"}]
  BY <1>1, <1>2, AppFacts
<1>5. queue'[p] = (IF Startup!Demo(p) THEN Append(queue[p], r) ELSE queue[p]) /\ \A o \in Processes \ {p} : queue'[o] = queue[o]
  BY <1>1, <1>2, AppFacts
<1>6. RunsOK(new, r, app[new.at], queue'[new.at], script'[new.at])
  <2>1. ASSUME Startup!Demo(p)
        PROVE  \E i \in DOMAIN queue'[p] : queue'[p][i] = r
    <3>1. Len(queue[p]) + 1 \in DOMAIN Append(queue[p], r) /\ Append(queue[p], r)[Len(queue[p]) + 1] = r
      BY <1>2, AppendProperties
    <3> QED  BY <1>5, <2>1, <3>1
  <2> HIDE DEF new, p
  <2>2. app[p].env.runtime = "deterministic" => ChainOK(new, r, queue'[p], script'[p])
    BY <1>3, <2>1 DEF ChainOK, Startup!Demo
  <2> QED  BY <1>1, <1>2, <1>3, <2>2 DEF RunsOK
<1>7. ASSUME NEW s \in Requests \ {r}, request[s].pc \in {"received", "queued", "running"}
      PROVE  RunsOK(request[s], s, app[request[s].at], queue'[request[s].at], script'[request[s].at])
  <2>1. /\ RunsOK(request[s], s, app[request[s].at], queue[request[s].at], script[request[s].at])
        /\ request[s].at \in Processes
    BY <1>7, RequestFacts
  <2>2. CASE request[s].at # p
    BY <1>1, <1>5, <2>1, <2>2
  <2>3. CASE request[s].at = p
    <3> HIDE DEF p
    <3>1. ChainOK(request[s], s, queue[p], script[p]) => ChainOK(request[s], s, Append(queue[p], r), script[p])
      BY <1>2, ChainGrows
    <3> QED  BY <1>1, <1>5, <2>1, <2>3, <3>1 DEF RunsOK, Startup!Demo
  <2> QED  BY <2>2, <2>3
<1> HIDE DEF new
<1> QED  BY <1>1, <1>3, <1>4, <1>6, <1>7, RequestMoved

LEMMA RunStartsStep ==
  ASSUME StartupInv, NEW r \in Requests, Startup!RunStarts(r)
  PROVE  StartupInv'
<1> DEFINE p == request[r].at
           new == RequestOf(request[r], "running")
<1>1. /\ request[r].pc = "queued" /\ (Startup!Demo(p) => Head(queue[p]) = r)
      /\ script' = [script EXCEPT ![p] = IF Startup!Demo(p) /\ @ # None THEN r ELSE @]
      /\ request' = [request EXCEPT ![r] = new] /\ UNCHANGED <<applied, ledger, ledgerLock, graph, app, queue>>
  BY DEF Startup!RunStarts, Startup!MyTurn, Startup!store, RequestOf
<1>2. /\ request[r] \in ServedRequests /\ RunsOK(request[r], r, app[p], queue[p], script[p])
      /\ p \in Processes /\ queue[p] \in Seq(Requests) /\ app[p].pc \in Serving
      /\ app[p].pc \in {"serving", "closing", "draining"} => script[p] # None
  BY <1>1, RequestFacts
<1>3. new \in ServedRequests /\ new.pc = "running" /\ new.at = p /\ new.connected = request[r].connected
  BY <1>2, RequestShape
<1>4. queue' \in [Processes -> Seq(Requests)] /\ script' \in [Processes -> Requests \cup {None, "registered"}]
  BY <1>1, <1>2, AppFacts
<1>5. /\ script'[p] = (IF Startup!Demo(p) /\ script[p] # None THEN r ELSE script[p])
      /\ \A o \in Processes \ {p} : script'[o] = script[o]
  BY <1>1, <1>2, AppFacts
<1> HIDE DEF new
<1>6. RunsOK(new, r, app[new.at], queue'[new.at], script'[new.at])
  <2> HIDE DEF p
  <2>1. ASSUME app[p].env.runtime = "deterministic"
        PROVE  ChainOK(new, r, queue[p], script'[p])
    <3>1. queue[p] # <<>> /\ Head(queue[p]) = r
      BY <1>1, <1>2, <2>1 DEF RunsOK, ChainOK, Startup!Demo
    <3>2. script[p] = None => ~new.connected
      BY <1>1, <1>2, <1>3 DEF RunsOK, Serving
    <3> QED  BY <1>3, <1>5, <2>1, <3>1, <3>2 DEF ChainOK, Startup!Demo
  <2> QED  BY <1>1, <1>2, <1>3, <2>1 DEF RunsOK
<1>7. ASSUME NEW s \in Requests \ {r}, request[s].pc \in {"received", "queued", "running"}
      PROVE  RunsOK(request[s], s, app[request[s].at], queue'[request[s].at], script'[request[s].at])
  <2>1. /\ RunsOK(request[s], s, app[request[s].at], queue[request[s].at], script[request[s].at])
        /\ request[s].at \in Processes
    BY <1>7, RequestFacts
  <2>2. CASE request[s].at # p
    BY <1>1, <1>5, <2>1, <2>2
  <2>3. CASE request[s].at = p
    <3> HIDE DEF p
    <3>1. ASSUME Startup!Demo(p), ChainOK(request[s], s, queue[p], script[p])
          PROVE  ChainOK(request[s], s, queue[p], script'[p])
      BY <1>1, <3>1 DEF ChainOK
    <3> QED  BY <1>1, <1>5, <2>1, <2>3, <3>1 DEF RunsOK, Startup!Demo
  <2> QED  BY <2>2, <2>3
<1>8. \A o \in Processes : script[o] # None => script'[o] # None
  BY <1>2, <1>5, StartupAssumption
<1> QED  BY <1>1, <1>3, <1>4, <1>6, <1>7, <1>8, RequestMoved

LEMMA RunEndsStep ==
  ASSUME StartupInv, NEW r \in Requests, Startup!RunEnds(r)
  PROVE  StartupInv'
<1> DEFINE p == request[r].at
           new == RequestOf(request[r], "done")
<1>1. /\ request[r].pc = "running" /\ queue' = [queue EXCEPT ![p] = IF Startup!Demo(p) THEN Tail(@) ELSE @]
      /\ request' = [request EXCEPT ![r] = new] /\ UNCHANGED <<applied, ledger, ledgerLock, graph, app, script>>
  BY DEF Startup!RunEnds, Startup!store, RequestOf
<1>2. /\ request[r] \in ServedRequests /\ RunsOK(request[r], r, app[p], queue[p], script[p])
      /\ p \in Processes /\ queue[p] \in Seq(Requests)
  BY <1>1, RequestFacts
<1>3. new \in ServedRequests /\ new.pc = "done"
  BY <1>2, RequestShape
<1>4. Startup!Demo(p) => queue[p] # <<>> /\ Head(queue[p]) = r /\ Tail(queue[p]) \in Seq(Requests)
  BY <1>1, <1>2, HeadRest DEF RunsOK, ChainOK, Startup!Demo
<1>5. queue' \in [Processes -> Seq(Requests)] /\ script' \in [Processes -> Requests \cup {None, "registered"}]
  BY <1>1, <1>2, <1>4, AppFacts
<1>6. queue'[p] = (IF Startup!Demo(p) THEN Tail(queue[p]) ELSE queue[p]) /\ \A o \in Processes \ {p} : queue'[o] = queue[o]
  BY <1>1, <1>2, AppFacts
<1> HIDE DEF new
<1>7. RunsOK(new, r, app[new.at], queue'[new.at], script'[new.at])
  BY <1>3 DEF RunsOK
<1>8. ASSUME NEW s \in Requests \ {r}, request[s].pc \in {"received", "queued", "running"}
      PROVE  RunsOK(request[s], s, app[request[s].at], queue'[request[s].at], script'[request[s].at])
  <2>1. /\ RunsOK(request[s], s, app[request[s].at], queue[request[s].at], script[request[s].at])
        /\ request[s].at \in Processes
    BY <1>8, RequestFacts
  <2>2. CASE request[s].at # p
    BY <1>1, <1>6, <2>1, <2>2
  <2>3. CASE request[s].at = p
    <3> HIDE DEF p
    <3>1. ASSUME Startup!Demo(p), ChainOK(request[s], s, queue[p], script[p])
          PROVE  ChainOK(request[s], s, Tail(queue[p]), script[p])
      BY <1>2, <1>4, <3>1, ChainShrinks
    <3> QED  BY <1>1, <1>6, <2>1, <2>3, <3>1 DEF RunsOK, Startup!Demo
  <2> QED  BY <2>2, <2>3
<1>9. \A o \in Processes : script[o] # None => script'[o] # None
  BY <1>1
<1> QED  BY <1>1, <1>3, <1>5, <1>7, <1>8, <1>9, RequestMoved

LEMMA StartupStep ==
  ASSUME StartupInv, Startup!Next \/ UNCHANGED startupVars
  PROVE  StartupInv'
<1>1. CASE UNCHANGED <<applied, ledger, ledgerLock, graph, app, queue, script, request>>
  BY <1>1 DEF StartupInv, StartupTypeOK, StoreOK, Startup!MigratedOnce, ProcessesOK, RequestsOK
<1>2. ASSUME NEW p \in Processes,
             \/ Startup!Boot(p) \/ Startup!BeginMigration(p) \/ Startup!CommitMigration(p)
             \/ Startup!ReadUser(p) \/ Startup!Judge(p) \/ Startup!CheckMember(p) \/ Startup!CreateRow(p)
      PROVE  StartupInv'
  BY <1>2, BootStep, BeginStep, CommitStep, ReadStep, JudgeStep, CheckStep, CreateStep
<1>3. ASSUME NEW p \in Processes,
             \/ Startup!Serve(p) \/ Startup!Dies(p) \/ Startup!Signal(p) \/ Startup!CloseServer(p)
             \/ Startup!CloseRuntime(p) \/ Startup!EndPool(p)
             \/ \E r \in Requests : Startup!Receive(r, p)
      PROVE  StartupInv'
  BY <1>3, ServeStep, EndsStep, CloseSteps, CloseRuntimeStep, ReceiveStep DEF Startup!Dies, Startup!EndPool
<1>4. ASSUME NEW r \in Requests,
             Startup!Enqueue(r) \/ Startup!RunStarts(r) \/ Startup!RunEnds(r) \/ Startup!Disconnect(r)
      PROVE  StartupInv'
  BY <1>4, EnqueueStep, RunStartsStep, RunEndsStep, DisconnectStep
<1>5. ASSUME NEW who \in Startup!Everyone, Startup!MoveMember(who)
      PROVE  StartupInv'
  BY <1>1, <1>5 DEF Startup!MoveMember, Startup!serving
<1> QED  BY <1>1, <1>2, <1>3, <1>4, <1>5 DEF Startup!Next, startupVars

LEMMA StartupInit ==
  ASSUME Startup!Init
  PROVE  StartupInv
<1>1. Migrations \in Nat /\ Migrations >= 1 /\ None \notin Processes
  BY StartupAssumption
<1>2. /\ app = [p \in Processes |-> Startup!Off] /\ queue = [p \in Processes |-> <<>>]
      /\ script = [p \in Processes |-> None] /\ request = [r \in Requests |-> Startup!Unsent]
      /\ applied = [m \in 1..Migrations |-> IF m \in ledger THEN 1 ELSE 0]
  BY DEF Startup!Init
<1>3. /\ ledger \subseteq 1..Migrations /\ \A m \in ledger : 1..m \subseteq ledger
      /\ graph \subseteq Startup!SeedRows /\ Closed(graph)
  <2>1. CASE ledger = {} /\ graph = {}
    BY <2>1, SeedClosed
  <2>2. CASE ledger = {1} /\ graph = Startup!SeedRows \ {Startup!UserOf(Newcomer), Startup!MemberOf(Newcomer)}
    <3>1. ledger \subseteq 1..Migrations /\ \A m \in ledger : 1..m \subseteq ledger
      BY <1>1, <2>2
    <3> QED  BY <2>2, <3>1, LegacyClosed
  <2>3. CASE ledger = 1..Migrations /\ graph = Startup!SeedRows
    <3>1. \A m \in ledger : 1..m \subseteq ledger
      BY <1>1, <2>3
    <3> QED  BY <2>3, <3>1, SeedClosed
  <2> QED  BY <2>1, <2>2, <2>3 DEF Startup!Init
<1>4. Startup!Unsent \in ServedRequests /\ Startup!Unsent.pc = "unsent"
  BY DEF Startup!Unsent, ServedRequests
<1>5. StartupTypeOK
  BY <1>2, <1>3, <1>4, OffShape DEF StartupTypeOK
<1>6. StoreOK
  BY <1>2, <1>3 DEF StoreOK, Startup!MigratedOnce
<1>7. ProcessesOK
  BY <1>2, OffShape DEF ProcessesOK, ProcessOK, SchemaOK, GraphOK, Serving
<1>8. RequestsOK
  BY <1>2, <1>4 DEF RequestsOK, RunsOK
<1> QED  BY <1>5, <1>6, <1>7, <1>8 DEF StartupInv

\* A private corpus under a configuration that may start is of one store.
LEMMA PrivateCorpus ==
  ASSUME NEW env \in Environments, Startup!Configured(env), env.knowledge = "private"
  PROVE  /\ env.runtime = "pi-real" /\ env.retrieval = "lexical"
         /\ \E scope \in {e.scope : e \in env.corpus} :
              scope # None /\ \A e \in env.corpus : e = [status |-> "approved", scope |-> scope]
<1> DEFINE scopes == {e.scope : e \in env.corpus}
<1>1. env.runtime = "pi-real" /\ env.corpus # {} /\ (\A e \in env.corpus : e.status = "approved" /\ e.scope # None)
      /\ Startup!Cardinality(scopes) = 1 /\ env.retrieval # "vector"
  BY DEF Startup!Configured, Startup!PrivateAllowed, Startup!VectorAllowed
<1>2. /\ env.retrieval \in {"lexical", "vector"} /\ IsFiniteSet(scopes)
      /\ env.corpus \subseteq [status : {e.status : e \in env.corpus}, scope : scopes]
  BY StartupAssumption
<1>3. Cardinality(scopes) = 1
  BY <1>1 DEF Startup!Cardinality, Cardinality
<1>4. PICK scope : scopes = {scope}
  BY <1>2, <1>3, FS_Singleton
<1>5. \A e \in env.corpus : e.scope = scope
  BY <1>4
<1>6. \A e \in env.corpus : e = [status |-> "approved", scope |-> scope]
  BY <1>1, <1>2, <1>5
<1>7. scope \in scopes /\ scope # None
  BY <1>1, <1>4
<1> QED  BY <1>1, <1>2, <1>6, <1>7

\* Processes that start together, die anywhere and start again run each migration
\* once, and who serves has the whole schema, the whole identity graph and a
\* configuration under which a private corpus stays private (application.ts,
\* migrations.ts, demo-data.ts).
THEOREM StartupServesSound == Startup!Spec => []ServesOnlySound
<1>1. StartupInv => ServesOnlySound
  <2> SUFFICES ASSUME StartupInv
               PROVE  Startup!MigratedOnce /\ Startup!ServesOnlyComplete /\ Startup!PrivateStaysPrivate
    BY DEF ServesOnlySound
  <2>1. ASSUME NEW p \in Processes, Startup!Up(p)
        PROVE  /\ ledger = 1..Migrations /\ graph = Startup!SeedRows
               /\ app[p].env \in Environments /\ Startup!Configured(app[p].env)
    BY <2>1, AppFacts DEF Startup!Up, ProcessOK, SchemaOK, GraphOK, Serving
  <2>2. Startup!ServesOnlyComplete
    BY <2>1 DEF Startup!ServesOnlyComplete
  <2>3. Startup!PrivateStaysPrivate
    BY <2>1, PrivateCorpus DEF Startup!PrivateStaysPrivate
  <2> QED  BY <2>2, <2>3 DEF StartupInv, StoreOK
<1> QED  BY <1>1, StartupInit, StartupStep, PTL DEF Startup!Spec, Startup!vars, startupVars

\* The demo provider answers a run with the responses set for that run, through the
\* chain of runs, clients that leave and a shutdown in between (demo-runtime.ts).
THEOREM StartupRunsOnOwnScript == Startup!Spec => []RunsOnOwnScript
<1>1. StartupInv => RunsOnOwnScript
  <2> SUFFICES ASSUME StartupInv, NEW r \in Requests, request[r].pc = "running", Startup!Demo(request[r].at)
               PROVE  \/ script[request[r].at] = r
                      \/ ~request[r].connected /\ script[request[r].at] = None
    BY DEF RunsOnOwnScript, Startup!RunsOnOwnScript
  <2> QED  BY RequestFacts DEF RunsOK, ChainOK, Startup!Demo
<1> QED  BY <1>1, StartupInit, StartupStep, PTL DEF Startup!Spec, Startup!vars, startupVars

-----------------------------------------------------------------------------
(* Finite sets in a strict order, given as the set of its pairs.            *)

StrictOrder(S, R) ==
  /\ \A a, b, c \in S : <<a, b>> \in R /\ <<b, c>> \in R => <<a, c>> \in R
  /\ \A a \in S : <<a, a>> \notin R
  /\ \A a, b \in S : a = b \/ <<a, b>> \in R \/ <<b, a>> \in R

\* x is the first of T.
FirstOf(x, T, R) == x \in T /\ \A y \in T : y = x \/ <<x, y>> \in R

\* f lists T in order.
Lists(f, T, R) ==
  /\ f \in [1..Cardinality(T) -> T]
  /\ \A i, j \in 1..Cardinality(T) : i < j => <<f[i], f[j]>> \in R

\* A set of subsets of a finite set has a member that includes no other.
LEMMA LeastSubset ==
  ASSUME NEW S, IsFiniteSet(S), NEW bad, bad \subseteq SUBSET S, bad # {}
  PROVE  \E T \in bad : \A x \in T : T \ {x} \notin bad
<1>1. IsWellFoundedOn(StrictSubsetOrdering(S), SUBSET S)
  BY FS_StrictSubsetOrderingWellFounded, FS_FiniteSubsetsOfFinite
<1>2. PICK T \in bad : \A U \in bad : ~ (<<U, T>> \in StrictSubsetOrdering(S))
  BY <1>1, WFMin
<1>3. ASSUME NEW x \in T, T \ {x} \in bad
      PROVE  FALSE
  <2>1. <<T \ {x}, T>> \in StrictSubsetOrdering(S)
    BY <1>3 DEF StrictSubsetOrdering
  <2> QED  BY <1>2, <1>3, <2>1
<1> QED  BY <1>3

\* A finite set that is not empty has a first member.
LEMMA FiniteFirst ==
  ASSUME NEW S, IsFiniteSet(S), NEW R, StrictOrder(S, R), S # {}
  PROVE  \E x \in S : FirstOf(x, S, R)
<1> DEFINE bad == {T \in SUBSET S : T # {} /\ \A x \in T : ~FirstOf(x, T, R)}
<1> SUFFICES ASSUME bad # {}
             PROVE  FALSE
  BY DEF FirstOf
<1>1. PICK T \in bad : \A x \in T : T \ {x} \notin bad
  <2> HIDE DEF bad
  <2>1. bad \subseteq SUBSET S
    BY DEF bad
  <2> QED  BY <2>1, LeastSubset
<1>2. PICK a \in T : TRUE
  OBVIOUS
<1>3. T \subseteq S /\ T \ {a} \in SUBSET S /\ T \ {a} \notin bad
  BY <1>1, <1>2
<1>4. CASE T \ {a} = {}
  <2>1. FirstOf(a, T, R)
    BY <1>2, <1>4 DEF FirstOf
  <2> QED  BY <1>1, <1>2, <2>1
<1>5. CASE T \ {a} # {}
  <2>1. PICK b \in T \ {a} : FirstOf(b, T \ {a}, R)
    BY <1>3, <1>5
  <2>2. \A y \in T \ {a} : y = b \/ <<b, y>> \in R
    BY <2>1 DEF FirstOf
  <2>3. a \in S /\ b \in S /\ a # b
    BY <1>2, <1>3, <2>1
  <2>4. CASE <<a, b>> \in R
    <3>1. \A y \in T : y = a \/ <<a, y>> \in R
      BY <1>3, <2>2, <2>3, <2>4 DEF StrictOrder
    <3>2. FirstOf(a, T, R)
      BY <1>2, <3>1 DEF FirstOf
    <3> QED  BY <1>1, <1>2, <3>2
  <2>5. CASE <<b, a>> \in R
    <3>1. FirstOf(b, T, R)
      BY <2>1, <2>2, <2>5 DEF FirstOf
    <3> QED  BY <1>1, <2>1, <3>1
  <2> QED  BY <2>3, <2>4, <2>5 DEF StrictOrder
<1> QED  BY <1>4, <1>5

\* A finite set can be listed in order.
LEMMA FiniteLists ==
  ASSUME NEW S, IsFiniteSet(S), NEW R, StrictOrder(S, R)
  PROVE  \E f : Lists(f, S, R)
<1> DEFINE bad == {T \in SUBSET S : ~ \E f : Lists(f, T, R)}
<1> SUFFICES ASSUME bad # {}
             PROVE  FALSE
  OBVIOUS
<1>1. PICK T \in bad : \A x \in T : T \ {x} \notin bad
  <2> HIDE DEF bad
  <2>1. bad \subseteq SUBSET S
    BY DEF bad
  <2> QED  BY <2>1, LeastSubset
<1>2. T \subseteq S /\ IsFiniteSet(T) /\ ~ \E f : Lists(f, T, R)
  BY <1>1, FS_Subset
<1>3. CASE T = {}
  <2>1. 1..Cardinality(T) = {}
    BY <1>3, FS_EmptySet
  <2>2. Lists([i \in {} |-> 0], T, R)
    BY <2>1 DEF Lists
  <2> QED  BY <1>2, <2>2
<1>4. CASE T # {}
  <2>1. StrictOrder(T, R)
    BY <1>2 DEF StrictOrder
  <2>2. PICK a \in T : FirstOf(a, T, R)
    BY <1>2, <1>4, <2>1, FiniteFirst
  <2> DEFINE n == Cardinality(T)
  <2>3. n \in Nat /\ n # 0 /\ Cardinality(T \ {a}) = n - 1
    BY <1>2, <1>4, FS_CardinalityType, FS_EmptySet, FS_RemoveElement
  <2>4. PICK g : Lists(g, T \ {a}, R)
    BY <1>1, <1>2
  <2>5. /\ g \in [1..n - 1 -> T \ {a}]
        /\ \A i, j \in 1..n - 1 : i < j => <<g[i], g[j]>> \in R
    BY <2>3, <2>4 DEF Lists
  <2>6. \A y \in T \ {a} : <<a, y>> \in R
    BY <2>2 DEF FirstOf
  <2> HIDE DEF n
  <2> DEFINE f == [i \in 1..n |-> IF i = 1 THEN a ELSE g[i - 1]]
  <2>7. \A i \in 1..n : i # 1 => i - 1 \in 1..n - 1
    BY <2>3
  <2>8. f \in [1..n -> T]
    BY <2>5, <2>7
  <2>9. \A i, j \in 1..n : i < j => <<f[i], f[j]>> \in R
    <3> SUFFICES ASSUME NEW i \in 1..n, NEW j \in 1..n, i < j
                 PROVE  <<f[i], f[j]>> \in R
      OBVIOUS
    <3>1. j # 1 /\ j - 1 \in 1..n - 1 /\ f[j] = g[j - 1]
      BY <2>3, <2>7
    <3>2. CASE i = 1
      BY <2>5, <2>6, <3>1, <3>2
    <3>3. CASE i # 1
      <4>1. i - 1 \in 1..n - 1 /\ f[i] = g[i - 1] /\ i - 1 < j - 1
        BY <2>3, <2>7, <3>3
      <4> QED  BY <2>5, <3>1, <4>1
    <3> QED  BY <3>2, <3>3
  <2>10. Lists(f, T, R)
    BY <2>8, <2>9 DEF Lists, n
  <2> QED  BY <1>2, <2>10
<1> QED  BY <1>3, <1>4

\* A list in order names each member once.
LEMMA ListsAll ==
  ASSUME NEW S, IsFiniteSet(S), NEW R, StrictOrder(S, R), NEW f, Lists(f, S, R)
  PROVE  /\ Cardinality(S) \in Nat
         /\ f \in Injection(1..Cardinality(S), S) /\ f \in Surjection(1..Cardinality(S), S)
<1> DEFINE n == Cardinality(S)
<1>1. n \in Nat
  BY FS_CardinalityType
<1>2. f \in [1..n -> S] /\ \A i, j \in 1..n : i < j => <<f[i], f[j]>> \in R
  BY DEF Lists
<1> HIDE DEF n
<1>3. \A i, j \in 1..n : f[i] = f[j] => i = j
  <2> SUFFICES ASSUME NEW i \in 1..n, NEW j \in 1..n, f[i] = f[j], i # j
               PROVE  FALSE
    OBVIOUS
  <2>1. i < j \/ j < i
    BY <1>1
  <2>2. <<f[i], f[i]>> \in R /\ f[i] \in S
    BY <1>2, <2>1
  <2> QED  BY <2>2 DEF StrictOrder
<1>4. f \in Injection(1..n, S)
  BY <1>2, <1>3 DEF Injection, IsInjective
<1>5. Cardinality(1..n) = n
  BY <1>1, FS_Interval
<1>6. f \in Surjection(1..n, S)
  BY <1>4, <1>5, FS_Injection DEF n
<1> QED  BY <1>1, <1>4, <1>6 DEF n


-----------------------------------------------------------------------------
(* RagRegistry: the batches of a registration.                              *)

RankedBelow(entries) == {p \in entries \X entries : Rank[p[1].doc] < Rank[p[2].doc]}

\* The entries from the smallest id on.
InOrder(todo) == \A i, j \in DOMAIN todo : i < j => Rank[todo[i].doc] < Rank[todo[j].doc]

\* The registry as the assumptions give it, without its instance's names.
LEMMA RegistryFacts ==
  /\ IsFiniteSet(Documents) /\ IsFiniteSet(Versions)
  /\ \A x \in Contents : Cut[x] \in Seq(Rag!Chunks)
  /\ \A d \in Documents : Rank[d] \in Nat
  /\ \A c \in Rag!Chunks : Rank[c] \in Nat
  /\ \A d, e \in Documents : Rank[d] = Rank[e] => d = e
  /\ \A c, k \in Rag!Chunks : Rank[c] = Rank[k] => c = k
  /\ Batches \subseteq Seq(Rag!Entry)
  /\ Scores \subseteq Nat /\ TopK \in Nat \ {0}
  /\ None \notin Writers /\ None \notin Rag!Row /\ None \notin {Cut[x] : x \in Contents}
BY RegistryAssumption

LEMMA EntriesOrder ==
  ASSUME NEW batch \in Seq(Rag!Entry), Rag!Registrable(batch)
  PROVE  LET entries == {batch[i] : i \in DOMAIN batch}
         IN /\ IsFiniteSet(entries) /\ Cardinality(entries) = Len(batch)
            /\ entries \subseteq Rag!Entry
            /\ StrictOrder(entries, RankedBelow(entries))
<1> DEFINE entries == {batch[i] : i \in DOMAIN batch}
<1>1. Len(batch) \in Nat /\ DOMAIN batch = 1..Len(batch) /\ \A i \in 1..Len(batch) : batch[i] \in Rag!Entry
  OBVIOUS
<1>2. \A i, j \in DOMAIN batch : batch[i].doc = batch[j].doc => i = j
  BY DEF Rag!Registrable
<1>3. batch \in [1..Len(batch) -> entries]
  BY <1>1
<1>4. batch \in Injection(1..Len(batch), entries)
  BY <1>1, <1>2, <1>3 DEF Injection, IsInjective
<1>5. batch \in Surjection(1..Len(batch), entries)
  BY <1>1, <1>3 DEF Surjection
<1>6. IsFiniteSet(1..Len(batch)) /\ Cardinality(1..Len(batch)) = Len(batch)
  <2> DEFINE n == Len(batch)
  <2>1. n \in Nat
    BY <1>1
  <2> HIDE DEF n
  <2>2. IsFiniteSet(1..n) /\ Cardinality(1..n) = n
    BY <2>1, FS_Interval
  <2> QED  BY <2>2 DEF n
<1>7. IsFiniteSet(entries) /\ Cardinality(entries) = Len(batch)
  BY <1>4, <1>5, <1>6, FS_Surjection
<1>8. entries \subseteq Rag!Entry
  BY <1>1
<1>9. \A a, b \in entries : a.doc = b.doc => a = b
  BY <1>2
<1>10. \A a \in entries : a.doc \in Documents /\ Rank[a.doc] \in Nat
  BY <1>8, RegistryFacts DEF Rag!Entry
<1>11. \A a, b \in entries : <<a, b>> \in RankedBelow(entries) <=> Rank[a.doc] < Rank[b.doc]
  BY DEF RankedBelow
<1> HIDE DEF entries
<1>12. \A a, b \in entries : a = b \/ Rank[a.doc] < Rank[b.doc] \/ Rank[b.doc] < Rank[a.doc]
  BY <1>9, <1>10, RegistryFacts
<1>13. \A a, b, c \in entries : Rank[a.doc] < Rank[b.doc] /\ Rank[b.doc] < Rank[c.doc] => Rank[a.doc] < Rank[c.doc]
  BY <1>10
<1>14. \A a \in entries : ~(Rank[a.doc] < Rank[a.doc])
  BY <1>10
<1>15. StrictOrder(entries, RankedBelow(entries))
  BY <1>11, <1>12, <1>13, <1>14 DEF StrictOrder
<1> QED  BY <1>7, <1>8, <1>15 DEF entries

\* A registration works through the entries of its batch in the order of their ids.
LEMMA BatchSorted ==
  ASSUME NEW batch \in Batches, Rag!Registrable(batch)
  PROVE  /\ Rag!Sorted(batch) \in Seq(Rag!Entry) /\ InOrder(Rag!Sorted(batch))
<1> DEFINE entries == {batch[i] : i \in DOMAIN batch}
           Good(todo) == \A i, j \in DOMAIN batch : i < j => Rank[todo[i].doc] < Rank[todo[j].doc]
<1>1. batch \in Seq(Rag!Entry) /\ Len(batch) \in Nat /\ DOMAIN batch = 1..Len(batch)
  BY RegistryFacts
<1>2. /\ IsFiniteSet(entries) /\ Cardinality(entries) = Len(batch) /\ entries \subseteq Rag!Entry
      /\ StrictOrder(entries, RankedBelow(entries))
  BY <1>1, EntriesOrder
<1>3. PICK f : Lists(f, entries, RankedBelow(entries))
  BY <1>2, FiniteLists
<1>4. f \in [DOMAIN batch -> entries] /\ Good(f)
  BY <1>1, <1>2, <1>3 DEF Lists, RankedBelow
<1>5. Rag!Sorted(batch) \in [DOMAIN batch -> entries] /\ Good(Rag!Sorted(batch))
  BY <1>4 DEF Rag!Sorted
<1> HIDE DEF entries
<1>6. Rag!Sorted(batch) \in Seq(entries) /\ DOMAIN Rag!Sorted(batch) = DOMAIN batch
  BY <1>1, <1>5
<1>7. Rag!Sorted(batch) \in Seq(Rag!Entry)
  BY <1>1, <1>2, <1>5
<1> QED  BY <1>5, <1>6, <1>7 DEF InOrder

-----------------------------------------------------------------------------
(* RagRegistry: its rows, its locks and its transactions.                   *)

Puts == [doc : Documents, version : Versions, content : Contents, active : BOOLEAN]
WriterStates ==
  [pc : {"idle", "register", "ingest", "embed"}, todo : Seq(Rag!Entry), puts : SUBSET Puts]
SearchStates ==
  [pc : {"idle", "found", "answered", "unavailable"}, score : [Rag!Chunks -> Scores] \cup {None},
   found : Seq(Rag!Candidate), evidence : SUBSET Rag!Entry]
RegistryTables == [Documents -> [Versions -> Rag!Row \cup {None}]]
IndexTables == [Documents -> [Versions -> {Cut[x] : x \in Contents} \cup {None}]]
LockTables == [Documents -> Writers \cup {None}]

RagTypeOK ==
  /\ registry \in RegistryTables /\ index \in IndexTables /\ held \in LockTables
  /\ writer \in [Writers -> WriterStates] /\ search \in [Searches -> SearchStates]

ActiveIn(rows, d, v) == rows[d][v] # None /\ rows[d][v].active
ActiveRow(e) == [content |-> e.content, active |-> TRUE]

\* What is indexed is the canonical generation of a registered version (of rows, the
\* registry, and chunks, the index), and no document has two active versions.
TablesOK(rows, chunks) ==
  \A d \in Documents, v \in Versions :
    /\ chunks[d][v] # None => rows[d][v] # None /\ chunks[d][v] = Cut[rows[d][v].content]
    /\ \A x \in Versions : ActiveIn(rows, d, v) /\ ActiveIn(rows, d, x) => v = x

\* The rows a registration is about to commit fit the committed ones: one of a version;
\* one active one of a document, of a version that is not there; and the active
\* version that is there is retired with its text.
PutsOK(puts, rows) ==
  /\ \A p, q \in puts : p.doc = q.doc /\ p.version = q.version => p = q
  /\ \A p, q \in puts : p.doc = q.doc /\ p.active /\ q.active => p = q
  /\ \A p \in puts : ~p.active => rows[p.doc][p.version] = ActiveRow(p)
  /\ \A p \in puts : p.active =>
       /\ rows[p.doc][p.version] = None
       /\ \A v \in Versions : ActiveIn(rows, p.doc, v) =>
            \E q \in puts : q.doc = p.doc /\ q.version = v /\ ~q.active

\* The transaction q of w under the locks and rows there are.  The locks of a
\* registration are of smaller ids than those it has yet to take, and it writes
\* only what it has locked.
RegisterOK(w, q, rows, locks) ==
  /\ InOrder(q.todo)
  /\ \A d \in Documents : locks[d] = w => \A i \in DOMAIN q.todo : Rank[d] < Rank[q.todo[i].doc]
  /\ \A p \in q.puts : locks[p.doc] = w
  /\ PutsOK(q.puts, rows)
\* A generation is embedded while its document is locked and its version active.
EmbedOK(w, q, rows, locks) ==
  /\ q.todo # <<>>
  /\ locks[Head(q.todo).doc] = w
  /\ rows[Head(q.todo).doc][Head(q.todo).version] = ActiveRow(Head(q.todo))
WriterOK(w, q, rows, locks) ==
  /\ q.pc \in {"idle", "ingest"} => \A d \in Documents : locks[d] # w
  /\ q.pc = "register" => RegisterOK(w, q, rows, locks)
  /\ q.pc = "embed" => EmbedOK(w, q, rows, locks)
WritersOK == \A w \in Writers : WriterOK(w, writer[w], registry, held)

RegistryInv == RagTypeOK /\ TablesOK(registry, index) /\ WritersOK


-----------------------------------------------------------------------------
(* RagRegistry: every step keeps the invariant.                             *)

LEMMA IdleWriterShape ==
  Rag!Idle \in WriterStates /\ Rag!Idle.pc = "idle"
BY DEF Rag!Idle, WriterStates

LEMMA MovedShape ==
  ASSUME NEW A, NEW B, NEW C, NEW q \in [pc : A, todo : B, puts : C], NEW todo \in B, NEW puts \in C
  PROVE  LET new == [q EXCEPT !.todo = todo, !.puts = puts]
         IN new \in [pc : A, todo : B, puts : C] /\ new.pc = q.pc /\ new.todo = todo /\ new.puts = puts
OBVIOUS

LEMMA WriterFacts ==
  ASSUME RagTypeOK, NEW w \in Writers
  PROVE  /\ writer[w] \in WriterStates /\ w # None
         /\ writer[w].pc \in {"idle", "register", "ingest", "embed"}
         /\ writer[w].todo \in Seq(Rag!Entry) /\ writer[w].puts \subseteq Puts
BY RegistryFacts DEF RagTypeOK, WriterStates

\* The head of a transaction's entries.
LEMMA HeadFacts ==
  ASSUME NEW todo \in Seq(Rag!Entry), todo # <<>>
  PROVE  /\ Head(todo) \in Rag!Entry /\ Head(todo).doc \in Documents
         /\ Head(todo).version \in Versions /\ Head(todo).content \in Contents
         /\ Head(todo) = todo[1] /\ 1 \in DOMAIN todo
         /\ Tail(todo) \in Seq(Rag!Entry)
         /\ \A i \in DOMAIN Tail(todo) : i + 1 \in DOMAIN todo /\ i \in Nat /\ Tail(todo)[i] = todo[i + 1]
<1>1. Len(todo) \in Nat /\ Len(todo) >= 1 /\ DOMAIN todo = 1..Len(todo)
  OBVIOUS
<1>2. Head(todo) = todo[1] /\ 1 \in DOMAIN todo
  BY <1>1
<1>3. Head(todo) \in Rag!Entry
  BY <1>2
<1>4. Tail(todo) \in Seq(Rag!Entry) /\ DOMAIN Tail(todo) = 1..(Len(todo) - 1)
  BY <1>1
<1>5. \A i \in 1..(Len(todo) - 1) : Tail(todo)[i] = todo[i + 1]
  BY <1>1
<1>6. \A i \in 1..(Len(todo) - 1) : i \in Nat /\ i + 1 \in 1..Len(todo)
  BY <1>1
<1> QED  BY <1>1, <1>2, <1>3, <1>4, <1>5, <1>6 DEF Rag!Entry

\* A transaction is not disturbed by what happens to rows and locks it does not hold.
LEMMA OtherWriter ==
  ASSUME NEW x, NEW q \in WriterStates, NEW rows, NEW locks, NEW rows2, NEW locks2,
         WriterOK(x, q, rows, locks),
         \A d \in Documents : locks2[d] = x <=> locks[d] = x,
         \A d \in Documents : locks[d] = x => rows2[d] = rows[d]
  PROVE  WriterOK(x, q, rows2, locks2)
<1>1. q.todo \in Seq(Rag!Entry) /\ q.puts \subseteq Puts /\ \A p \in q.puts : p.doc \in Documents
  BY DEF WriterStates, Puts
<1>2. q.pc \in {"idle", "ingest"} => \A d \in Documents : locks2[d] # x
  BY DEF WriterOK
<1>3. q.pc = "register" => RegisterOK(x, q, rows2, locks2)
  <2> SUFFICES ASSUME q.pc = "register"
               PROVE  RegisterOK(x, q, rows2, locks2)
    OBVIOUS
  <2>1. RegisterOK(x, q, rows, locks)
    BY DEF WriterOK
  <2>2. \A p \in q.puts : locks2[p.doc] = x /\ rows2[p.doc] = rows[p.doc]
    BY <1>1, <2>1 DEF RegisterOK
  <2>3. PutsOK(q.puts, rows2)
    BY <2>1, <2>2 DEF RegisterOK, PutsOK, ActiveIn
  <2> QED  BY <2>1, <2>2, <2>3 DEF RegisterOK
<1>4. q.pc = "embed" => EmbedOK(x, q, rows2, locks2)
  BY <1>1, HeadFacts DEF WriterOK, EmbedOK
<1> QED  BY <1>2, <1>3, <1>4 DEF WriterOK

\* One transaction moves, and touches only what it holds.
LEMMA WriterStep ==
  ASSUME RegistryInv, NEW w \in Writers, NEW q \in WriterStates,
         writer' = [writer EXCEPT ![w] = q],
         registry' \in RegistryTables, index' \in IndexTables, held' \in LockTables,
         search' = search,
         \A d \in Documents : held'[d] # held[d] => held[d] \in {w, None} /\ held'[d] \in {w, None},
         \A d \in Documents : registry'[d] # registry[d] => held[d] = w,
         TablesOK(registry', index'),
         WriterOK(w, q, registry', held')
  PROVE  RegistryInv'
<1>1. RagTypeOK'
  BY DEF RegistryInv, RagTypeOK
<1>2. \A x \in Writers : WriterOK(x, writer'[x], registry', held')
  <2> SUFFICES ASSUME NEW x \in Writers, x # w
               PROVE  WriterOK(x, writer'[x], registry', held')
    BY DEF RegistryInv, RagTypeOK
  <2>1. writer'[x] = writer[x] /\ writer[x] \in WriterStates /\ x # None
    BY WriterFacts DEF RegistryInv, RagTypeOK
  <2>2. \A d \in Documents : held'[d] = x <=> held[d] = x
    BY <2>1
  <2>3. \A d \in Documents : held[d] = x => registry'[d] = registry[d]
    OBVIOUS
  <2>4. WriterOK(x, writer[x], registry, held)
    BY DEF RegistryInv, WritersOK
  <2> QED  BY <2>1, <2>2, <2>3, <2>4, OtherWriter
<1> QED  BY <1>1, <1>2 DEF RegistryInv, WritersOK

\* A transaction ends, with what it has written or without.
LEMMA EndsTransaction ==
  ASSUME RegistryInv, NEW w \in Writers, Rag!EndTransaction(w),
         registry' \in RegistryTables, index' \in IndexTables, search' = search,
         \A d \in Documents : registry'[d] # registry[d] => held[d] = w,
         TablesOK(registry', index')
  PROVE  RegistryInv'
<1>1. /\ writer' = [writer EXCEPT ![w] = Rag!Idle]
      /\ held' = [d \in Documents |-> IF held[d] = w THEN None ELSE held[d]]
  BY DEF Rag!EndTransaction
<1>2. held \in LockTables /\ w # None
  BY WriterFacts DEF RegistryInv, RagTypeOK
<1>3. held' \in LockTables
  BY <1>1, <1>2 DEF LockTables
<1>4. \A d \in Documents : held'[d] # w /\ (held'[d] # held[d] => held[d] = w /\ held'[d] = None)
  BY <1>1, <1>2
<1>5. WriterOK(w, Rag!Idle, registry', held')
  BY <1>4, IdleWriterShape DEF WriterOK
<1> QED  BY <1>1, <1>3, <1>4, <1>5, IdleWriterShape, WriterStep

LEMMA WriterFailsStep ==
  ASSUME RegistryInv, NEW w \in Writers,
         Rag!EndTransaction(w), UNCHANGED <<registry, index, search>>
  PROVE  RegistryInv'
BY EndsTransaction DEF RegistryInv, RagTypeOK

LEMMA StartWriterStep ==
  ASSUME RegistryInv, NEW w \in Writers, Rag!StartRegister(w) \/ Rag!StartIngest(w)
  PROVE  RegistryInv'
<1>1. PICK pc \in {"register", "ingest"}, todo \in Seq(Rag!Entry) :
        Rag!Start(w, pc, todo) /\ (pc = "register" => InOrder(todo))
  <2>1. CASE Rag!StartRegister(w)
    BY <2>1, BatchSorted DEF Rag!StartRegister
  <2>2. CASE Rag!StartIngest(w)
    <3>1. PICK batch \in Batches : \E i \in DOMAIN batch : Rag!Start(w, "ingest", <<batch[i]>>)
      BY <2>2 DEF Rag!StartIngest
    <3>2. PICK i \in DOMAIN batch : Rag!Start(w, "ingest", <<batch[i]>>)
      BY <3>1
    <3>3. batch \in Seq(Rag!Entry)
      BY RegistryFacts
    <3>4. batch[i] \in Rag!Entry
      BY <3>3
    <3>5. <<batch[i]>> \in Seq(Rag!Entry)
      BY <3>4
    <3> QED  BY <3>2, <3>5
  <2> QED  BY <2>1, <2>2
<1> DEFINE q == [pc |-> pc, todo |-> todo, puts |-> {}]
<1>2. /\ writer[w].pc = "idle" /\ writer' = [writer EXCEPT ![w] = q]
      /\ UNCHANGED <<registry, index, held, search>>
  BY <1>1 DEF Rag!Start
<1>3. q \in WriterStates /\ q.pc = pc /\ q.todo = todo /\ q.puts = {}
  BY DEF WriterStates
<1> HIDE DEF q
<1>4. \A d \in Documents : held[d] # w
  BY <1>2 DEF RegistryInv, WritersOK, WriterOK
<1>5. pc = "register" => RegisterOK(w, q, registry, held)
  BY <1>1, <1>3, <1>4 DEF RegisterOK, PutsOK
<1>6. WriterOK(w, q, registry, held)
  BY <1>3, <1>4, <1>5 DEF WriterOK
<1> QED  BY <1>2, <1>3, <1>6, WriterStep DEF RegistryInv, RagTypeOK


\* The rows of one entry: the active versions of its document are retired, and it
\* becomes the active one.
Retired(e) ==
  {[doc |-> e.doc, version |-> v, content |-> registry[e.doc][v].content, active |-> FALSE] :
     v \in {x \in Versions : Rag!IsActive(e.doc, x)}}
Inserted(e) == [doc |-> e.doc, version |-> e.version, content |-> e.content, active |-> TRUE]

LEMMA ActiveFacts ==
  ASSUME RagTypeOK, NEW d \in Documents, NEW v \in Versions
  PROVE  /\ Rag!IsActive(d, v) <=> ActiveIn(registry, d, v)
         /\ registry[d][v] \in Rag!Row \cup {None}
         /\ Rag!IsActive(d, v) =>
              /\ registry[d][v] \in Rag!Row /\ registry[d][v].content \in Contents
              /\ registry[d][v] = [content |-> registry[d][v].content, active |-> TRUE]
<1>1. registry[d][v] \in Rag!Row \cup {None}
  BY DEF RagTypeOK, RegistryTables
<1>2. Rag!IsActive(d, v) <=> ActiveIn(registry, d, v)
  BY DEF Rag!IsActive, ActiveIn
<1>3. ASSUME Rag!IsActive(d, v)
      PROVE  /\ registry[d][v] \in Rag!Row /\ registry[d][v].content \in Contents
             /\ registry[d][v] = [content |-> registry[d][v].content, active |-> TRUE]
  <2>1. registry[d][v] \in Rag!Row /\ registry[d][v].active
    BY <1>1, <1>3 DEF Rag!IsActive
  <2> QED  BY <2>1 DEF Rag!Row
<1> QED  BY <1>1, <1>2, <1>3

LEMMA RetiredFacts ==
  ASSUME RegistryInv, NEW e \in Rag!Entry
  PROVE  /\ Retired(e) \subseteq Puts /\ Inserted(e) \in Puts
         /\ \A p \in Retired(e) : /\ p.doc = e.doc /\ ~p.active /\ Rag!IsActive(e.doc, p.version)
                                  /\ registry[p.doc][p.version] = ActiveRow(p)
         /\ \A p, q \in Retired(e) : p.version = q.version => p = q
         /\ \A v \in Versions : Rag!IsActive(e.doc, v) => \E q \in Retired(e) : q.version = v
         /\ Inserted(e).doc = e.doc /\ Inserted(e).version = e.version
         /\ Inserted(e).content = e.content /\ Inserted(e).active
<1>1. RagTypeOK /\ e.doc \in Documents /\ e.version \in Versions /\ e.content \in Contents
  BY DEF RegistryInv, Rag!Entry
<1>2. \A v \in Versions : Rag!IsActive(e.doc, v) =>
        /\ registry[e.doc][v].content \in Contents
        /\ registry[e.doc][v] = [content |-> registry[e.doc][v].content, active |-> TRUE]
  BY <1>1, ActiveFacts
<1>3. ASSUME NEW p \in Retired(e)
      PROVE  /\ p \in Puts /\ p.doc = e.doc /\ ~p.active /\ Rag!IsActive(e.doc, p.version)
             /\ registry[p.doc][p.version] = ActiveRow(p)
             /\ p = [doc |-> e.doc, version |-> p.version, content |-> registry[e.doc][p.version].content, active |-> FALSE]
  <2>1. PICK v \in Versions : Rag!IsActive(e.doc, v)
               /\ p = [doc |-> e.doc, version |-> v, content |-> registry[e.doc][v].content, active |-> FALSE]
    BY <1>3 DEF Retired
  <2>2. p.doc = e.doc /\ p.version = v /\ p.content = registry[e.doc][v].content /\ ~p.active
    BY <2>1
  <2>3. p \in Puts
    BY <1>1, <1>2, <2>1 DEF Puts
  <2> QED  BY <1>2, <2>1, <2>2, <2>3 DEF ActiveRow
<1>4. \A p, q \in Retired(e) : p.version = q.version => p = q
  BY <1>3
<1>5. ASSUME NEW v \in Versions, Rag!IsActive(e.doc, v)
      PROVE  \E q \in Retired(e) : q.version = v
  <2> DEFINE q == [doc |-> e.doc, version |-> v, content |-> registry[e.doc][v].content, active |-> FALSE]
  <2>1. q \in Retired(e)
    BY <1>5 DEF Retired
  <2>2. q.version = v
    OBVIOUS
  <2> QED  BY <2>1, <2>2
<1>6. Inserted(e) \in Puts
  BY <1>1 DEF Inserted, Puts
<1>7. /\ Inserted(e).doc = e.doc /\ Inserted(e).version = e.version
      /\ Inserted(e).content = e.content /\ Inserted(e).active
  BY DEF Inserted
<1> QED  BY <1>3, <1>4, <1>5, <1>6, <1>7

\* What a registration adds for a new version fits what it has and what is committed.
LEMMA PutsGrow ==
  ASSUME RegistryInv, NEW e \in Rag!Entry, registry[e.doc][e.version] = None,
         NEW puts, puts \subseteq Puts, PutsOK(puts, registry), \A p \in puts : p.doc # e.doc
  PROVE  PutsOK(puts \cup Retired(e) \cup {Inserted(e)}, registry)
<1> DEFINE new == Retired(e) \cup {Inserted(e)}
           all == puts \cup Retired(e) \cup {Inserted(e)}
<1>1. e.doc \in Documents /\ e.version \in Versions /\ ~Rag!IsActive(e.doc, e.version) /\ RagTypeOK
  BY DEF RegistryInv, Rag!Entry, Rag!IsActive
<1>2. /\ \A p \in new : p.doc = e.doc
      /\ \A p \in new : p.active => p = Inserted(e)
      /\ \A p \in new : ~p.active => p \in Retired(e)
      /\ \A p, q \in new : p.version = q.version => p = q
  BY <1>1, RetiredFacts
<1>3. all = puts \cup new
  OBVIOUS
<1>4. \A p \in new : ~p.active => registry[p.doc][p.version] = ActiveRow(p)
  BY <1>2, RetiredFacts
<1>5. /\ registry[Inserted(e).doc][Inserted(e).version] = None
      /\ \A v \in Versions : ActiveIn(registry, e.doc, v) =>
           \E q \in new : q.doc = e.doc /\ q.version = v /\ ~q.active
  <2>1. Inserted(e).doc = e.doc /\ Inserted(e).version = e.version
    BY RetiredFacts
  <2>2. ASSUME NEW v \in Versions, ActiveIn(registry, e.doc, v)
        PROVE  \E q \in new : q.doc = e.doc /\ q.version = v /\ ~q.active
    <3>1. PICK q \in Retired(e) : q.version = v
      BY <1>1, <2>2, ActiveFacts, RetiredFacts
    <3> QED  BY <3>1, RetiredFacts
  <2> QED  BY <2>1, <2>2
<1> HIDE DEF new, all
<1>6. \A p, q \in all : p.doc = q.doc /\ p.version = q.version => p = q
  BY <1>2, <1>3 DEF PutsOK
<1>7. \A p, q \in all : p.doc = q.doc /\ p.active /\ q.active => p = q
  BY <1>2, <1>3 DEF PutsOK
<1>8. \A p \in all : ~p.active => registry[p.doc][p.version] = ActiveRow(p)
  BY <1>3, <1>4 DEF PutsOK
<1>9. \A p \in all : p.active =>
        /\ registry[p.doc][p.version] = None
        /\ \A v \in Versions : ActiveIn(registry, p.doc, v) =>
             \E q \in all : q.doc = p.doc /\ q.version = v /\ ~q.active
  <2>1. \A p \in new : p.active =>
        /\ registry[p.doc][p.version] = None
        /\ \A v \in Versions : ActiveIn(registry, p.doc, v) =>
             \E q \in all : q.doc = p.doc /\ q.version = v /\ ~q.active
    BY <1>2, <1>3, <1>5
  <2> QED  BY <1>3, <2>1 DEF PutsOK
<1>10. PutsOK(all, registry)
  BY <1>6, <1>7, <1>8, <1>9 DEF PutsOK
<1> QED  BY <1>10 DEF all

LEMMA RegisterEntryStep ==
  ASSUME RegistryInv, NEW w \in Writers, Rag!RegisterEntry(w)
  PROVE  RegistryInv'
<1> DEFINE e == Head(writer[w].todo)
           row == registry[e.doc][e.version]
           puts == writer[w].puts
           written == IF row = None THEN puts \cup Retired(e) \cup {Inserted(e)} ELSE puts
<1>1. /\ writer[w].pc = "register" /\ writer[w].todo # <<>> /\ held[e.doc] = None
      /\ UNCHANGED <<registry, index, search>>
  BY DEF Rag!RegisterEntry, Rag!Waits, Rag!LockFree
<1>2. \/ Rag!EndTransaction(w)
      \/ /\ held' = [held EXCEPT ![e.doc] = w]
         /\ writer' = [writer EXCEPT ![w].todo = Tail(@), ![w].puts = written]
  BY DEF Rag!RegisterEntry, Retired, Inserted
<1>3. RagTypeOK /\ writer[w] \in WriterStates /\ w # None /\ writer \in [Writers -> WriterStates]
  BY WriterFacts DEF RegistryInv, RagTypeOK
<1>4. writer[w].todo \in Seq(Rag!Entry) /\ puts \subseteq Puts
  BY <1>3, WriterFacts
<1>5. e \in Rag!Entry /\ e.doc \in Documents /\ Tail(writer[w].todo) \in Seq(Rag!Entry)
  BY <1>1, <1>4, HeadFacts
<1>6. RegisterOK(w, writer[w], registry, held)
  BY <1>1 DEF RegistryInv, WritersOK, WriterOK
<1>7. CASE Rag!EndTransaction(w)
  BY <1>1, <1>7, WriterFailsStep
<1>8. CASE /\ held' = [held EXCEPT ![e.doc] = w]
           /\ writer' = [writer EXCEPT ![w].todo = Tail(@), ![w].puts = written]
  <2> DEFINE q == [writer[w] EXCEPT !.todo = Tail(writer[w].todo), !.puts = written]
  <2>1. \A p \in puts : p.doc # e.doc
    BY <1>1, <1>3, <1>6 DEF RegisterOK
  <2>2. written \subseteq Puts /\ PutsOK(written, registry)
    BY <1>4, <1>5, <1>6, <2>1, PutsGrow, RetiredFacts DEF RegisterOK
  <2>3. \A p \in written : p \in puts \/ p.doc = e.doc
    BY <1>5, RetiredFacts
  <2> HIDE DEF written
  <2>4. writer' = [writer EXCEPT ![w] = q]
    BY <1>3, <1>8
  <2>5. q \in WriterStates /\ q.pc = "register" /\ q.todo = Tail(writer[w].todo) /\ q.puts = written
    BY <1>1, <1>3, <1>5, <2>2, MovedShape DEF WriterStates
  <2> HIDE DEF q
  <2>6. held \in LockTables /\ held' \in LockTables /\ \A d \in Documents : held'[d] = IF d = e.doc THEN w ELSE held[d]
    BY <1>3, <1>5, <1>8 DEF RagTypeOK, LockTables
  <2>7. /\ \A i \in DOMAIN q.todo : i + 1 \in DOMAIN writer[w].todo /\ i \in Nat /\ q.todo[i] = writer[w].todo[i + 1]
        /\ e = writer[w].todo[1] /\ 1 \in DOMAIN writer[w].todo
    BY <1>1, <1>4, <2>5, HeadFacts
  <2>8. InOrder(q.todo)
    <3>1. InOrder(writer[w].todo)
      BY <1>6 DEF RegisterOK
    <3>2. \A i, j \in DOMAIN q.todo : i < j => i + 1 < j + 1
      BY <2>7
    <3> QED  BY <2>7, <3>1, <3>2 DEF InOrder
  <2>9. \A d \in Documents : held'[d] = w => \A i \in DOMAIN q.todo : Rank[d] < Rank[q.todo[i].doc]
    <3>1. InOrder(writer[w].todo)
      BY <1>6 DEF RegisterOK
    <3>2. \A i \in DOMAIN q.todo : 1 < i + 1
      <4>1. \A i \in DOMAIN q.todo : i >= 1
        BY <1>4, <1>5, <2>5
      <4> QED  BY <2>7, <4>1
    <3>3. \A i \in DOMAIN q.todo : Rank[e.doc] < Rank[q.todo[i].doc]
      BY <2>7, <3>1, <3>2 DEF InOrder
    <3>4. \A d \in Documents : held[d] = w => \A i \in DOMAIN q.todo : Rank[d] < Rank[q.todo[i].doc]
      BY <1>6, <2>7 DEF RegisterOK
    <3> QED  BY <2>6, <3>3, <3>4
  <2>10. \A p \in q.puts : held'[p.doc] = w
    <3>1. \A p \in puts : held[p.doc] = w /\ p.doc \in Documents
      BY <1>4, <1>6 DEF RegisterOK, Puts
    <3> QED  BY <1>5, <2>3, <2>5, <2>6, <3>1
  <2>11. WriterOK(w, q, registry, held')
    BY <2>2, <2>5, <2>8, <2>9, <2>10 DEF WriterOK, RegisterOK
  <2> HIDE DEF e
  <2>12. \A d \in Documents : held'[d] # held[d] => held[d] \in {w, None} /\ held'[d] \in {w, None}
    BY <1>1, <1>3, <2>6
  <2> QED  BY <1>1, <1>3, <2>4, <2>5, <2>6, <2>11, <2>12, WriterStep DEF RegistryInv, RagTypeOK
<1> QED  BY <1>2, <1>7, <1>8


\* The row of a version after a commit of puts.
Committed(puts, d, v) ==
  IF \E p \in puts : p.doc = d /\ p.version = v
    THEN LET p == CHOOSE p \in puts : p.doc = d /\ p.version = v
         IN [content |-> p.content, active |-> p.active]
    ELSE registry[d][v]

LEMMA CommittedFacts ==
  ASSUME RagTypeOK, NEW puts, puts \subseteq Puts, PutsOK(puts, registry), NEW d \in Documents, NEW v \in Versions
  PROVE  /\ Committed(puts, d, v) \in Rag!Row \cup {None}
         /\ \A p \in puts : p.doc = d /\ p.version = v =>
              /\ Committed(puts, d, v) = [content |-> p.content, active |-> p.active]
              /\ Committed(puts, d, v) # None
         /\ (\A p \in puts : ~(p.doc = d /\ p.version = v)) => Committed(puts, d, v) = registry[d][v]
<1>1. registry[d][v] \in Rag!Row \cup {None}
  BY ActiveFacts
<1>2. ASSUME NEW p \in puts, p.doc = d, p.version = v
      PROVE  /\ Committed(puts, d, v) = [content |-> p.content, active |-> p.active]
             /\ Committed(puts, d, v) \in Rag!Row /\ Committed(puts, d, v) # None
  <2>1. \A q \in puts : q.doc = d /\ q.version = v => q = p
    BY <1>2 DEF PutsOK
  <2>2. p = CHOOSE q \in puts : q.doc = d /\ q.version = v
    BY <1>2, <2>1
  <2>3. Committed(puts, d, v) = [content |-> p.content, active |-> p.active]
    BY <1>2, <2>2 DEF Committed
  <2>4. p.content \in Contents /\ p.active \in BOOLEAN
    BY DEF Puts
  <2>5. Committed(puts, d, v) \in Rag!Row
    BY <2>3, <2>4 DEF Rag!Row
  <2> QED  BY <2>3, <2>5, RegistryFacts
<1>3. (\A p \in puts : ~(p.doc = d /\ p.version = v)) => Committed(puts, d, v) = registry[d][v]
  BY DEF Committed
<1> QED  BY <1>1, <1>2, <1>3

\* What is indexed keeps its text, and a version that becomes active is alone.
LEMMA CommittedTables ==
  ASSUME RegistryInv, NEW puts, puts \subseteq Puts, PutsOK(puts, registry),
         NEW rows, rows = [d \in Documents |-> [v \in Versions |-> Committed(puts, d, v)]]
  PROVE  rows \in RegistryTables /\ TablesOK(rows, index)
<1>1. RagTypeOK /\ TablesOK(registry, index)
  BY DEF RegistryInv
<1>2. \A d \in Documents, v \in Versions : rows[d][v] = Committed(puts, d, v)
  OBVIOUS
<1>3. rows \in RegistryTables
  BY <1>1, CommittedFacts DEF RegistryTables
<1>4. ASSUME NEW d \in Documents, NEW v \in Versions, index[d][v] # None
      PROVE  rows[d][v] # None /\ index[d][v] = Cut[rows[d][v].content]
  <2>1. registry[d][v] # None /\ index[d][v] = Cut[registry[d][v].content]
    BY <1>1, <1>4 DEF TablesOK
  <2>2. CASE \E p \in puts : p.doc = d /\ p.version = v
    <3>1. PICK p \in puts : p.doc = d /\ p.version = v
      BY <2>2
    <3>2. rows[d][v] = [content |-> p.content, active |-> p.active] /\ rows[d][v] # None
      BY <1>1, <1>2, <3>1, CommittedFacts
    <3>3. registry[d][v] = ActiveRow(p)
      BY <2>1, <3>1 DEF PutsOK
    <3>4. registry[d][v].content = rows[d][v].content
      BY <3>2, <3>3 DEF ActiveRow
    <3> QED  BY <2>1, <3>2, <3>4
  <2>3. CASE \A p \in puts : ~(p.doc = d /\ p.version = v)
    BY <1>1, <1>2, <2>1, <2>3, CommittedFacts
  <2> QED  BY <2>2, <2>3
<1>5. ASSUME NEW d \in Documents, NEW v \in Versions, ActiveIn(rows, d, v)
      PROVE  \/ \E p \in puts : p.doc = d /\ p.version = v /\ p.active
             \/ /\ \A p \in puts : ~(p.doc = d /\ p.version = v)
                /\ ActiveIn(registry, d, v)
  <2>1. CASE \E p \in puts : p.doc = d /\ p.version = v
    <3>1. PICK p \in puts : p.doc = d /\ p.version = v
      BY <2>1
    <3>2. rows[d][v] = [content |-> p.content, active |-> p.active]
      BY <1>1, <1>2, <3>1, CommittedFacts
    <3>3. p.active
      BY <1>5, <3>2 DEF ActiveIn
    <3> QED  BY <3>1, <3>3
  <2>2. CASE \A p \in puts : ~(p.doc = d /\ p.version = v)
    BY <1>1, <1>2, <1>5, <2>2, CommittedFacts DEF ActiveIn
  <2> QED  BY <2>1, <2>2
<1>6. ASSUME NEW d \in Documents, NEW v \in Versions, NEW x \in Versions, ActiveIn(rows, d, v), ActiveIn(rows, d, x)
      PROVE  v = x
  <2>1. CASE ActiveIn(registry, d, v) /\ ActiveIn(registry, d, x)
    BY <1>1, <2>1 DEF TablesOK
  <2>2. ASSUME NEW p \in puts, p.doc = d, p.active, NEW a \in Versions, ActiveIn(registry, d, a)
        PROVE  \E q \in puts : q.doc = d /\ q.version = a
    BY <2>2 DEF PutsOK
  <2>3. ASSUME NEW p \in puts, NEW q \in puts, p.doc = d, q.doc = d, p.active, q.active
        PROVE  p.version = q.version
    BY <2>3 DEF PutsOK
  <2> QED  BY <1>5, <1>6, <2>1, <2>2, <2>3
<1> QED  BY <1>3, <1>4, <1>6 DEF TablesOK

LEMMA CommitRegisterStep ==
  ASSUME RegistryInv, NEW w \in Writers, Rag!CommitRegister(w)
  PROVE  RegistryInv'
<1> DEFINE puts == writer[w].puts
<1>1. /\ writer[w].pc = "register" /\ Rag!EndTransaction(w) /\ index' = index /\ search' = search
      /\ registry' = [d \in Documents |-> [v \in Versions |-> Committed(puts, d, v)]]
  BY DEF Rag!CommitRegister, Committed
<1>2. RagTypeOK /\ puts \subseteq Puts /\ RegisterOK(w, writer[w], registry, held)
  BY <1>1, WriterFacts DEF RegistryInv, WritersOK, WriterOK
<1>3. PutsOK(puts, registry) /\ \A p \in puts : held[p.doc] = w
  BY <1>2 DEF RegisterOK
<1> HIDE DEF puts
<1>4. registry' \in RegistryTables /\ TablesOK(registry', index')
  BY <1>1, <1>2, <1>3, CommittedTables
<1>5. ASSUME NEW d \in Documents, held[d] # w
      PROVE  registry'[d] = registry[d]
  <2>1. \A v \in Versions : Committed(puts, d, v) = registry[d][v]
    BY <1>2, <1>3, <1>5, CommittedFacts
  <2>2. registry[d] \in [Versions -> Rag!Row \cup {None}]
    BY <1>2 DEF RagTypeOK, RegistryTables
  <2>3. registry'[d] = [v \in Versions |-> registry[d][v]]
    BY <1>1, <2>1
  <2> QED  BY <2>2, <2>3
<1> QED  BY <1>1, <1>2, <1>4, <1>5, EndsTransaction DEF RagTypeOK

LEMMA EmbedShape ==
  ASSUME NEW q \in WriterStates
  PROVE  LET new == [q EXCEPT !.pc = "embed"]
         IN new \in WriterStates /\ new.pc = "embed" /\ new.todo = q.todo /\ new.puts = q.puts
BY DEF WriterStates

LEMMA IngestReadStep ==
  ASSUME RegistryInv, NEW w \in Writers, Rag!IngestRead(w)
  PROVE  RegistryInv'
<1> DEFINE e == Head(writer[w].todo)
<1>1. /\ writer[w].pc = "ingest" /\ writer[w].todo # <<>> /\ held[e.doc] = None
      /\ UNCHANGED <<registry, index, search>>
  BY DEF Rag!IngestRead, Rag!Waits, Rag!LockFree
<1>2. \/ Rag!EndTransaction(w)
      \/ /\ registry[e.doc][e.version] = ActiveRow(e)
         /\ held' = [held EXCEPT ![e.doc] = w]
         /\ writer' = [writer EXCEPT ![w].pc = "embed"]
  BY DEF Rag!IngestRead, ActiveRow
<1>3. RagTypeOK /\ writer[w] \in WriterStates /\ w # None /\ writer \in [Writers -> WriterStates]
  BY WriterFacts DEF RegistryInv, RagTypeOK
<1>4. e \in Rag!Entry /\ e.doc \in Documents
  BY <1>1, <1>3, WriterFacts, HeadFacts
<1>5. CASE Rag!EndTransaction(w)
  BY <1>1, <1>5, WriterFailsStep
<1>6. CASE /\ registry[e.doc][e.version] = ActiveRow(e)
           /\ held' = [held EXCEPT ![e.doc] = w]
           /\ writer' = [writer EXCEPT ![w].pc = "embed"]
  <2> DEFINE q == [writer[w] EXCEPT !.pc = "embed"]
  <2>1. writer' = [writer EXCEPT ![w] = q]
    BY <1>3, <1>6
  <2>2. q \in WriterStates /\ q.pc = "embed" /\ q.todo = writer[w].todo
    BY <1>3, EmbedShape
  <2> HIDE DEF q
  <2>3. held \in LockTables /\ held' \in LockTables /\ \A d \in Documents : held'[d] = IF d = e.doc THEN w ELSE held[d]
    BY <1>3, <1>4, <1>6 DEF RagTypeOK, LockTables
  <2>4. EmbedOK(w, q, registry', held')
    BY <1>1, <1>4, <1>6, <2>2, <2>3 DEF EmbedOK
  <2>5. WriterOK(w, q, registry', held')
    BY <2>2, <2>4 DEF WriterOK
  <2> HIDE DEF e
  <2>6. \A d \in Documents : held'[d] # held[d] => held[d] \in {w, None} /\ held'[d] \in {w, None}
    BY <1>1, <1>3, <2>3
  <2> QED  BY <1>1, <1>3, <2>1, <2>2, <2>3, <2>5, <2>6, WriterStep DEF RegistryInv, RagTypeOK
<1> QED  BY <1>2, <1>5, <1>6

\* A publication is of a version that is active, and of nothing else.
LEMMA PublishFacts ==
  ASSUME RegistryInv, NEW w \in Writers, Rag!Publish(w)
  PROVE  LET e == Head(writer[w].todo)
         IN /\ e.doc \in Documents /\ e.version \in Versions /\ e.content \in Contents
            /\ registry[e.doc][e.version] = ActiveRow(e)
            /\ index' \in IndexTables
            /\ \A d \in Documents, v \in Versions :
                 index'[d][v] = IF d = e.doc /\ v = e.version THEN Cut[e.content] ELSE index[d][v]
<1> DEFINE e == Head(writer[w].todo)
<1>1. writer[w].pc = "embed" /\ index' = [index EXCEPT ![e.doc][e.version] = Cut[e.content]]
  BY DEF Rag!Publish, Rag!Generation
<1>2. RagTypeOK /\ EmbedOK(w, writer[w], registry, held)
  BY <1>1 DEF RegistryInv, WritersOK, WriterOK
<1>3. e.doc \in Documents /\ e.version \in Versions /\ e.content \in Contents
  BY <1>2, WriterFacts, HeadFacts DEF EmbedOK
<1>4. registry[e.doc][e.version] = ActiveRow(e)
  BY <1>2 DEF EmbedOK
<1> HIDE DEF e
<1>5. index \in [Documents -> [Versions -> {Cut[x] : x \in Contents} \cup {None}]]
  BY <1>2 DEF RagTypeOK, IndexTables
<1>6. index' \in IndexTables
  BY <1>1, <1>3, <1>5 DEF IndexTables
<1>7. \A d \in Documents, v \in Versions :
        index'[d][v] = IF d = e.doc /\ v = e.version THEN Cut[e.content] ELSE index[d][v]
  BY <1>1, <1>3, <1>5
<1> QED  BY <1>3, <1>4, <1>6, <1>7 DEF e

LEMMA PublishStep ==
  ASSUME RegistryInv, NEW w \in Writers, Rag!Publish(w)
  PROVE  RegistryInv'
<1> DEFINE e == Head(writer[w].todo)
<1>1. Rag!EndTransaction(w) /\ registry' = registry /\ search' = search
  BY DEF Rag!Publish
<1>2. /\ registry[e.doc][e.version] = ActiveRow(e) /\ index' \in IndexTables
      /\ \A d \in Documents, v \in Versions :
           index'[d][v] = IF d = e.doc /\ v = e.version THEN Cut[e.content] ELSE index[d][v]
      /\ e.doc \in Documents /\ e.version \in Versions /\ e.content \in Contents
  BY PublishFacts
<1>3. RagTypeOK /\ TablesOK(registry, index)
  BY DEF RegistryInv
<1> HIDE DEF e
<1>4. registry[e.doc][e.version] # None /\ registry[e.doc][e.version].content = e.content
  <2>1. ActiveRow(e).content = e.content /\ ActiveRow(e).active
    BY DEF ActiveRow
  <2>2. ActiveRow(e) \in Rag!Row
    BY <1>2 DEF ActiveRow, Rag!Row
  <2> QED  BY <1>2, <2>1, <2>2, RegistryFacts
<1>5. TablesOK(registry', index')
  BY <1>1, <1>2, <1>3, <1>4 DEF TablesOK
<1> QED  BY <1>1, <1>2, <1>3, <1>5, EndsTransaction DEF RagTypeOK


-----------------------------------------------------------------------------
(* RagRegistry: the candidates of a search.                                 *)

Similarity == [Rag!Chunks -> Scores]
Precedence(S, score) == {p \in S \X S : Rag!Before(p[1], p[2], score)}

\* Candidates that differ differ in their document or in their chunk, and so the
\* better score and the smaller id order them.
LEMMA PrecedenceStrict ==
  ASSUME NEW S, S \subseteq Rag!Candidate, NEW score \in Similarity,
         \A a, b \in S : a.doc = b.doc /\ a.chunk = b.chunk => a = b
  PROVE  StrictOrder(S, Precedence(S, score))
<1>1. \A a \in S : /\ score[a.chunk] \in Nat /\ a.doc \in Documents /\ a.chunk \in Rag!Chunks
                   /\ Rank[a.doc] \in Nat /\ Rank[a.chunk] \in Nat
  <2>1. \A a \in S : a.doc \in Documents /\ a.chunk \in Rag!Chunks
    BY DEF Rag!Candidate
  <2>2. \A c \in Rag!Chunks : score[c] \in Nat
    BY RegistryFacts DEF Similarity
  <2> QED  BY <2>1, <2>2, RegistryFacts
<1>2. \A a, b \in S : <<a, b>> \in Precedence(S, score) <=> Rag!Before(a, b, score)
  BY DEF Precedence
<1>3. \A a, b, c \in S : Rag!Before(a, b, score) /\ Rag!Before(b, c, score) => Rag!Before(a, c, score)
  BY <1>1 DEF Rag!Before
<1>4. \A a \in S : ~Rag!Before(a, a, score)
  BY <1>1 DEF Rag!Before
<1>5. \A a, b \in S : a = b \/ Rag!Before(a, b, score) \/ Rag!Before(b, a, score)
  <2> SUFFICES ASSUME NEW a \in S, NEW b \in S, a # b
               PROVE  Rag!Before(a, b, score) \/ Rag!Before(b, a, score)
    OBVIOUS
  <2>1. CASE score[a.chunk] # score[b.chunk]
    BY <1>1, <2>1 DEF Rag!Before
  <2>2. CASE score[a.chunk] = score[b.chunk] /\ a.doc # b.doc
    <3>1. Rank[a.doc] # Rank[b.doc]
      BY <1>1, <2>2, RegistryFacts
    <3> QED  BY <1>1, <2>2, <3>1 DEF Rag!Before
  <2>3. CASE score[a.chunk] = score[b.chunk] /\ a.doc = b.doc
    <3>1. Rank[a.chunk] # Rank[b.chunk]
      BY <1>1, <2>3, RegistryFacts
    <3> QED  BY <1>1, <2>3, <3>1 DEF Rag!Before
  <2> QED  BY <2>1, <2>2, <2>3
<1> QED  BY <1>2, <1>3, <1>4, <1>5 DEF StrictOrder

\* A chunk of a live version is one of the text's chunks.
LEMMA LiveFacts ==
  ASSUME RegistryInv, NEW p \in Rag!Live
  PROVE  /\ p[1] \in Documents /\ p[2] \in Versions /\ p = <<p[1], p[2]>>
         /\ ActiveIn(registry, p[1], p[2]) /\ registry[p[1]][p[2]].content \in Contents
         /\ Len(index[p[1]][p[2]]) \in Nat
         /\ DOMAIN index[p[1]][p[2]] = 1..Len(index[p[1]][p[2]])
         /\ \A k \in DOMAIN index[p[1]][p[2]] : index[p[1]][p[2]][k] \in Rag!Chunks
<1>1. /\ p \in Documents \X Versions /\ Rag!IsActive(p[1], p[2]) /\ index[p[1]][p[2]] # None
  BY DEF Rag!Live
<1>2. p[1] \in Documents /\ p[2] \in Versions /\ p = <<p[1], p[2]>>
  BY <1>1
<1>3. ActiveIn(registry, p[1], p[2]) /\ registry[p[1]][p[2]].content \in Contents
  BY <1>1, <1>2, ActiveFacts DEF RegistryInv
<1>4. index[p[1]][p[2]] = Cut[registry[p[1]][p[2]].content]
  BY <1>1, <1>2 DEF RegistryInv, TablesOK
<1>5. index[p[1]][p[2]] \in Seq(Rag!Chunks)
  BY <1>3, <1>4, RegistryFacts
<1> QED  BY <1>2, <1>3, <1>5

LEMMA HitsFacts ==
  ASSUME RegistryInv, NEW p \in Rag!Live, NEW score \in Similarity
  PROVE  LET hits == Rag!Hits(p[1], p[2], score)
         IN /\ IsFiniteSet(hits) /\ hits \subseteq Rag!Candidate
            /\ \A h \in hits : h.doc = p[1] /\ score[h.chunk] >= Floor
            /\ \A a, b \in hits : a.chunk = b.chunk => a = b
            /\ \A k \in DOMAIN index[p[1]][p[2]] : score[index[p[1]][p[2]][k]] >= Floor =>
                 \E h \in hits : h.chunk = index[p[1]][p[2]][k]
<1> DEFINE chunks == index[p[1]][p[2]]
           D == {j \in DOMAIN chunks : score[chunks[j]] >= Floor}
           hits == Rag!Hits(p[1], p[2], score)
           f == [i \in D |-> Rag!Hit(p[1], p[2], i)]
           text == registry[p[1]][p[2]].content
<1>1. /\ p[1] \in Documents /\ p[2] \in Versions /\ text \in Contents
      /\ Len(chunks) \in Nat /\ DOMAIN chunks = 1..Len(chunks)
      /\ \A k \in DOMAIN chunks : chunks[k] \in Rag!Chunks
  BY LiveFacts
<1>2. hits = {Rag!Hit(p[1], p[2], i) : i \in D}
  BY DEF Rag!Hits
<1>3. \A i \in D : Rag!Hit(p[1], p[2], i) = [doc |-> p[1], version |-> p[2], content |-> text, chunk |-> chunks[i]]
  BY DEF Rag!Hit
<1> HIDE DEF chunks, text
<1>4. IsFiniteSet(D)
  <2> DEFINE n == Len(chunks)
  <2>1. n \in Nat /\ D \in SUBSET (1..n)
    BY <1>1
  <2> HIDE DEF n, D
  <2>2. IsFiniteSet(1..n)
    BY <2>1, FS_Interval
  <2> QED  BY <2>1, <2>2, FS_Subset
<1>5. D \subseteq DOMAIN chunks /\ \A i \in D : score[chunks[i]] >= Floor
  OBVIOUS
<1>6. \A k \in DOMAIN chunks : score[chunks[k]] >= Floor => k \in D
  OBVIOUS
<1> HIDE DEF D, hits
<1>7. f \in Surjection(D, hits)
  BY <1>2 DEF Surjection
<1>8. IsFiniteSet(hits)
  BY <1>4, <1>7, FS_Surjection
<1>9. ASSUME NEW i \in D
      PROVE  /\ Rag!Hit(p[1], p[2], i) \in Rag!Candidate
             /\ Rag!Hit(p[1], p[2], i).doc = p[1] /\ Rag!Hit(p[1], p[2], i).chunk = chunks[i]
  <2>1. Rag!Hit(p[1], p[2], i) = [doc |-> p[1], version |-> p[2], content |-> text, chunk |-> chunks[i]]
    BY <1>3
  <2>2. chunks[i] \in Rag!Chunks
    BY <1>1, <1>5
  <2>3. [doc |-> p[1], version |-> p[2], content |-> text, chunk |-> chunks[i]] \in Rag!Candidate
    BY <1>1, <2>2 DEF Rag!Candidate
  <2> QED  BY <2>1, <2>3
<1>11. \A i, j \in D : chunks[i] = chunks[j] => Rag!Hit(p[1], p[2], i) = Rag!Hit(p[1], p[2], j)
  BY <1>3
<1>12. \A h \in hits : \E i \in D : h = Rag!Hit(p[1], p[2], i)
  BY <1>2
<1>13. hits \subseteq Rag!Candidate /\ \A h \in hits : h.doc = p[1] /\ score[h.chunk] >= Floor
  BY <1>5, <1>9, <1>12
<1>14. \A a, b \in hits : a.chunk = b.chunk => a = b
  BY <1>9, <1>11, <1>12
<1>15. \A k \in DOMAIN chunks : score[chunks[k]] >= Floor => \E h \in hits : h.chunk = chunks[k]
  BY <1>2, <1>6, <1>9
<1> QED  BY <1>8, <1>13, <1>14, <1>15 DEF hits, chunks

\* The chunk that stands for its document is a hit that no other beats.
LEMMA BestOfFacts ==
  ASSUME RegistryInv, NEW p \in Rag!Live, NEW score \in Similarity, Rag!Hits(p[1], p[2], score) # {}
  PROVE  LET hits == Rag!Hits(p[1], p[2], score)
             best == Rag!BestOf(hits, score)
         IN /\ best \in hits /\ best \in Rag!Candidate /\ best.doc = p[1]
            /\ \A h \in hits : score[best.chunk] >= score[h.chunk]
<1> DEFINE hits == Rag!Hits(p[1], p[2], score)
<1>1. /\ IsFiniteSet(hits) /\ hits \subseteq Rag!Candidate /\ \A h \in hits : h.doc = p[1]
      /\ \A a, b \in hits : a.chunk = b.chunk => a = b
  BY HitsFacts
<1> HIDE DEF hits
<1>2. StrictOrder(hits, Precedence(hits, score))
  BY <1>1, PrecedenceStrict
<1>3. hits # {}
  BY DEF hits
<1>4. PICK first \in hits : FirstOf(first, hits, Precedence(hits, score))
  BY <1>1, <1>2, <1>3, FiniteFirst
<1>5. \A g \in hits : first = g \/ Rag!Before(first, g, score)
  BY <1>4 DEF FirstOf, Precedence
<1> DEFINE best == Rag!BestOf(hits, score)
<1>6. best \in hits /\ \A g \in hits : best = g \/ Rag!Before(best, g, score)
  BY <1>5 DEF Rag!BestOf
<1> HIDE DEF best
<1>7. \A h \in hits : score[h.chunk] \in Nat
  BY <1>1, RegistryFacts DEF Rag!Candidate, Similarity
<1>8. \A h \in hits : score[best.chunk] >= score[h.chunk]
  BY <1>6, <1>7 DEF Rag!Before
<1> QED  BY <1>1, <1>6, <1>8 DEF hits, best


\* There is one candidate of each document that is hit, from its active version.
LEMMA BestFacts ==
  ASSUME RegistryInv, NEW score \in Similarity
  PROVE  LET best == Rag!Best(score)
         IN /\ IsFiniteSet(best) /\ best \subseteq Rag!Candidate
            /\ \A a, b \in best : a.doc = b.doc => a = b
            /\ StrictOrder(best, Precedence(best, score))
            /\ \A p \in Rag!Live : \A k \in DOMAIN index[p[1]][p[2]] :
                 score[index[p[1]][p[2]][k]] >= Floor =>
                   \E b \in best : b.doc = p[1] /\ score[b.chunk] >= score[index[p[1]][p[2]][k]]
<1> DEFINE hits(p) == Rag!Hits(p[1], p[2], score)
           D == {q \in Rag!Live : hits(q) # {}}
           best == Rag!Best(score)
           f == [p \in D |-> Rag!BestOf(hits(p), score)]
<1>1. best = {Rag!BestOf(hits(p), score) : p \in D}
  BY DEF Rag!Best
<1>2. D \subseteq Rag!Live /\ D \in SUBSET (Documents \X Versions)
  BY DEF Rag!Live
<1>3. IsFiniteSet(D)
  <2> HIDE DEF D
  <2>1. IsFiniteSet(Documents \X Versions)
    BY RegistryFacts, FS_Product
  <2> QED  BY <1>2, <2>1, FS_Subset
<1>4. f \in Surjection(D, best)
  BY <1>1 DEF Surjection
<1>5. IsFiniteSet(best)
  <2> HIDE DEF D, best, f
  <2> QED  BY <1>3, <1>4, FS_Surjection
<1>6. \A p \in D : /\ Rag!BestOf(hits(p), score) \in Rag!Candidate /\ Rag!BestOf(hits(p), score).doc = p[1]
                   /\ \A h \in hits(p) : score[Rag!BestOf(hits(p), score).chunk] >= score[h.chunk]
  BY BestOfFacts
<1>7. \A p, q \in D : p[1] = q[1] => p = q
  <2> SUFFICES ASSUME NEW p \in D, NEW q \in D, p[1] = q[1]
               PROVE  p = q
    OBVIOUS
  <2>1. /\ p[1] \in Documents /\ p[2] \in Versions /\ p = <<p[1], p[2]>> /\ ActiveIn(registry, p[1], p[2])
        /\ q[2] \in Versions /\ q = <<q[1], q[2]>> /\ ActiveIn(registry, q[1], q[2])
    BY LiveFacts
  <2>2. p[2] = q[2]
    BY <2>1 DEF RegistryInv, TablesOK
  <2> QED  BY <2>1, <2>2
<1>8. \A p \in Rag!Live : \A k \in DOMAIN index[p[1]][p[2]] :
        score[index[p[1]][p[2]][k]] >= Floor =>
          \E b \in best : b.doc = p[1] /\ score[b.chunk] >= score[index[p[1]][p[2]][k]]
  <2> SUFFICES ASSUME NEW p \in Rag!Live, NEW k \in DOMAIN index[p[1]][p[2]],
                      score[index[p[1]][p[2]][k]] >= Floor
               PROVE  \E b \in best : b.doc = p[1] /\ score[b.chunk] >= score[index[p[1]][p[2]][k]]
    OBVIOUS
  <2>1. PICK h \in hits(p) : h.chunk = index[p[1]][p[2]][k]
    BY HitsFacts
  <2>2. p \in D
    BY <2>1
  <2> QED  BY <1>1, <1>6, <2>1, <2>2
<1> HIDE DEF D, best, hits
<1>9. best \subseteq Rag!Candidate /\ \A a, b \in best : a.doc = b.doc => a = b
  BY <1>1, <1>6, <1>7
<1>10. StrictOrder(best, Precedence(best, score))
  BY <1>9, PrecedenceStrict
<1> QED  BY <1>5, <1>8, <1>9, <1>10 DEF best

LEMMA RagCardinality ==
  ASSUME NEW S
  PROVE  Rag!Cardinality(S) = Cardinality(S)
BY DEF Rag!Cardinality, Cardinality

\* All of them are ranked.
LEMMA RankedFacts ==
  ASSUME NEW best, IsFiniteSet(best), NEW score \in Similarity, StrictOrder(best, Precedence(best, score))
  PROVE  LET ordered == Rag!Ranked(best, score)
             n == Cardinality(best)
         IN /\ n \in Nat /\ ordered \in [1..n -> best]
            /\ \A i, j \in 1..n : i < j => Rag!Before(ordered[i], ordered[j], score) /\ ordered[i] # ordered[j]
            /\ \A b \in best : \E i \in 1..n : ordered[i] = b
<1> DEFINE n == Cardinality(best)
           ordered == Rag!Ranked(best, score)
<1>1. PICK f : Lists(f, best, Precedence(best, score))
  BY FiniteLists
<1>2. f \in [1..n -> best] /\ \A i, j \in 1..n : i < j => Rag!Before(f[i], f[j], score)
  BY <1>1 DEF Lists, Precedence
<1>3. ordered = CHOOSE g \in [1..n -> best] : \A i, j \in DOMAIN g : i < j => Rag!Before(g[i], g[j], score)
  BY RagCardinality DEF Rag!Ranked
<1>4. ordered \in [1..n -> best] /\ \A i, j \in DOMAIN ordered : i < j => Rag!Before(ordered[i], ordered[j], score)
  <2> HIDE DEF n, ordered
  <2> QED  BY <1>2, <1>3
<1> HIDE DEF ordered
<1>5. ordered \in [1..n -> best] /\ \A i, j \in 1..n : i < j => Rag!Before(ordered[i], ordered[j], score)
  BY <1>4
<1>6. Lists(ordered, best, Precedence(best, score))
  BY <1>5 DEF Lists, Precedence
<1>7. /\ n \in Nat /\ ordered \in Injection(1..n, best) /\ ordered \in Surjection(1..n, best)
  BY <1>6, ListsAll
<1> HIDE DEF n
<1>8. \A i, j \in 1..n : i < j => ordered[i] # ordered[j]
  BY <1>7 DEF Injection, IsInjective
<1>9. \A b \in best : \E i \in 1..n : ordered[i] = b
  BY <1>7 DEF Surjection
<1> QED  BY <1>5, <1>7, <1>8, <1>9 DEF n, ordered

\* The candidates are of different documents, in order of score, and what is left out
\* does not beat them.
LEMMA CandidatesFacts ==
  ASSUME RegistryInv, NEW score \in Similarity
  PROVE  LET found == Rag!RankCandidates(score)
         IN /\ found \in Seq(Rag!Candidate)
            /\ \A i, j \in DOMAIN found : i < j =>
                 score[found[i].chunk] >= score[found[j].chunk] /\ found[i].doc # found[j].doc
            /\ \A p \in Rag!Live : \A k \in DOMAIN index[p[1]][p[2]] :
                 score[index[p[1]][p[2]][k]] >= Floor =>
                   \E i \in DOMAIN found :
                     score[found[i].chunk] >= score[index[p[1]][p[2]][k]] /\ (found[i].doc = p[1] \/ i = TopK)
<1> DEFINE best == Rag!Best(score)
           ordered == Rag!Ranked(best, score)
           n == Cardinality(best)
           m == IF n < TopK THEN n ELSE TopK
           found == Rag!RankCandidates(score)
<1>1. /\ IsFiniteSet(best) /\ best \subseteq Rag!Candidate
      /\ \A a, b \in best : a.doc = b.doc => a = b
      /\ StrictOrder(best, Precedence(best, score))
  BY BestFacts
<1>2. \A p \in Rag!Live : \A k \in DOMAIN index[p[1]][p[2]] :
        score[index[p[1]][p[2]][k]] >= Floor =>
          \E b \in best : b.doc = p[1] /\ score[b.chunk] >= score[index[p[1]][p[2]][k]]
  BY BestFacts
<1>3. found = SubSeq(ordered, 1, IF Len(ordered) < TopK THEN Len(ordered) ELSE TopK)
  BY DEF Rag!RankCandidates
<1> HIDE DEF best, found
<1>4. /\ n \in Nat /\ ordered \in [1..n -> best]
      /\ \A i, j \in 1..n : i < j => Rag!Before(ordered[i], ordered[j], score) /\ ordered[i] # ordered[j]
      /\ \A b \in best : \E i \in 1..n : ordered[i] = b
  BY <1>1, RankedFacts
<1>5. TopK \in Nat /\ TopK >= 1
  BY RegistryFacts
<1> HIDE DEF ordered, n
<1>6. ordered \in Seq(best) /\ Len(ordered) = n
  BY <1>4
<1>7. m \in Nat /\ m <= n /\ m <= TopK /\ (m = n \/ m = TopK)
  BY <1>4, <1>5
<1>8. found = SubSeq(ordered, 1, m)
  BY <1>3, <1>6
<1> HIDE DEF m
<1>9. DOMAIN found = 1..m /\ (\A i \in 1..m : found[i] = ordered[i] /\ i \in 1..n)
  <2>1. \A i \in 1..m : i \in 1..n
    BY <1>4, <1>7
  <2>2. /\ Len(SubSeq(ordered, 1, m)) = m
        /\ \A i \in 1..m : SubSeq(ordered, 1, m)[i] = ordered[i]
    BY <1>4, <1>6, <1>7
  <2>3. SubSeq(ordered, 1, m) \in Seq(best)
    BY <1>4, <1>6, <1>7
  <2> QED  BY <1>7, <1>8, <2>1, <2>2, <2>3
<1>10. found \in Seq(Rag!Candidate)
  <2>1. \A i \in 1..m : found[i] \in Rag!Candidate
    BY <1>1, <1>4, <1>9
  <2>2. SubSeq(ordered, 1, m) \in Seq(best)
    BY <1>4, <1>6, <1>7
  <2> QED  BY <1>1, <1>8, <2>2
<1>11. \A b \in best : score[b.chunk] \in Nat
  BY <1>1, RegistryFacts DEF Rag!Candidate, Similarity
<1>12. \A i, j \in 1..n : i < j => score[ordered[i].chunk] >= score[ordered[j].chunk]
  <2> SUFFICES ASSUME NEW i \in 1..n, NEW j \in 1..n, i < j
               PROVE  score[ordered[i].chunk] >= score[ordered[j].chunk]
    OBVIOUS
  <2>1. ordered[i] \in best /\ ordered[j] \in best /\ Rag!Before(ordered[i], ordered[j], score)
    BY <1>4
  <2> QED  BY <1>11, <2>1 DEF Rag!Before
<1>13. \A i, j \in DOMAIN found : i < j =>
         score[found[i].chunk] >= score[found[j].chunk] /\ found[i].doc # found[j].doc
  <2> SUFFICES ASSUME NEW i \in 1..m, NEW j \in 1..m, i < j
               PROVE  score[found[i].chunk] >= score[found[j].chunk] /\ found[i].doc # found[j].doc
    BY <1>9
  <2>1. found[i] = ordered[i] /\ found[j] = ordered[j] /\ i \in 1..n /\ j \in 1..n
    BY <1>9
  <2>2. ordered[i] # ordered[j] /\ ordered[i] \in best /\ ordered[j] \in best
    BY <1>4, <2>1
  <2> QED  BY <1>1, <1>12, <2>1, <2>2
<1>14. ASSUME NEW p \in Rag!Live, NEW k \in DOMAIN index[p[1]][p[2]], score[index[p[1]][p[2]][k]] >= Floor
       PROVE  \E i \in DOMAIN found :
                score[found[i].chunk] >= score[index[p[1]][p[2]][k]] /\ (found[i].doc = p[1] \/ i = TopK)
  <2> DEFINE c == score[index[p[1]][p[2]][k]]
  <2>1. c \in Nat
    BY LiveFacts, RegistryFacts DEF Similarity
  <2>2. PICK b \in best : b.doc = p[1] /\ score[b.chunk] >= c
    BY <1>2, <1>14
  <2> HIDE DEF c
  <2>3. PICK j \in 1..n : ordered[j] = b
    BY <1>4
  <2>4. CASE j <= m
    <3>1. j \in 1..m
      BY <1>7, <2>3, <2>4
    <3> QED  BY <1>9, <2>2, <2>3, <3>1 DEF c
  <2>5. CASE m < j
    <3>1. m = TopK /\ m \in 1..m /\ m \in 1..n
      BY <1>4, <1>5, <1>7, <2>3, <2>5
    <3>2. score[ordered[m].chunk] >= score[b.chunk] /\ ordered[m] \in best
      BY <1>4, <1>12, <2>3, <2>5, <3>1
    <3>3. score[ordered[m].chunk] >= c
      BY <1>11, <2>1, <2>2, <3>2
    <3> QED  BY <1>9, <3>1, <3>3 DEF c
  <2>6. j <= m \/ m < j
    BY <1>4, <1>7, <2>3
  <2> QED  BY <2>4, <2>5, <2>6
<1> QED  BY <1>10, <1>13, <1>14 DEF found


-----------------------------------------------------------------------------
(* RagRegistry: the searches, and what a step may do.                       *)

QuietStates == [pc : {"idle", "unavailable"}, score : {None}, found : {<<>>}, evidence : {{}}]

LEMMA QuietShape ==
  /\ Rag!Quiet \in SearchStates /\ Rag!Quiet.pc = "idle"
  /\ LET q == [Rag!Quiet EXCEPT !.pc = "unavailable"]
     IN q \in SearchStates /\ q.pc = "unavailable" /\ q.evidence = {}
<1>1. Rag!Quiet \in QuietStates /\ Rag!Quiet.pc = "idle"
  BY DEF Rag!Quiet, QuietStates
<1>2. \A a \in QuietStates : LET q == [a EXCEPT !.pc = "unavailable"]
                             IN q \in QuietStates /\ q.pc = "unavailable"
  BY DEF QuietStates
<1>3. \A a \in QuietStates : a \in SearchStates /\ a.evidence = {}
  <2> DEFINE Scored == [Rag!Chunks -> Scores] \cup {None}
             Found == Seq(Rag!Candidate)
             Shown == SUBSET Rag!Entry
             No == {}
             Empty == <<>>
  <2>1. None \in Scored /\ Empty \in Found /\ No \in Shown
    OBVIOUS
  <2>2. /\ SearchStates = [pc : {"idle", "found", "answered", "unavailable"}, score : Scored, found : Found,
                           evidence : Shown]
        /\ QuietStates = [pc : {"idle", "unavailable"}, score : {None}, found : {Empty}, evidence : {No}]
    BY DEF SearchStates, QuietStates
  <2> HIDE DEF Scored, Found, Shown, No, Empty
  <2>3. \A a \in QuietStates : a \in SearchStates /\ a.evidence = No
    BY <2>1, <2>2
  <2> QED  BY <2>3 DEF No
<1> QED  BY <1>1, <1>2, <1>3

LEMMA AnsweredSearchShape ==
  ASSUME NEW q \in SearchStates, NEW evidence \in SUBSET Rag!Entry
  PROVE  LET new == [q EXCEPT !.pc = "answered", !.evidence = evidence]
         IN new \in SearchStates /\ new.pc = "answered" /\ new.evidence = evidence
BY DEF SearchStates

LEMMA SearchFacts ==
  ASSUME RagTypeOK, NEW s \in Searches
  PROVE  /\ search[s] \in SearchStates /\ search[s].found \in Seq(Rag!Candidate)
         /\ \A c \in {search[s].found[i] : i \in DOMAIN search[s].found} : c \in Rag!Candidate
<1>1. search[s] \in SearchStates /\ search[s].found \in Seq(Rag!Candidate)
  BY DEF RagTypeOK, SearchStates
<1> QED  BY <1>1

LEMMA SearchMoves ==
  ASSUME RegistryInv, NEW s \in Searches, NEW q \in SearchStates, search' = [search EXCEPT ![s] = q],
         UNCHANGED <<registry, index, held, writer>>
  PROVE  RegistryInv' /\ search'[s] = q /\ \A t \in Searches : t # s => search'[t] = search[t]
BY DEF RegistryInv, RagTypeOK, WritersOK

\* A search that finds has the best candidates of what is live.
LEMMA ProposeStep ==
  ASSUME RegistryInv, NEW s \in Searches, Rag!Propose(s)
  PROVE  /\ RegistryInv' /\ UNCHANGED <<registry, index>>
         /\ \A t \in Searches : search'[t].evidence \subseteq search[t].evidence
         /\ \A t \in Searches : t # s => search'[t] = search[t]
         /\ \E score \in Similarity : search'[s].score = score /\ search'[s].found = Rag!RankCandidates(score)
<1>1. /\ UNCHANGED <<registry, index, held, writer>>
      /\ \E score \in Similarity :
           search' = [search EXCEPT ![s] = [pc |-> "found", score |-> score,
                                            found |-> Rag!RankCandidates(score), evidence |-> {}]]
  BY DEF Rag!Propose, Similarity
<1>2. PICK score \in Similarity :
        search' = [search EXCEPT ![s] = [pc |-> "found", score |-> score,
                                         found |-> Rag!RankCandidates(score), evidence |-> {}]]
  BY <1>1
<1> DEFINE found == Rag!RankCandidates(score)
           q == [pc |-> "found", score |-> score, found |-> found, evidence |-> {}]
<1>3. found \in Seq(Rag!Candidate)
  BY CandidatesFacts
<1> HIDE DEF found
<1>4. q \in SearchStates /\ q.score = score /\ q.found = found /\ q.evidence = {}
  BY <1>3 DEF SearchStates, Similarity
<1>5. search' = [search EXCEPT ![s] = q]
  BY <1>2 DEF found
<1> HIDE DEF q
<1>6. RegistryInv' /\ search'[s] = q /\ \A t \in Searches : t # s => search'[t] = search[t]
  BY <1>1, <1>4, <1>5, SearchMoves
<1>7. \A t \in Searches : search'[t].evidence \subseteq search[t].evidence
  BY <1>4, <1>6
<1> QED  BY <1>1, <1>4, <1>6, <1>7 DEF found

\* An admitted candidate is the active version of its document, with its text.
LEMMA AdmittedIsActive ==
  ASSUME RegistryInv, NEW c \in Rag!Candidate, NEW ids, ids \subseteq Documents,
         Rag!Admissible(c, Rag!Current(ids))
  PROVE  registry[c.doc][c.version] = [content |-> c.content, active |-> TRUE]
<1> DEFINE reads == Rag!Current(ids)
<1>1. PICK read \in reads : {r \in reads : r.doc = c.doc} = {read}
               /\ read.version = c.version /\ read.content = c.content
  BY DEF Rag!Admissible
<1>2. read.doc = c.doc
  BY <1>1
<1>3. PICK p \in ids \X Versions : Rag!IsActive(p[1], p[2])
               /\ read = [doc |-> p[1], version |-> p[2], content |-> registry[p[1]][p[2]].content,
                          chunks |-> index[p[1]][p[2]]]
  BY DEF Rag!Current
<1>4. p[1] = c.doc /\ p[2] = c.version /\ registry[p[1]][p[2]].content = c.content
  BY <1>1, <1>2, <1>3
<1>5. p[1] \in Documents /\ p[2] \in Versions
  BY <1>3
<1> QED  BY <1>3, <1>4, <1>5, ActiveFacts DEF RegistryInv

\* A search that answers has what is active.
LEMMA CheckRegistryStep ==
  ASSUME RegistryInv, NEW s \in Searches, Rag!CheckRegistry(s)
  PROVE  /\ RegistryInv' /\ UNCHANGED <<registry, index>>
         /\ \A t \in Searches : search'[t].pc = "found" => search[t].pc = "found"
         /\ \A t \in Searches : \A e \in search'[t].evidence \ search[t].evidence :
              registry[e.doc][e.version] = [content |-> e.content, active |-> TRUE]
<1> DEFINE found == {search[s].found[i] : i \in DOMAIN search[s].found}
           ids == {d.doc : d \in found}
           evidence == {[doc |-> c.doc, version |-> c.version, content |-> c.content] : c \in found}
           admitted == \A c \in found : Rag!Admissible(c, Rag!Current(ids))
           failed == [Rag!Quiet EXCEPT !.pc = "unavailable"]
           answer == [Rag!Quiet EXCEPT !.pc = "answered", !.evidence = evidence]
<1>1. /\ search[s].pc = "found" /\ UNCHANGED <<registry, index, held, writer>>
      /\ search' = [search EXCEPT ![s] = IF admitted THEN answer ELSE failed]
  BY DEF Rag!CheckRegistry
<1>2. \A c \in found : c \in Rag!Candidate
  BY SearchFacts DEF RegistryInv
<1> HIDE DEF found
<1>3. ids \subseteq Documents
  BY <1>2 DEF Rag!Candidate
<1>4. \A c \in found : [doc |-> c.doc, version |-> c.version, content |-> c.content] \in Rag!Entry
  BY <1>2 DEF Rag!Candidate, Rag!Entry
<1>5. evidence \in SUBSET Rag!Entry
  BY <1>4
<1>6. ASSUME admitted, NEW e \in evidence
      PROVE  registry[e.doc][e.version] = [content |-> e.content, active |-> TRUE]
  <2>1. PICK c \in found : e = [doc |-> c.doc, version |-> c.version, content |-> c.content]
    OBVIOUS
  <2>2. e.doc = c.doc /\ e.version = c.version /\ e.content = c.content
    BY <2>1
  <2>3. Rag!Admissible(c, Rag!Current(ids))
    BY <1>6
  <2> HIDE DEF ids
  <2>4. registry[c.doc][c.version] = [content |-> c.content, active |-> TRUE]
    BY <1>2, <1>3, <2>3, AdmittedIsActive
  <2> QED  BY <2>2, <2>4
<1> HIDE DEF evidence, admitted
<1>7. answer \in SearchStates /\ answer.pc = "answered" /\ answer.evidence = evidence
  BY <1>5, QuietShape, AnsweredSearchShape
<1>8. failed \in SearchStates /\ failed.pc = "unavailable" /\ failed.evidence = {}
  BY QuietShape
<1> HIDE DEF answer, failed
<1> DEFINE q == IF admitted THEN answer ELSE failed
<1>9. q \in SearchStates /\ q.pc # "found" /\ \A e \in q.evidence : admitted /\ e \in evidence
  BY <1>7, <1>8
<1>10. search' = [search EXCEPT ![s] = q]
  BY <1>1
<1> HIDE DEF q
<1>11. RegistryInv' /\ search'[s] = q /\ \A t \in Searches : t # s => search'[t] = search[t]
  BY <1>1, <1>9, <1>10, SearchMoves
<1>12. \A t \in Searches : \A e \in search'[t].evidence \ search[t].evidence :
         registry[e.doc][e.version] = [content |-> e.content, active |-> TRUE]
  BY <1>6, <1>9, <1>11
<1> QED  BY <1>1, <1>9, <1>11, <1>12

LEMMA SearchFailsStep ==
  ASSUME RegistryInv, NEW s \in Searches, Rag!SearchFails(s)
  PROVE  /\ RegistryInv' /\ UNCHANGED <<registry, index>>
         /\ \A t \in Searches : search'[t].pc = "found" => search[t].pc = "found"
         /\ \A t \in Searches : search'[t].evidence \subseteq search[t].evidence
<1> DEFINE failed == [Rag!Quiet EXCEPT !.pc = "unavailable"]
<1>1. search' = [search EXCEPT ![s] = failed] /\ UNCHANGED <<registry, index, held, writer>>
  BY DEF Rag!SearchFails
<1>2. failed \in SearchStates /\ failed.pc = "unavailable" /\ failed.evidence = {}
  BY QuietShape
<1> HIDE DEF failed
<1>3. RegistryInv' /\ search'[s] = failed /\ \A t \in Searches : t # s => search'[t] = search[t]
  BY <1>1, <1>2, SearchMoves
<1> QED  BY <1>1, <1>2, <1>3


\* What a transaction does to the index is a publication, and no search moves.
LEMMA WriterMoves ==
  ASSUME RegistryInv, NEW w \in Writers,
         \/ Rag!StartRegister(w) \/ Rag!RegisterEntry(w) \/ Rag!CommitRegister(w)
         \/ Rag!StartIngest(w) \/ Rag!IngestRead(w) \/ Rag!Publish(w) \/ Rag!WriterFails(w)
  PROVE  /\ RegistryInv' /\ search' = search
         /\ \A d \in Documents, v \in Versions :
              index'[d][v] # index[d][v] => Rag!IsActive(d, v) /\ registry' = registry
<1>1. CASE Rag!StartRegister(w) \/ Rag!StartIngest(w)
  <2>1. UNCHANGED <<registry, index, search>>
    BY <1>1 DEF Rag!StartRegister, Rag!StartIngest, Rag!Start
  <2> QED  BY <1>1, <2>1, StartWriterStep
<1>2. CASE Rag!RegisterEntry(w)
  <2>1. UNCHANGED <<registry, index, search>>
    BY <1>2 DEF Rag!RegisterEntry
  <2> QED  BY <1>2, <2>1, RegisterEntryStep
<1>3. CASE Rag!CommitRegister(w)
  <2>1. UNCHANGED <<index, search>>
    BY <1>3 DEF Rag!CommitRegister
  <2> QED  BY <1>3, <2>1, CommitRegisterStep
<1>4. CASE Rag!IngestRead(w)
  <2>1. UNCHANGED <<registry, index, search>>
    BY <1>4 DEF Rag!IngestRead
  <2> QED  BY <1>4, <2>1, IngestReadStep
<1>5. CASE Rag!Publish(w)
  <2> DEFINE e == Head(writer[w].todo)
  <2>1. UNCHANGED <<registry, search>>
    BY <1>5 DEF Rag!Publish
  <2>2. /\ e.doc \in Documents /\ e.version \in Versions /\ e.content \in Contents
        /\ registry[e.doc][e.version] = ActiveRow(e)
        /\ \A d \in Documents, v \in Versions :
             index'[d][v] = IF d = e.doc /\ v = e.version THEN Cut[e.content] ELSE index[d][v]
    BY <1>5, PublishFacts
  <2> HIDE DEF e
  <2>3. ActiveRow(e) \in Rag!Row /\ ActiveRow(e).active
    BY <2>2 DEF ActiveRow, Rag!Row
  <2>4. Rag!IsActive(e.doc, e.version)
    BY <2>2, <2>3, RegistryFacts DEF Rag!IsActive
  <2>5. \A d \in Documents, v \in Versions : index'[d][v] # index[d][v] => d = e.doc /\ v = e.version
    BY <2>2
  <2> QED  BY <1>5, <2>1, <2>4, <2>5, PublishStep
<1>6. CASE Rag!WriterFails(w)
  <2>1. Rag!EndTransaction(w) /\ UNCHANGED <<registry, index, search>>
    BY <1>6 DEF Rag!WriterFails
  <2> QED  BY <2>1, WriterFailsStep
<1> QED  BY <1>1, <1>2, <1>3, <1>4, <1>5, <1>6

\* What a step may do to the index.
Indexes ==
  \A d \in Documents, v \in Versions :
    index'[d][v] # index[d][v] => Rag!IsActive(d, v) /\ registry' = registry

\* What it may give a search as evidence.
Answers ==
  \A s \in Searches : \A e \in search'[s].evidence \ search[s].evidence :
    registry'[e.doc][e.version] = [content |-> e.content, active |-> TRUE]

\* What it may give a search as candidates.
Ranks ==
  \A s \in Searches : search[s].pc = "idle" /\ search'[s].pc = "found" =>
    LET found == search'[s].found
        score(i) == search'[s].score[found[i].chunk]
    IN /\ \A i, j \in DOMAIN found : i < j => score(i) >= score(j) /\ found[i].doc # found[j].doc
       /\ \A p \in Rag!Live : \A k \in DOMAIN index[p[1]][p[2]] :
            LET c == search'[s].score[index[p[1]][p[2]][k]]
            IN c >= Floor =>
                 \E i \in DOMAIN found : score(i) >= c /\ (found[i].doc = p[1] \/ i = TopK)

LEMMA ProposeRanks ==
  ASSUME RegistryInv, NEW s \in Searches, Rag!Propose(s)
  PROVE  Ranks
<1>1. PICK score \in Similarity : search'[s].score = score /\ search'[s].found = Rag!RankCandidates(score)
  BY ProposeStep
<1>2. \A t \in Searches : t # s => search'[t] = search[t]
  BY ProposeStep
<1> DEFINE found == Rag!RankCandidates(score)
<1>3. /\ \A i, j \in DOMAIN found : i < j =>
           score[found[i].chunk] >= score[found[j].chunk] /\ found[i].doc # found[j].doc
      /\ \A p \in Rag!Live : \A k \in DOMAIN index[p[1]][p[2]] :
           score[index[p[1]][p[2]][k]] >= Floor =>
             \E i \in DOMAIN found :
               score[found[i].chunk] >= score[index[p[1]][p[2]][k]] /\ (found[i].doc = p[1] \/ i = TopK)
  BY CandidatesFacts
<1>4. search'[s].score = score /\ search'[s].found = found
  BY <1>1
<1> HIDE DEF found
<1>5. \A t \in Searches : search[t].pc = "idle" /\ search'[t].pc = "found" => t = s
  BY <1>2
<1> QED  BY <1>3, <1>4, <1>5 DEF Ranks

LEMMA RegistryStep ==
  ASSUME RegistryInv, Rag!Next
  PROVE  RegistryInv' /\ Indexes /\ Answers /\ Ranks
<1>1. ASSUME NEW w \in Writers,
             \/ Rag!StartRegister(w) \/ Rag!RegisterEntry(w) \/ Rag!CommitRegister(w)
             \/ Rag!StartIngest(w) \/ Rag!IngestRead(w) \/ Rag!Publish(w) \/ Rag!WriterFails(w)
      PROVE  RegistryInv' /\ Indexes /\ Answers /\ Ranks
  <2>1. RegistryInv' /\ search' = search /\ Indexes
    BY <1>1, WriterMoves DEF Indexes
  <2> QED  BY <2>1 DEF Answers, Ranks
<1>2. ASSUME NEW s \in Searches, Rag!Propose(s)
      PROVE  RegistryInv' /\ Indexes /\ Answers /\ Ranks
  <2>1. /\ RegistryInv' /\ UNCHANGED <<registry, index>>
        /\ \A t \in Searches : search'[t].evidence \subseteq search[t].evidence
    BY <1>2, ProposeStep
  <2> QED  BY <1>2, <2>1, ProposeRanks DEF Indexes, Answers
<1>3. ASSUME NEW s \in Searches, Rag!CheckRegistry(s)
      PROVE  RegistryInv' /\ Indexes /\ Answers /\ Ranks
  <2>1. /\ RegistryInv' /\ UNCHANGED <<registry, index>>
        /\ \A t \in Searches : search'[t].pc = "found" => search[t].pc = "found"
        /\ \A t \in Searches : \A e \in search'[t].evidence \ search[t].evidence :
             registry[e.doc][e.version] = [content |-> e.content, active |-> TRUE]
    BY <1>3, CheckRegistryStep
  <2> QED  BY <2>1 DEF Indexes, Answers, Ranks
<1>4. ASSUME NEW s \in Searches, Rag!SearchFails(s)
      PROVE  RegistryInv' /\ Indexes /\ Answers /\ Ranks
  <2>1. /\ RegistryInv' /\ UNCHANGED <<registry, index>>
        /\ \A t \in Searches : search'[t].pc = "found" => search[t].pc = "found"
        /\ \A t \in Searches : search'[t].evidence \subseteq search[t].evidence
    BY <1>4, SearchFailsStep
  <2> QED  BY <2>1 DEF Indexes, Answers, Ranks
<1> QED  BY <1>1, <1>2, <1>3, <1>4 DEF Rag!Next

LEMMA RegistryInit ==
  ASSUME Rag!Init
  PROVE  RegistryInv
<1>1. /\ registry = [d \in Documents |-> [v \in Versions |-> None]]
      /\ index = [d \in Documents |-> [v \in Versions |-> None]]
      /\ held = [d \in Documents |-> None]
      /\ writer = [w \in Writers |-> Rag!Idle] /\ search = [s \in Searches |-> Rag!Quiet]
  BY DEF Rag!Init
<1>2. RagTypeOK
  BY <1>1, IdleWriterShape, QuietShape DEF RagTypeOK, RegistryTables, IndexTables, LockTables
<1>3. TablesOK(registry, index)
  BY <1>1 DEF TablesOK, ActiveIn
<1>4. \A w \in Writers : w # None
  BY RegistryFacts
<1>5. WritersOK
  BY <1>1, <1>4, IdleWriterShape DEF WritersOK, WriterOK
<1> QED  BY <1>2, <1>3, <1>5 DEF RegistryInv

\* Of two registrations, the one whose next document the other holds is further on
\* in the order of ids.
LEMMA LocksOrdered ==
  ASSUME RegistryInv
  PROVE  Rag!NoLockCycle
<1> SUFFICES ASSUME NEW w \in Writers, NEW x \in Writers, Rag!Waits(w), Rag!Waits(x),
                    held[Head(writer[w].todo).doc] = x, held[Head(writer[x].todo).doc] = w
             PROVE  FALSE
  BY DEF Rag!NoLockCycle
<1> DEFINE a == Head(writer[w].todo).doc
           b == Head(writer[x].todo).doc
<1>1. RagTypeOK /\ writer[w].todo # <<>> /\ writer[x].todo # <<>>
  BY DEF RegistryInv, Rag!Waits
<1>2. writer[w].todo \in Seq(Rag!Entry) /\ writer[x].todo \in Seq(Rag!Entry)
  BY <1>1, WriterFacts
<1>3. /\ a \in Documents /\ a = writer[w].todo[1].doc /\ 1 \in DOMAIN writer[w].todo
      /\ b \in Documents /\ b = writer[x].todo[1].doc /\ 1 \in DOMAIN writer[x].todo
  BY <1>1, <1>2, HeadFacts
<1>4. held[a] = x /\ held[b] = w
  OBVIOUS
<1> HIDE DEF a, b
<1>5. writer[w].pc = "register" /\ writer[x].pc = "register"
  BY <1>3, <1>4 DEF RegistryInv, WritersOK, WriterOK, Rag!Waits
<1>6. RegisterOK(w, writer[w], registry, held) /\ RegisterOK(x, writer[x], registry, held)
  BY <1>5 DEF RegistryInv, WritersOK, WriterOK
<1>7. Rank[b] < Rank[a] /\ Rank[a] < Rank[b]
  BY <1>3, <1>4, <1>6 DEF RegisterOK
<1> QED  BY <1>3, <1>7, RegistryFacts

LEMMA IndexCanonical ==
  ASSUME RegistryInv
  PROVE  Rag!IndexIsCanonical
<1>1. RagTypeOK /\ TablesOK(registry, index)
  BY DEF RegistryInv
<1>2. ASSUME NEW d \in Documents
      PROVE  Rag!Cardinality({v \in Versions : Rag!IsActive(d, v)}) <= 1
  <2> DEFINE S == {v \in Versions : Rag!IsActive(d, v)}
  <2>1. \A v, x \in S : v = x
    BY <1>1, ActiveFacts DEF TablesOK
  <2>2. S = {} \/ \E v : S = {v}
    BY <2>1
  <2> HIDE DEF S
  <2>3. Cardinality(S) = 0 \/ Cardinality(S) = 1
    BY <2>2, FS_EmptySet, FS_Singleton
  <2> QED  BY <2>3, RagCardinality DEF S
<1>3. \A d \in Documents, v \in Versions : index[d][v] # None =>
        registry[d][v] # None /\ index[d][v] = Cut[registry[d][v].content]
  BY <1>1 DEF TablesOK
<1> QED  BY <1>2, <1>3 DEF Rag!IndexIsCanonical

\* The index holds only the canonical generation of registered versions, at most one
\* version of a document is active, and no two registrations wait for each other's
\* locks (fastapi.ts, rag_service); a generation is published only while its version is
\* active, a search answers with what is active when the registry is read, and its
\* candidates are the best of what was live.
THEOREM RegistryHolds == Rag!Spec => RegistryIsSound
<1>1. Rag!Init => RegistryInv
  BY RegistryInit
<1>2. RegistryInv /\ [Rag!Next]_Rag!vars => RegistryInv'
  <2>1. RegistryInv /\ UNCHANGED Rag!vars => RegistryInv'
    BY DEF Rag!vars, RegistryInv, RagTypeOK, WritersOK
  <2> QED  BY <2>1, RegistryStep
<1>3. RegistryInv /\ Rag!Next => Indexes /\ Answers /\ Ranks
  BY RegistryStep
<1>4. RegistryInv => Rag!IndexIsCanonical /\ Rag!NoLockCycle
  BY IndexCanonical, LocksOrdered
<1>5. Rag!Spec => [](Rag!IndexIsCanonical /\ Rag!NoLockCycle)
  BY <1>1, <1>2, <1>4, PTL DEF Rag!Spec
<1>6. Rag!Spec => [][Indexes]_Rag!vars /\ [][Answers]_Rag!vars /\ [][Ranks]_Rag!vars
  BY <1>1, <1>2, <1>3, PTL DEF Rag!Spec
<1>7. /\ [][Indexes]_Rag!vars => Rag!IndexedWhileActive
      /\ [][Answers]_Rag!vars => Rag!EvidenceIsCurrent
      /\ [][Ranks]_Rag!vars => Rag!RankingIsBest
  BY DEF Indexes, Answers, Ranks, Rag!IndexedWhileActive, Rag!EvidenceIsCurrent, Rag!RankingIsBest
<1> QED  BY <1>5, <1>6, <1>7 DEF RegistryIsSound
===============================================================================
