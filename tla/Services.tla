------------------------------ MODULE Services ------------------------------
(***************************************************************************)
(* Six parts of the system beside the customer turn, with the constants    *)
(* of all: the way from a session to a run, the caches of access tokens,   *)
(* the admission of evidence, the semantic selector, the application's     *)
(* startup, and the registry of documents.  They share no state, nor do    *)
(* the parts of Verdicts, which judge the system.                          *)
(***************************************************************************)
EXTENDS Verdicts

CONSTANTS
  User, Scope, Home, Customer, Conversation, Token,  \* EnterpriseAccess
  SupportRequest,          \* its requests
  NewRows, Faulty, MaxChanges, MaxBoots,
  Call, Clients, Timeout, Life,                      \* AccessTokens
  MaxTokens, MaxTime, MaxRevoked,
  Search, TurnRequest, Libraries, Query,             \* EvidenceAdmission
  Offers,                                            \* SemanticSelector
  Requests, Migrations, Setup, People, Newcomer, Environments, MaxStarts,  \* EnterpriseStartup
  Documents, Versions, Contents, Rank, Cut, Batches, Writers, Searches,  \* RagRegistry
  Scores, Floor, TopK, MaxTries

VARIABLES
  memberships, sessions, lapsed, conversations, remembered, up, processes, requests, changes,
  client, cached, calls, now, issued, revoked,
  asking, library, lenient, lookup, grounding, routing, safety, decision,
  offered, invocation,
  applied, ledger, ledgerLock, graph, moved, app, queue, script, request, boots,
  registry, index, held, writer, search, tries

accessVars == <<memberships, sessions, lapsed, conversations, remembered, up, processes, requests, changes>>
tokenVars == <<client, cached, calls, now, issued, revoked>>
evidenceVars == <<asking, library, lenient, lookup, grounding, routing, safety, decision>>
selectorVars == <<offered, invocation>>
startupVars == <<applied, ledger, ledgerLock, graph, moved, app, queue, script, request, boots>>
ragVars == <<registry, index, held, writer, search, tries>>

Access == INSTANCE EnterpriseAccess WITH Request <- SupportRequest, boots <- processes
Tokens == INSTANCE AccessTokens
Evidence == INSTANCE EvidenceAdmission WITH Request <- TurnRequest, request <- asking, search <- lookup
Selector == INSTANCE SemanticSelector
Startup == INSTANCE EnterpriseStartup WITH proc <- app, starts <- boots
Rag == INSTANCE RagRegistry

-----------------------------------------------------------------------------
(* What the proofs assume.                                                 *)

\* The rows of a conversation and of the identities are no NULLs.
ConversationRows == [scope : Scope, customer : Customer, pi : Nat \cup {None}]
ASSUME AccessAssumption ==
  /\ Home \in [User -> Scope]
  /\ \A rows \in NewRows : rows \subseteq [scope : Scope, role : {"agent", "supervisor", "admin"}]
  /\ None \notin User \cup Token \cup ConversationRows \cup [scope : Scope, customer : Customer]

\* The windows of the caches, 60 seconds and five minutes, are more than two
\* timeouts of a request.
ASSUME TokensAssumption ==
  /\ Timeout \in Nat /\ Life \in Nat
  /\ Clients \subseteq [window : Nat, retries : BOOLEAN]
  /\ \A c \in Clients : c.window >= 2 * Timeout
  /\ None \notin [token : Nat \ {0}, expires : Nat] \cup {"token", "ok", "rejected"}

ASSUME EvidenceAssumption ==
  \A entries \in Libraries : IsFiniteSet(entries) /\ IsFiniteSet(UNION {e.options : e \in entries})

\* The candidates of a case.
Candidates == UNION {{offer[i] : i \in DOMAIN offer} : offer \in Offers}
ASSUME SelectorAssumption ==
  /\ Offers \subseteq Seq(Candidates)
  /\ None \notin Candidates \cup {"selected", "timeout"}

\* The newcomer is the last of the people (DEMO_USERS in demo-data.ts), and the rows
\* that are set up before them are of other tables.  What a configuration says of its
\* corpus is parsed: its scopes are finitely many.
ASSUME StartupAssumption ==
  /\ Migrations \in Nat \ {0}
  /\ People \in Seq({People[i] : i \in DOMAIN People}) /\ People # <<>>
  /\ \A i \in DOMAIN People : People[i] = Newcomer => i = Len(People)
  /\ Setup \in Seq({Setup[i] : i \in DOMAIN Setup})
  /\ \A i \in DOMAIN Setup : Setup[i][1] \notin {"user", "membership"}
  /\ \A env \in Environments :
       /\ env.retrieval \in {"lexical", "vector"}
       /\ IsFiniteSet({e.scope : e \in env.corpus})
       /\ env.corpus \subseteq [status : {e.status : e \in env.corpus}, scope : {e.scope : e \in env.corpus}]
  /\ None \notin Processes \cup Requests \cup {"registered"}

\* Ids of documents and names of versions are at most 200 characters long
\* (004_job_ready_rag.sql), and an order of ids is strict.
ASSUME RegistryAssumption ==
  /\ IsFiniteSet(Documents) /\ IsFiniteSet(Versions)
  /\ Cut \in [Contents -> Seq(Rag!Chunks)]
  /\ Rank \in [Documents \cup Rag!Chunks -> Nat]
  /\ \A d, e \in Documents : Rank[d] = Rank[e] => d = e
  /\ \A c, k \in Rag!Chunks : Rank[c] = Rank[k] => c = k
  /\ Batches \subseteq Seq(Rag!Entry)
  /\ Scores \subseteq Nat /\ TopK \in Nat \ {0}
  /\ None \notin Writers \cup Rag!Row \cup {Cut[x] : x \in Contents}

-----------------------------------------------------------------------------
\* A request acts with an authority its user alone gave it since it was sent, and
\* runs of the conversations and customers of its own store.
RequestsActForTheirUser == Access!AuthorityIsRecent /\ Access!RunsInOwnScope

\* A token from a cache is refused only if it was revoked, a refused call is acted
\* on at most once, and it gives up for a token only after one handed out for it.
TokensAreAlive == Tokens!CachedTokensAreAlive /\ Tokens!ActedOnOnce /\ Tokens!GivesUpLate

\* What a turn answers from is one entry of its own scope that counts, and a risk is
\* answered only when no approved entry for it asks for a qualified human.  What the
\* semantic selector selects was answered in time, and is what the provider named.
EvidenceIsAdmitted ==
  Evidence!ObjectionsStand /\ Evidence!OneEntryAuthorizes /\ Selector!SelectionStands

\* Processes that start together, die anywhere and start again run each migration
\* once, and who serves has the whole schema, the whole identity graph and a
\* configuration under which a private corpus stays private.
ServesOnlySound == Startup!MigratedOnce /\ Startup!ServesOnlyComplete /\ Startup!PrivateStaysPrivate

\* The demo provider answers a run with the responses set for that run, through
\* the chain of runs, clients that leave and a shutdown in between.
RunsOnOwnScript == Startup!RunsOnOwnScript

\* The index holds only the canonical generation of registered versions, at most
\* one version of a document is active, and no two registrations wait for each
\* other's locks, whoever aborted, failed or ran again.  A generation is published
\* only while its version is active, a search answers with what is active when the
\* registry is read, and its candidates are the best of what was live: retiring a
\* version never leaks into an answer.
RegistryIsSound ==
  /\ [](Rag!IndexIsCanonical /\ Rag!NoLockCycle)
  /\ Rag!IndexedWhileActive /\ Rag!EvidenceIsCurrent /\ Rag!RankingIsBest
=============================================================================
