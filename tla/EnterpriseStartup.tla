------------------------- MODULE EnterpriseStartup -------------------------
(* Processes of the enterprise application on one database                  *)
(* (src/src/enterprise/application.ts): configuration, migrations, the seed *)
(* of the demo identities, serving, the queue of the demo runtime, closing. *)
(* A process may die between any two statements and be started again; a     *)
(* second one may start at any time.                                        *)
EXTENDS Naturals, Sequences, FiniteSets

CONSTANTS Processes,    \* application processes on the database
          Requests,     \* support requests
          Migrations,   \* how many migrations there are
          Setup,        \* the tenants and stores of the demo graph, in order
          People,       \* the people of the demo graph, in order
          Newcomer,     \* the one a legacy graph lacks (Ava)
          Environments, \* the configurations operators start with
          None,
          MaxStarts     \* bound: starts of each process

VARIABLES applied,      \* how often each migration has run and committed
          ledger,       \* the migrations the ledger lists
          ledgerLock,   \* the process that holds the ledger
          graph,        \* identity rows: what is there, each autocommitted
          moved,        \* people whose membership an operator changed
          proc,         \* the processes
          queue,        \* each process's runs, in the order of the chain
          script,       \* the responses the demo provider of a process holds
          request,      \* the requests
          starts        \* bound: starts so far

store == <<applied, ledger, ledgerLock, graph, moved>>
serving == <<queue, script, request>>
vars == <<applied, ledger, ledgerLock, graph, moved, proc, queue, script, request, starts>>

Everyone == {People[i] : i \in DOMAIN People}
UserOf(p) == <<"user", p>>
MemberOf(p) == <<"membership", p>>

\* The rows of a new graph in the order they are created.
SeedOrder ==
  Setup \o [i \in DOMAIN People |-> UserOf(People[i])]
        \o [i \in DOMAIN People |-> MemberOf(People[i])]
SeedRows == {SeedOrder[i] : i \in DOMAIN SeedOrder}

Off == [pc |-> "off", at |-> 0, seen |-> {}, todo |-> <<>>, runs |-> FALSE, env |-> None]
Unsent == [pc |-> "unsent", at |-> None, connected |-> TRUE]

\* A new database, one an earlier release left (its first migration and the
\* graph without the newcomer), or one this release left.
Init ==
  /\ \/ ledger = {} /\ graph = {}
     \/ ledger = {1} /\ graph = SeedRows \ {UserOf(Newcomer), MemberOf(Newcomer)}
     \/ ledger = 1..Migrations /\ graph = SeedRows
  /\ applied = [m \in 1..Migrations |-> IF m \in ledger THEN 1 ELSE 0]
  /\ ledgerLock = None /\ moved = {}
  /\ proc = [p \in Processes |-> Off]
  /\ queue = [p \in Processes |-> <<>>]
  /\ script = [p \in Processes |-> None]
  /\ request = [r \in Requests |-> Unsent]
  /\ starts = [p \in Processes |-> 0]

---------------------------------------------------------------------------
(* Configuration.                                                           *)

\* An environment names the modes, where vector search runs, and the private
\* corpus: its entries' statuses and scopes.
VectorAllowed(env) ==
  env.retrieval = "vector" =>
    /\ env.knowledge # "private"
    /\ env.classification = "public-synthetic"
    /\ env.endpoint = "private"

\* A private corpus is answered by the real runtime only; all its entries
\* are approved and of one store.
PrivateAllowed(env) ==
  env.knowledge = "private" =>
    /\ env.runtime = "pi-real"
    /\ env.corpus # {}
    /\ \A e \in env.corpus : e.status = "approved" /\ e.scope # None
    /\ Cardinality({e.scope : e \in env.corpus}) = 1

Configured(env) == VectorAllowed(env) /\ PrivateAllowed(env)

\* The real runtime asks its provider for credentials and the model before
\* anything is opened, and a refusal ends the start.
Bootstraps(env) == IF env.runtime = "pi-real" THEN {TRUE, FALSE} ELSE {TRUE}

---------------------------------------------------------------------------
(* Starting.                                                                *)

Boot(p) ==
  /\ proc[p].pc = "off" /\ starts[p] < MaxStarts
  /\ starts' = [starts EXCEPT ![p] = @ + 1]
  /\ \E env \in Environments :
     \E bootstrapped \in Bootstraps(env) :
       proc' = IF Configured(env) /\ bootstrapped
                 THEN [proc EXCEPT ![p] = [Off EXCEPT !.pc = "migrate", !.at = 1, !.env = env]]
                 ELSE proc
  /\ UNCHANGED <<store, serving>>

\* Mutant: the ledger is not locked.
LedgerUnlocked(p) == TRUE

LedgerFree(p) == ledgerLock = None

\* BEGIN, the ledger table, its lock, and what it says of the migration.
BeginMigration(p) ==
  /\ proc[p].pc = "migrate"
  /\ LedgerFree(p)
  /\ ledgerLock' = p
  /\ proc' = [proc EXCEPT ![p].pc = "apply", ![p].runs = proc[p].at \notin ledger]
  /\ UNCHANGED <<applied, ledger, graph, moved, serving, starts>>

\* The migration and its ledger row commit together, or were there.
CommitMigration(p) ==
  /\ proc[p].pc = "apply"
  /\ LET m == proc[p].at
     IN /\ applied' = [applied EXCEPT ![m] = IF proc[p].runs THEN @ + 1 ELSE @]
        /\ ledger' = ledger \cup {m}
        /\ proc' = [proc EXCEPT ![p].pc = IF m = Migrations THEN "read" ELSE "migrate",
                                ![p].at = IF m = Migrations THEN 1 ELSE m + 1]
  /\ ledgerLock' = IF ledgerLock = p THEN None ELSE ledgerLock
  /\ UNCHANGED <<graph, moved, serving, starts>>

\* Everyone but the newcomer is there.
LegacyComplete(seen) == Everyone \ {Newcomer} \subseteq seen

\* The process ends: its transaction is rolled back, its clients see an
\* error.  A failed start closes runtime and pool the same way.
Ends(p) ==
  /\ proc' = [proc EXCEPT ![p] = Off]
  /\ ledgerLock' = IF ledgerLock = p THEN None ELSE ledgerLock
  /\ queue' = [queue EXCEPT ![p] = <<>>]
  /\ script' = [script EXCEPT ![p] = None]
  /\ request' = [r \in Requests |->
       IF request[r].at = p /\ request[r].pc # "done" THEN [request[r] EXCEPT !.pc = "done"] ELSE request[r]]
  /\ UNCHANGED <<applied, ledger, graph, moved, starts>>

\* The people are looked up one by one.
ReadUser(p) ==
  /\ proc[p].pc = "read" /\ proc[p].at <= Len(People)
  /\ LET who == People[proc[p].at]
     IN proc' = [proc EXCEPT ![p].at = @ + 1,
                             ![p].seen = IF UserOf(who) \in graph THEN @ \cup {who} ELSE @]
  /\ UNCHANGED <<store, serving, starts>>

\* Nobody: a new graph.  Somebody missing who is not the newcomer: refused.
Judge(p) ==
  /\ proc[p].pc = "read" /\ proc[p].at > Len(People)
  /\ \/ /\ proc[p].seen = {}
        /\ proc' = [proc EXCEPT ![p].pc = "create", ![p].todo = SeedOrder]
        /\ UNCHANGED <<store, serving, starts>>
     \/ /\ proc[p].seen # {} /\ LegacyComplete(proc[p].seen)
        /\ proc' = [proc EXCEPT ![p].pc = "check", ![p].at = 1]
        /\ UNCHANGED <<store, serving, starts>>
     \/ /\ proc[p].seen # {} /\ ~LegacyComplete(proc[p].seen)
        /\ Ends(p)

\* Each one who is there must have exactly the expected membership; a
\* missing newcomer is then added.
CheckMember(p) ==
  /\ proc[p].pc = "check"
  /\ LET who == People[proc[p].at]
         last == proc[p].at = Len(People)
     IN \/ /\ who \notin proc[p].seen
           /\ proc' = [proc EXCEPT ![p].pc = "create", ![p].todo = <<UserOf(who), MemberOf(who)>>]
           /\ UNCHANGED <<store, serving, starts>>
        \/ /\ who \in proc[p].seen /\ MemberOf(who) \in graph /\ who \notin moved
           /\ proc' = [proc EXCEPT ![p].pc = IF last THEN "register" ELSE "check",
                                   ![p].at = IF last THEN 1 ELSE @ + 1]
           /\ UNCHANGED <<store, serving, starts>>
        \/ /\ who \in proc[p].seen /\ (MemberOf(who) \notin graph \/ who \in moved)
           /\ Ends(p)

\* A membership references its user, its tenant and its store.
References(row) ==
  UNION {{UserOf(who)} \cup {Setup[i] : i \in DOMAIN Setup} : who \in {w \in Everyone : row = MemberOf(w)}}

\* The keys of the identity tables.
Insertable(row) == row \notin graph /\ References(row) \subseteq graph

Insert(row) == graph' = graph \cup {row}

\* One INSERT, committed on its own; a row that is there is a unique violation.
CreateRow(p) ==
  /\ proc[p].pc = "create"
  /\ LET row == Head(proc[p].todo)
         rest == Tail(proc[p].todo)
     IN \/ /\ Insertable(row)
           /\ Insert(row)
           /\ proc' = [proc EXCEPT ![p].todo = rest, ![p].pc = IF rest = <<>> THEN "register" ELSE "create"]
           /\ UNCHANGED <<applied, ledger, ledgerLock, moved, serving, starts>>
        \/ /\ ~Insertable(row)
           /\ Ends(p)

\* Mutant: the server is up before the demo provider is registered.
ServeUnregistered(p) ==
  /\ proc[p].pc = "register"
  /\ proc' = [proc EXCEPT ![p].pc = "serving"]
  /\ UNCHANGED <<store, script, queue, request, starts>>

\* Knowledge registered (a private corpus, within its deadline), the runtime
\* made, the port bound.
Serve(p) ==
  /\ proc[p].pc = "register"
  /\ proc' = [proc EXCEPT ![p].pc = "serving"]
  /\ script' = [script EXCEPT ![p] = "registered"]
  /\ UNCHANGED <<store, queue, request, starts>>

\* A statement fails, the deadline of the registration passes, the port is
\* taken, the process is killed.
Dies(p) == proc[p].pc # "off" /\ Ends(p)

\* An operator changes a membership that is there.
MoveMember(who) ==
  /\ MemberOf(who) \in graph /\ who \notin moved
  /\ moved' = moved \cup {who}
  /\ UNCHANGED <<applied, ledger, ledgerLock, graph, proc, serving, starts>>

---------------------------------------------------------------------------
(* Serving and closing.                                                     *)

Receive(r, p) ==
  /\ proc[p].pc = "serving" /\ request[r].pc = "unsent"
  /\ request' = [request EXCEPT ![r] = [pc |-> "received", at |-> p, connected |-> TRUE]]
  /\ UNCHANGED <<store, proc, queue, script, starts>>

\* Only the demo runtime has a provider to share, and a chain of runs.
Demo(p) == proc[p].env.runtime = "deterministic"

\* The session and the conversation have been read; the run joins the chain.
Enqueue(r) ==
  /\ request[r].pc = "received"
  /\ LET p == request[r].at IN
     queue' = [queue EXCEPT ![p] = IF Demo(p) THEN Append(@, r) ELSE @]
  /\ request' = [request EXCEPT ![r].pc = "queued"]
  /\ UNCHANGED <<store, proc, script, starts>>

MyTurn(r, p) == Head(queue[p]) = r

\* The demo provider gets the responses for this request, and the run starts.
RunStarts(r) ==
  /\ request[r].pc = "queued"
  /\ LET p == request[r].at IN
     /\ Demo(p) => MyTurn(r, p)
     /\ script' = [script EXCEPT ![p] = IF Demo(p) /\ @ # None THEN r ELSE @]
  /\ request' = [request EXCEPT ![r].pc = "running"]
  /\ UNCHANGED <<store, proc, queue, starts>>

RunEnds(r) ==
  /\ request[r].pc = "running"
  /\ LET p == request[r].at IN
     queue' = [queue EXCEPT ![p] = IF Demo(p) THEN Tail(@) ELSE @]
  /\ request' = [request EXCEPT ![r].pc = "done"]
  /\ UNCHANGED <<store, proc, script, starts>>

\* The client goes away; its handler goes on.
Disconnect(r) ==
  /\ request[r].pc \in {"received", "queued", "running"} /\ request[r].connected
  /\ request' = [request EXCEPT ![r].connected = FALSE]
  /\ UNCHANGED <<store, proc, queue, script, starts>>

Signal(p) ==
  /\ proc[p].pc = "serving"
  /\ proc' = [proc EXCEPT ![p].pc = "closing"]
  /\ UNCHANGED <<store, serving, starts>>

\* server.close has called back: no connection is left.
ServerClosed(p) ==
  \A r \in Requests : request[r].at = p /\ request[r].connected => request[r].pc = "done"

CloseServer(p) ==
  /\ proc[p].pc = "closing"
  /\ ServerClosed(p)
  /\ proc' = [proc EXCEPT ![p].pc = "draining", ![p].seen = {queue[p][i] : i \in DOMAIN queue[p]}]
  /\ UNCHANGED <<store, serving, starts>>

\* The demo runtime awaits the chain as it was when the server had closed and
\* unregisters its provider; the real runtime has nothing to close.
CloseRuntime(p) ==
  /\ proc[p].pc = "draining"
  /\ Demo(p) => \A r \in proc[p].seen : request[r].pc = "done"
  /\ script' = [script EXCEPT ![p] = None]
  /\ proc' = [proc EXCEPT ![p].pc = "ending"]
  /\ UNCHANGED <<store, queue, request, starts>>

\* pool.end(), and the process is gone.
EndPool(p) == proc[p].pc = "ending" /\ Ends(p)

Next ==
  \/ \E p \in Processes :
       \/ Boot(p) \/ BeginMigration(p) \/ CommitMigration(p)
       \/ ReadUser(p) \/ Judge(p) \/ CheckMember(p) \/ CreateRow(p) \/ Serve(p) \/ Dies(p)
       \/ Signal(p) \/ CloseServer(p) \/ CloseRuntime(p) \/ EndPool(p)
       \/ \E r \in Requests : Receive(r, p)
  \/ \E r \in Requests : Enqueue(r) \/ RunStarts(r) \/ RunEnds(r) \/ Disconnect(r)
  \/ \E who \in Everyone : MoveMember(who)

Spec == Init /\ [][Next]_vars

---------------------------------------------------------------------------

Up(p) == proc[p].pc \in {"serving", "closing"}

\* Every migration has run as often as the ledger says, at most once, and
\* never before the ones it builds on, however many processes start at once
\* and wherever they die.
MigratedOnce ==
  /\ \A m \in 1..Migrations : applied[m] = (IF m \in ledger THEN 1 ELSE 0)
  /\ \A m \in ledger : 1..m \subseteq ledger

\* Who serves has the whole schema and the whole identity graph under it: a
\* graph another start left half made, or is still making, is never served.
ServesOnlyComplete ==
  \A p \in Processes : Up(p) => ledger = 1..Migrations /\ graph = SeedRows

\* The demo provider answers a run with the responses set for that very run,
\* and a client that is still there never has its run on a provider that was
\* unregistered.
RunsOnOwnScript ==
  \A r \in Requests :
    request[r].pc = "running" /\ Demo(request[r].at) =>
      \/ script[request[r].at] = r
      \/ ~request[r].connected /\ script[request[r].at] = None

\* A private corpus is never served by the demo runtime, never sent to the
\* hosted embeddings, and never mixes stores or holds unapproved entries.
PrivateStaysPrivate ==
  \A p \in Processes : Up(p) /\ proc[p].env.knowledge = "private" =>
    LET env == proc[p].env
    IN /\ env.runtime = "pi-real" /\ env.retrieval = "lexical"
       /\ \E scope \in {e.scope : e \in env.corpus} :
            scope # None /\ \A e \in env.corpus : e = [status |-> "approved", scope |-> scope]
=============================================================================
