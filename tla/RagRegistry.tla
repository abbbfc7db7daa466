---------------------------- MODULE RagRegistry ----------------------------
(* Approved documents and their search index.  The Node application keeps   *)
(* the registry of document versions (src/src/retrieval/fastapi.ts); the    *)
(* Python service (src/ai-service/rag_service) fills the index with one     *)
(* generation of chunks per version and proposes candidates for a query;    *)
(* the Node application checks every candidate against the registry before  *)
(* it becomes evidence.  Both write to one database, in transactions that   *)
(* hold an advisory lock per document.                                      *)
(*                                                                          *)
(* One store and one embedding profile are modelled: every statement of the *)
(* code names one scope and one profile.  A digest stands for its text.     *)
EXTENDS Naturals, Sequences, FiniteSets

CONSTANTS Documents,   \* document ids
          Versions,    \* version names
          Contents,    \* texts
          Rank,        \* the order of document ids and of chunk ids
          Cut,         \* the chunks of a text
          Batches,     \* what operators register: sequences of entries
          Writers,     \* registrations and ingestions
          Searches,    \* customer searches
          Scores,      \* similarities of a chunk to a query
          Floor,       \* the relevance floor of the profile
          TopK,        \* candidates of an answer (3 in the code)
          None,        \* an absent row or holder
          MaxTries     \* bound: the transactions a writer starts

VARIABLES registry,    \* rag_documents: the committed row of each version
          index,       \* rag_chunks: the committed generation of each version
          held,        \* the holder of each document's advisory lock
          writer,      \* the transactions under way
          search,      \* the searches under way
          tries        \* bound: the transactions each writer has started

vars == <<registry, index, held, writer, search, tries>>

Entry == [doc : Documents, version : Versions, content : Contents]
Row == [content : Contents, active : BOOLEAN]
Chunks == UNION {{Cut[x][i] : i \in DOMAIN Cut[x]} : x \in Contents}

\* What the service proposes: a chunk and the version it was cut from.
Candidate == [doc : Documents, version : Versions, content : Contents, chunk : Chunks]

\* todo: the entries still to do; puts: the rows the transaction has written.
Idle == [pc |-> "idle", todo |-> <<>>, puts |-> {}]
Quiet == [pc |-> "idle", score |-> None, found |-> <<>>, evidence |-> {}]

IsActive(d, v) == registry[d][v] # None /\ registry[d][v].active
Live == {p \in Documents \X Versions : IsActive(p[1], p[2]) /\ index[p[1]][p[2]] # None}

Init ==
  /\ registry = [d \in Documents |-> [v \in Versions |-> None]]
  /\ index = [d \in Documents |-> [v \in Versions |-> None]]
  /\ held = [d \in Documents |-> None]
  /\ writer = [w \in Writers |-> Idle]
  /\ search = [s \in Searches |-> Quiet]
  /\ tries = [w \in Writers |-> 0]

---------------------------------------------------------------------------
(* Writing.                                                                 *)

\* Mutant: the entries stay in the order of the file they were read from.
AsGiven(batch) == batch

\* A batch has entries, and one for each document it is about.
Registrable(batch) ==
  batch # <<>> /\ \A i, j \in DOMAIN batch : batch[i].doc = batch[j].doc => i = j

\* The entries of a batch in the order of their ids.
Sorted(batch) ==
  CHOOSE todo \in [DOMAIN batch -> {batch[i] : i \in DOMAIN batch}] :
    \A i, j \in DOMAIN batch : i < j => Rank[todo[i].doc] < Rank[todo[j].doc]

Start(w, pc, todo) ==
  /\ writer[w].pc = "idle" /\ tries[w] < MaxTries
  /\ writer' = [writer EXCEPT ![w] = [pc |-> pc, todo |-> todo, puts |-> {}]]
  /\ tries' = [tries EXCEPT ![w] = @ + 1]
  /\ UNCHANGED <<registry, index, held, search>>

StartRegister(w) == \E batch \in Batches : Registrable(batch) /\ Start(w, "register", Sorted(batch))

StartIngest(w) == \E batch \in Batches : \E i \in DOMAIN batch : Start(w, "ingest", <<batch[i]>>)

\* The lock of a document can be taken; it is held to the end of the
\* transaction.
LockFree(d, w) == held[d] = None

Waits(w) == writer[w].pc \in {"register", "ingest"} /\ writer[w].todo # <<>>

\* The transaction of w ends; without a COMMIT it leaves nothing.
EndTransaction(w) ==
  /\ writer' = [writer EXCEPT ![w] = Idle]
  /\ held' = [d \in Documents |-> IF held[d] = w THEN None ELSE held[d]]

\* The caller aborts, the deadline passes, an embedding or a statement
\* fails, the process dies: the transaction is rolled back.
WriterFails(w) ==
  /\ writer[w].pc # "idle"
  /\ EndTransaction(w)
  /\ UNCHANGED <<registry, index, search, tries>>

\* One entry of a registration: a version that is there must be the same
\* entry and still active, a new one retires the active one.
RegisterEntry(w) ==
  /\ writer[w].pc = "register" /\ Waits(w)
  /\ LET e == Head(writer[w].todo)
         row == registry[e.doc][e.version]
         retired == {[doc |-> e.doc, version |-> v, content |-> registry[e.doc][v].content, active |-> FALSE] :
                       v \in {x \in Versions : IsActive(e.doc, x)}}
         inserted == [doc |-> e.doc, version |-> e.version, content |-> e.content, active |-> TRUE]
     IN /\ LockFree(e.doc, w)
        /\ \/ /\ row \notin {None, [content |-> e.content, active |-> TRUE]}
              /\ EndTransaction(w)
           \/ /\ row \in {None, [content |-> e.content, active |-> TRUE]}
              /\ held' = [held EXCEPT ![e.doc] = w]
              /\ writer' = [writer EXCEPT ![w].todo = Tail(@),
                              ![w].puts = IF row = None THEN @ \cup retired \cup {inserted} ELSE @]
  /\ UNCHANGED <<registry, index, search, tries>>

CommitRegister(w) ==
  /\ writer[w].pc = "register" /\ writer[w].todo = <<>>
  /\ registry' = [d \in Documents |-> [v \in Versions |->
       IF \E p \in writer[w].puts : p.doc = d /\ p.version = v
         THEN LET p == CHOOSE p \in writer[w].puts : p.doc = d /\ p.version = v
              IN [content |-> p.content, active |-> p.active]
         ELSE registry[d][v]]]
  /\ EndTransaction(w)
  /\ UNCHANGED <<index, search, tries>>

\* An ingestion has the lock and reads the document and its chunks.  A
\* document that is absent, retired or different is refused; a generation
\* that is there is left alone.
IngestRead(w) ==
  /\ writer[w].pc = "ingest" /\ Waits(w)
  /\ LET e == Head(writer[w].todo)
         wanted == registry[e.doc][e.version] = [content |-> e.content, active |-> TRUE]
     IN /\ LockFree(e.doc, w)
        /\ \/ /\ ~wanted \/ index[e.doc][e.version] # None
              /\ EndTransaction(w)
           \/ /\ wanted /\ index[e.doc][e.version] = None
              /\ held' = [held EXCEPT ![e.doc] = w]
              /\ writer' = [writer EXCEPT ![w].pc = "embed"]
  /\ UNCHANGED <<registry, index, search, tries>>

\* What a publication inserts: every chunk, embedded before the first insert.
Generation(e) == Cut[e.content]

Publish(w) ==
  /\ writer[w].pc = "embed"
  /\ LET e == Head(writer[w].todo)
     IN index' = [index EXCEPT ![e.doc][e.version] = Generation(e)]
  /\ EndTransaction(w)
  /\ UNCHANGED <<registry, search, tries>>

---------------------------------------------------------------------------
(* Searching.                                                               *)

Hit(d, v, i) == [doc |-> d, version |-> v, content |-> registry[d][v].content, chunk |-> index[d][v][i]]
Hits(d, v, score) == {Hit(d, v, i) : i \in {j \in DOMAIN index[d][v] : score[index[d][v][j]] >= Floor}}

\* The better score first, then the smaller id.
Before(a, b, score) ==
  \/ score[a.chunk] > score[b.chunk]
  \/ /\ score[a.chunk] = score[b.chunk]
     /\ \/ Rank[a.doc] < Rank[b.doc]
        \/ a.doc = b.doc /\ Rank[a.chunk] < Rank[b.chunk]

\* The chunk that stands for its document.
BestOf(hits, score) == CHOOSE h \in hits : \A g \in hits : h = g \/ Before(h, g, score)

Best(score) ==
  {BestOf(Hits(p[1], p[2], score), score) : p \in {q \in Live : Hits(q[1], q[2], score) # {}}}

Ranked(best, score) ==
  CHOOSE f \in [1..Cardinality(best) -> best] : \A i, j \in DOMAIN f : i < j => Before(f[i], f[j], score)

RankCandidates(score) ==
  LET ordered == Ranked(Best(score), score)
  IN SubSeq(ordered, 1, IF Len(ordered) < TopK THEN Len(ordered) ELSE TopK)

\* The service answers from one snapshot of the active, indexed versions.
Propose(s) ==
  /\ search[s].pc = "idle"
  /\ \E score \in [Chunks -> Scores] :
       search' = [search EXCEPT ![s] = [pc |-> "found", score |-> score,
                                        found |-> RankCandidates(score), evidence |-> {}]]
  /\ UNCHANGED <<registry, index, held, writer, tries>>

\* PostgresRagRegistry.current: the active versions of the documents asked for, and
\* what is indexed of them, in one statement.
Current(ids) ==
  {[doc |-> p[1], version |-> p[2], content |-> registry[p[1]][p[2]].content, chunks |-> index[p[1]][p[2]]] :
     p \in {q \in ids \X Versions : IsActive(q[1], q[2])}}

\* The generation is the whole one that is cut from the text.
Canonical(read) == read.chunks = Cut[read.content]

\* The candidate is the one active version of its document, with its very text, and
\* its chunk one of that.
Admissible(c, reads) ==
  \E read \in reads :
    /\ {r \in reads : r.doc = c.doc} = {read}
    /\ read.version = c.version /\ read.content = c.content
    /\ Canonical(read)
    /\ \E i \in DOMAIN read.chunks : read.chunks[i] = c.chunk

\* The registry is read, uncached, and each candidate held against it: one
\* that fails fails the search.  The evidence is the whole document.
CheckRegistry(s) ==
  /\ search[s].pc = "found"
  /\ LET found == {search[s].found[i] : i \in DOMAIN search[s].found}
     IN search' = [search EXCEPT ![s] =
          IF \A c \in found : Admissible(c, Current({d.doc : d \in found}))
            THEN [Quiet EXCEPT !.pc = "answered",
                               !.evidence = {[doc |-> c.doc, version |-> c.version, content |-> c.content] : c \in found}]
            ELSE [Quiet EXCEPT !.pc = "unavailable"]]
  /\ UNCHANGED <<registry, index, held, writer, tries>>

\* The caller's signal, the deadline, the health check, an answer that is
\* not well formed.
SearchFails(s) ==
  /\ search[s].pc = "found"
  /\ search' = [search EXCEPT ![s] = [Quiet EXCEPT !.pc = "unavailable"]]
  /\ UNCHANGED <<registry, index, held, writer, tries>>

Next ==
  \/ \E w \in Writers :
       \/ StartRegister(w) \/ RegisterEntry(w) \/ CommitRegister(w)
       \/ StartIngest(w) \/ IngestRead(w) \/ Publish(w) \/ WriterFails(w)
  \/ \E s \in Searches : Propose(s) \/ CheckRegistry(s) \/ SearchFails(s)

Spec == Init /\ [][Next]_vars

---------------------------------------------------------------------------

\* Every generation in the index is the canonical one of a registered
\* version, whoever aborted, failed or ran again, and every version was
\* active when it was indexed: no document has two active versions.
IndexIsCanonical ==
  \A d \in Documents :
    /\ \A v \in Versions : index[d][v] # None =>
         registry[d][v] # None /\ index[d][v] = Cut[registry[d][v].content]
    /\ Cardinality({v \in Versions : IsActive(d, v)}) <= 1

\* No two transactions wait for each other's locks, so registrations of
\* overlapping batches never fail each other.
NoLockCycle ==
  \A w, x \in Writers :
    ~(w # x /\ Waits(w) /\ Waits(x)
        /\ held[Head(writer[w].todo).doc] = x /\ held[Head(writer[x].todo).doc] = w)

\* A step that indexes a version finds it active: a registration that
\* retires a version and an ingestion of it never overlap.
IndexedWhileActive ==
  [][\A d \in Documents, v \in Versions :
       index'[d][v] # index[d][v] => IsActive(d, v) /\ registry' = registry]_vars

\* What a search returns is, for each document, the version that is active
\* when the registry is read, however often it changed since the service
\* looked; and a version that changed never reaches the customer.
EvidenceIsCurrent ==
  [][\A s \in Searches : \A e \in search'[s].evidence \ search[s].evidence :
       registry'[e.doc][e.version] = [content |-> e.content, active |-> TRUE]]_vars

\* The candidates are the best of what is live when the service reads it: at
\* most one chunk of a document, in order of score, and a chunk that meets
\* the floor and is left out does not beat the one that stands for its
\* document or, when the answer is full, the last one of the answer.
RankingIsBest ==
  [][\A s \in Searches : search[s].pc = "idle" /\ search'[s].pc = "found" =>
       LET found == search'[s].found
           score(i) == search'[s].score[found[i].chunk]
       IN /\ \A i, j \in DOMAIN found : i < j => score(i) >= score(j) /\ found[i].doc # found[j].doc
          /\ \A p \in Live : \A k \in DOMAIN index[p[1]][p[2]] :
               LET c == search'[s].score[index[p[1]][p[2]][k]]
               IN c >= Floor =>
                    \E i \in DOMAIN found :
                      score(i) >= c /\ (found[i].doc = p[1] \/ i = TopK)]_vars
=============================================================================
