----------------------------- MODULE SparseIndex -----------------------------
(***************************************************************************)
(* The local BM25 index (retrieval/sparse.py): a SQLite file that several  *)
(* processes write, one at a time under a file lock, and several threads   *)
(* read.  A write commits a new generation of the whole corpus and makes   *)
(* it active in one transaction, then removes the others in a second one.  *)
(* The id of a generation is the fingerprint of its content, so that a     *)
(* generation is modelled by its content: what is indexed of each document.*)
(* A write may fail and its process may die between any two transactions.  *)
(***************************************************************************)
EXTENDS Naturals, FiniteSets

CONSTANTS
    Docs,           \* <<knowledge base, document>>
    Versions,       \* chunk records of one document
    Absent,         \* no record of a document
    NoGeneration,   \* no active_generation_id in sparse_meta
    Writers,        \* the ingestion worker, commands of the CLI
    Readers,        \* threads of the API process, the verify stage, the CLI
    ReaderOps,      \* what they do: "search", "count", "audit"
    Connection,     \* the SQLite connection each reader uses
    MaxWrites,      \* bound: write operations
    MaxReads,       \* bound: read operations
    MaxFaults       \* bound: failing transactions and deaths of a writer

ASSUME SparseAssumption ==
    /\ Absent \notin Versions
    /\ NoGeneration \notin [Docs -> Versions \cup {Absent}]
    /\ "none" \notin Writers
    /\ ReaderOps \subseteq {"search", "count", "audit"}
    /\ DOMAIN Connection = Readers
    /\ MaxWrites \in Nat /\ MaxReads \in Nat /\ MaxFaults \in Nat

VARIABLES
    db,         \* the committed tables: generations and the active one
    holder,     \* the writer that holds the file lock
    wpc, doing, \* per writer: where it is, the operation
    next,       \* per writer: the corpus to commit
    replaced,   \* per writer: previous_active was not None
    rpc, asked, \* per reader: where it is, the operation and its document
    got,        \* per reader: the generation it read, the rows it found, its answer
    txn,        \* per connection: the read transaction
    seen,       \* history, per reader: every active content since it started
    crossed,    \* history: the readers that met another one on their connection
    writes, reads, faults

writerVars == <<holder, wpc, doing, next, replaced>>
readerVars == <<rpc, asked, got, txn>>
vars == <<db, writerVars, readerVars, seen, crossed, writes, reads, faults>>

Contents == [Docs -> Versions \cup {Absent}]
Nothing == [d \in Docs |-> Absent]
Idle == [kind |-> "none"]
Connections == {Connection[r] : r \in Readers}
Closed == [open |-> FALSE, taken |-> FALSE, view |-> [rows |-> {}, active |-> NoGeneration]]

\* What _active_records returns: empty when no generation is active.
Active(base) == IF base.active = NoGeneration THEN Nothing ELSE base.active
Rows(base, g) == IF g \in base.rows THEN g ELSE Nothing

Init ==
    /\ db = [rows |-> {}, active |-> NoGeneration]
    /\ holder = "none"
    /\ wpc = [w \in Writers |-> "idle"] /\ doing = [w \in Writers |-> Idle]
    /\ next = [w \in Writers |-> Nothing] /\ replaced = [w \in Writers |-> FALSE]
    /\ rpc = [r \in Readers |-> "idle"] /\ asked = [r \in Readers |-> Idle]
    /\ got = [r \in Readers |-> [active |-> NoGeneration, rows |-> Nothing, answer |-> "none"]]
    /\ txn = [c \in Connections |-> Closed]
    /\ seen = [r \in Readers |-> {}] /\ crossed = {}
    /\ writes = 0 /\ reads = 0 /\ faults = 0

-----------------------------------------------------------------------------
(* Writers *)

Operations == [kind : {"replace"}, doc : Docs, version : Versions]
                \cup [kind : {"delete"}, doc : Docs]
                \cup [kind : {"build"}, corpus : Contents \ {Nothing}]

Release(w) ==
    /\ holder' = "none"
    /\ wpc' = [wpc EXCEPT ![w] = "idle"] /\ doing' = [doing EXCEPT ![w] = Idle]
    /\ next' = [next EXCEPT ![w] = Nothing] /\ replaced' = [replaced EXCEPT ![w] = FALSE]

\* Mutant: the lock is not tested.
LockAnyway(w) ==
    /\ wpc[w] = "idle"
    /\ writes < MaxWrites /\ writes' = writes + 1
    /\ \E o \in Operations : doing' = [doing EXCEPT ![w] = o]
    /\ holder' = w
    /\ wpc' = [wpc EXCEPT ![w] = "read"]
    /\ UNCHANGED <<db, next, replaced, readerVars, reads, faults>>

\* A second writer does not wait: it gets SparseIndexBusyError, which changes nothing.
Lock(w) ==
    /\ wpc[w] = "idle" /\ holder = "none"
    /\ writes < MaxWrites /\ writes' = writes + 1
    /\ \E o \in Operations : doing' = [doing EXCEPT ![w] = o]
    /\ holder' = w
    /\ wpc' = [wpc EXCEPT ![w] = "read"]
    /\ UNCHANGED <<db, next, replaced, readerVars, reads, faults>>

\* The corpus of the new generation: the active one with the document changed.
Corpus(o) ==
    CASE o.kind = "replace" -> [Active(db) EXCEPT ![o.doc] = o.version]
      [] o.kind = "delete"  -> [Active(db) EXCEPT ![o.doc] = Absent]
      [] o.kind = "build"   -> o.corpus

\* Mutant: a document that has records is not replaced.
UnneededReplace(o) == o.kind # "build" /\ (o.kind = "replace" <=> Active(db)[o.doc] # Absent)

\* delete_document returns at once when there is nothing to remove.
Unneeded(o) == o.kind = "delete" /\ Active(db)[o.doc] = Absent

Read(w) ==
    /\ wpc[w] = "read"
    /\ IF Unneeded(doing[w])
       THEN Release(w)
       ELSE /\ next' = [next EXCEPT ![w] = Corpus(doing[w])]
            /\ replaced' = [replaced EXCEPT ![w] = db.active # NoGeneration]
            /\ wpc' = [wpc EXCEPT ![w] = "commit"]
            /\ UNCHANGED <<holder, doing>>
    /\ UNCHANGED <<db, readerVars, writes, reads, faults>>

\* One transaction: the rows of the generation and the active pointer.
Commit(w) ==
    /\ wpc[w] = "commit"
    /\ db' = [rows |-> db.rows \cup {next[w]}, active |-> next[w]]
    /\ wpc' = [wpc EXCEPT ![w] = "clean"]
    /\ UNCHANGED <<holder, doing, next, replaced, readerVars, writes, reads, faults>>

\* The second transaction, which leaves this generation only; the lock goes.
Clean(w) ==
    /\ wpc[w] = "clean"
    /\ db' = IF replaced[w] THEN [db EXCEPT !.rows = @ \cap {next[w]}] ELSE db
    /\ Release(w)
    /\ UNCHANGED <<readerVars, writes, reads, faults>>

\* A transaction rolls back (the first: the call fails; the second: cleanup_failed),
\* or the process dies: either way the lock is released.
Fail(w) ==
    /\ wpc[w] # "idle"
    /\ faults < MaxFaults /\ faults' = faults + 1
    /\ Release(w)
    /\ UNCHANGED <<db, readerVars, writes, reads>>

-----------------------------------------------------------------------------
(* Readers *)

Goto(r, l) == rpc' = [rpc EXCEPT ![r] = l]
Answer(r, a) == got' = [got EXCEPT ![r].answer = a]
Txn(r) == txn[Connection[r]]

\* What a SELECT of the reader sees: the database, or inside a transaction the
\* snapshot the first SELECT took.
View(r) == IF Txn(r).taken THEN Txn(r).view ELSE db
Select(r) ==
    txn' = IF Txn(r).open /\ ~Txn(r).taken
           THEN [txn EXCEPT ![Connection[r]] = [open |-> TRUE, taken |-> TRUE, view |-> db]]
           ELSE txn

Ask(r, o) ==
    /\ rpc[r] = "idle"
    /\ reads < MaxReads /\ reads' = reads + 1
    /\ asked' = [asked EXCEPT ![r] = o]
    /\ Goto(r, IF o.kind = "search" THEN "begin" ELSE "pointer")
    /\ UNCHANGED <<db, writerVars, got, txn, writes, faults>>

\* Mutant: the search reads without a transaction.
BeginUnprotected(r) ==
    /\ rpc[r] = "begin"
    /\ Goto(r, "pointer") /\ UNCHANGED <<got, txn>>
    /\ UNCHANGED <<db, writerVars, asked, writes, reads, faults>>

\* _reader_snapshot: BEGIN DEFERRED.  Inside a transaction of another thread on
\* the same connection it fails, and the handler rolls that transaction back.
BeginSearch(r) ==
    /\ rpc[r] = "begin"
    /\ IF Txn(r).open
       THEN /\ txn' = [txn EXCEPT ![Connection[r]] = Closed]
            /\ Answer(r, "refused") /\ Goto(r, "done")
       ELSE /\ txn' = [txn EXCEPT ![Connection[r]].open = TRUE]
            /\ Goto(r, "pointer") /\ UNCHANGED got
    /\ UNCHANGED <<db, writerVars, asked, writes, reads, faults>>

\* An answer ends a search by the rollback of whatever transaction is open.
Finish(r, a) ==
    /\ Answer(r, a) /\ Goto(r, "done")
    /\ txn' = IF asked[r].kind = "search" THEN [txn EXCEPT ![Connection[r]] = Closed] ELSE txn

\* _active_generation is two SELECTs: the pointer ...
ReadPointer(r) ==
    /\ rpc[r] = "pointer"
    /\ IF View(r).active = NoGeneration
       THEN Finish(r, "empty")
       ELSE /\ got' = [got EXCEPT ![r].active = View(r).active]
            /\ Goto(r, "row") /\ Select(r)
    /\ UNCHANGED <<db, writerVars, asked, writes, reads, faults>>

\* ... and the row of the generation it names.
ReadRow(r) ==
    /\ rpc[r] = "row"
    /\ IF got[r].active \notin View(r).rows
       THEN Finish(r, "corrupt")
       ELSE /\ Goto(r, CASE asked[r].kind = "search" -> "postings"
                         [] asked[r].kind = "count"  -> "count"
                         [] asked[r].kind = "audit"  -> "pointer2")
            /\ Select(r) /\ UNCHANGED got
    /\ UNCHANGED <<db, writerVars, asked, writes, reads, faults>>

\* search: postings, then the statistics, then the chunks of what matched.
ReadPostings(r) ==
    /\ rpc[r] = "postings"
    /\ LET rows == Rows(View(r), got[r].active) IN
       IF rows = Nothing
       THEN Finish(r, "empty")
       ELSE /\ got' = [got EXCEPT ![r].rows = rows] /\ Goto(r, "stats") /\ Select(r)
    /\ UNCHANGED <<db, writerVars, asked, writes, reads, faults>>

ReadStats(r) ==
    /\ rpc[r] = "stats"
    /\ IF Rows(View(r), got[r].active) = Nothing
       THEN Finish(r, "empty")
       ELSE Goto(r, "chunks") /\ Select(r) /\ UNCHANGED got
    /\ UNCHANGED <<db, writerVars, asked, writes, reads, faults>>

ReadChunks(r) ==
    /\ rpc[r] = "chunks"
    /\ Finish(r, IF Rows(View(r), got[r].active) = Nothing THEN "corrupt" ELSE "hits")
    /\ UNCHANGED <<db, writerVars, asked, writes, reads, faults>>

\* document_chunk_count: the count follows the two SELECTs of the generation.
Count(r) ==
    /\ rpc[r] = "count"
    /\ got' = [got EXCEPT ![r].rows = Rows(View(r), got[r].active), ![r].answer = "counted"]
    /\ Goto(r, "done")
    /\ UNCHANGED <<db, writerVars, asked, txn, writes, reads, faults>>

\* audit reads the generation, and _active_records reads it again.
AuditPointer(r) ==
    /\ rpc[r] = "pointer2"
    /\ got' = [got EXCEPT ![r].rows = View(r).active]
    /\ Goto(r, "row2")
    /\ UNCHANGED <<db, writerVars, asked, txn, writes, reads, faults>>

AuditRow(r) ==
    /\ rpc[r] = "row2"
    /\ IF got[r].rows \notin View(r).rows
       THEN Answer(r, "corrupt") /\ Goto(r, "done")
       ELSE Goto(r, "records") /\ UNCHANGED got
    /\ UNCHANGED <<db, writerVars, asked, txn, writes, reads, faults>>

\* Mutant: the fingerprint of the generation is not compared.
AuditByRecords(r) ==
    /\ rpc[r] = "records"
    /\ Answer(r, IF Rows(View(r), got[r].rows) = asked[r].expected THEN "ready" ELSE "stale")
    /\ Goto(r, "done")
    /\ UNCHANGED <<db, writerVars, asked, txn, writes, reads, faults>>

Audit(r) ==
    /\ rpc[r] = "records"
    /\ Answer(r, IF /\ got[r].active = asked[r].expected
                    /\ Rows(View(r), got[r].rows) = asked[r].expected
                 THEN "ready" ELSE "stale")
    /\ Goto(r, "done")
    /\ UNCHANGED <<db, writerVars, asked, txn, writes, reads, faults>>

Return(r) ==
    /\ rpc[r] = "done"
    /\ Goto(r, "idle") /\ asked' = [asked EXCEPT ![r] = Idle]
    /\ got' = [got EXCEPT ![r] = [active |-> NoGeneration, rows |-> Nothing, answer |-> "none"]]
    /\ UNCHANGED <<db, writerVars, txn, writes, reads, faults>>
-----------------------------------------------------------------------------
Requests == [kind : ReaderOps \cap {"search"}]
              \cup [kind : ReaderOps \cap {"count"}, doc : Docs]
              \cup [kind : ReaderOps \cap {"audit"}, expected : Contents]

WriterNext == \E w \in Writers : Lock(w) \/ Read(w) \/ Commit(w) \/ Clean(w) \/ Fail(w)
ReaderNext == \E r \in Readers :
    \/ (\E o \in Requests : Ask(r, o)) \/ BeginSearch(r) \/ ReadPointer(r) \/ ReadRow(r)
    \/ ReadPostings(r) \/ ReadStats(r) \/ ReadChunks(r) \/ Count(r)
    \/ AuditPointer(r) \/ AuditRow(r) \/ Audit(r) \/ Return(r)

\* Two readers use one connection at the same time.
Busy(r) == rpc[r] \notin {"idle", "done"}
Meets(r) == Busy(r) /\ \E s \in Readers \ {r} : Connection[s] = Connection[r] /\ Busy(s)

Next == /\ WriterNext \/ ReaderNext
        /\ seen' = [r \in Readers |->
                       IF rpc'[r] = "idle" THEN {} ELSE seen[r] \cup {Active(db')}]
        /\ crossed' = {r \in Readers : rpc'[r] # "idle" /\ (r \in crossed \/ Meets(r)')}

Spec == Init /\ [][Next]_vars
-----------------------------------------------------------------------------
(* Properties *)

\* Every write takes effect in one step on the documents it names and keeps what
\* other processes have committed of the others (replace_document: "while
\* retaining every other document"): no update is lost.
Map == INSTANCE DocumentMap WITH map <- Active(db)
ImplementsDocumentMap == Map!DSpec

\* A call that returns without error has taken effect when it gives the lock back,
\* and its cleanup has left no rows but the active ones: what an earlier failed
\* cleanup has left goes as well, and no deleted text survives.
Applied(o, base) ==
    CASE o.kind = "replace" -> Active(base)[o.doc] = o.version
      [] o.kind = "delete"  -> Active(base)[o.doc] = Absent
      [] o.kind = "build"   -> Active(base) = o.corpus
WriteTakesEffect ==
    [][\A w \in Writers : wpc[w] # "idle" /\ wpc'[w] = "idle" /\ faults' = faults
                => /\ Applied(doing[w], db')
                   /\ wpc[w] = "clean" => db'.rows = {db'.active}]_vars

\* A search answers from one generation that was active while it ran, whatever
\* generations writers commit and remove meanwhile, and it is never refused: if no
\* other read of the process used its connection while it ran (_reader_snapshot).
\* The connections may be shared in any way: what earlier searches, refused or
\* rolled back half-way, have left of their transactions harms no later one.
Searched(r) == rpc[r] = "done" /\ asked[r].kind = "search"
FromSnapshot(r) ==
    CASE got[r].answer = "hits"    -> got[r].rows \in seen[r]
      [] got[r].answer = "empty"   -> Nothing \in seen[r]
      [] got[r].answer = "corrupt" -> FALSE
      [] OTHER                     -> TRUE
SearchIsSnapshot ==
    \A r \in Readers \ crossed :
        Searched(r) => FromSnapshot(r) /\ got[r].answer # "refused"

\* What docs/architecture/sparse-retrieval.md says: each complete search runs in one
\* read-only snapshot.  All searches of the API share one connection.
EverySearchIsSnapshot == \A r \in Readers : Searched(r) => FromSnapshot(r)

\* The audit reads the generation twice and takes no snapshot, and yet what it
\* reports was true at some moment while it ran, if it met no search on its
\* connection.
AuditIsTruthful ==
    \A r \in Readers \ crossed : rpc[r] = "done" /\ asked[r].kind = "audit" =>
        CASE got[r].answer = "ready" -> asked[r].expected \in seen[r]
          [] got[r].answer = "stale" -> seen[r] # {asked[r].expected}
          [] got[r].answer = "empty" -> Nothing \in seen[r]
          [] OTHER                   -> TRUE
=============================================================================
