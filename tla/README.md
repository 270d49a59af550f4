# A TLA+ model of knowledge-scope

knowledge-scope is a single-host application that answers questions over PDF documents and
databases: a FastAPI process, an ingestion thread inside it, a command line, and the stores
they share (PostgreSQL, files, Qdrant, a SQLite BM25 index, Neo4j). This directory holds the
TLA+ modules that model its parts, the TLC configurations that check them, and the proofs that
TLAPS checks. Paths are relative to `src/knowledge_scope/` of the repository; `ingestion/worker.py:259`
is a line of it.

`PROJECT.json` is the index: every component with its status, every run with its properties, the
lines each definition models (`map`), the mutants that show each property can fail, the
disagreements found (`findings`), the hazards of the code and the theorems.

## The system

### Components

| component | state it keeps | operations | model |
|---|---|---|---|
| ingestion worker (`ingestion/worker.py`, `store.py`, `models.py`) | a task file per document, a FIFO queue, the set of enqueued documents, one thread | enqueue, force, retry, run a document, recover at start | `IngestionWorker` |
| stage handlers (`ingestion/steps.py`) | the bundle of prepared points, artifacts, five indexes | parse, chunk, four prepare stages, publish and compensate, verify, graph | `IngestionWorker` |
| visual index (`retrieval/visual_index.py`) | points of a document by generation, a generation pointer | replace, recover, delete, search | `VisualIndex` |
| sparse index (`retrieval/sparse.py`) | SQLite tables: generations of the whole corpus, the active one; a lock file | build, replace, delete, search, count, audit | `SparseIndex` |
| document upload and deletion (`api/documents.py`, `documents/storage.py`) | rows, source files, trash, and every artifact and index of a document | upload, delete with compensation, restore | `DocumentLifecycle` |
| parsing (`parsing/service.py`) | staging, canonical, backup and trash directories | parse with and without the representation index, promote, roll back, discard | `DocumentLifecycle` |
| chunking (`chunking/service.py`) | chunk artifact | promote (`DocumentLifecycle`); split blocks into chunks (planned) | partly |
| representation index (`retrieval/representation_index.py`), evidence (`evidence/lifecycle.py`) | points of a document, visibility flags, `evidence.json` | build, replace with rollback, quarantine, restore, delete | `DocumentLifecycle` |
| dense index (`retrieval/qdrant.py`) | points of a document | replace with rollback, delete, search | planned |
| unified retrieval (`retrieval/unified.py`, `hybrid.py`) | none | five concurrent branches, fusion, a fair pool, rerank | planned |
| graph store (`graph/neo4j.py`), extraction and linking | facts of chunks, links of entities | upsert, link, delete by document | `GraphCorpusBuild`, at the grain of chunks; retrieval from the graph planned |
| graph corpus build (`evaluation/graph_corpus_build.py`) | append-only checkpoints of chunks, documents and linking windows, a manifest, a lock | run, resume, retry, reprocess | `GraphCorpusBuild` |
| LLM gateway (`llm/gateway.py`, `usage.py`) | usage and invocation records | complete and stream with deadline, retries, cancellation | `LLMGateway` |
| chat agent (`agent/service.py`, `api/rag.py`) | none | a bounded loop of plan, tool and answer, streamed under a deadline | `AgentChat` |
| RAG service (`rag/service.py`, `cache.py`) | a cache of rewrites and contexts, a gate of one selection | a stream of events | `RAGService` |
| ChatBI (`chatbi/`), MCP server (`mcp/server.py`) | data source rows, audit records, a semaphore | gate, question to SQL, validation, bounded execution, repair, analysis | `ChatBIAgent` |
| chat workspace (`chat/`) | conversations, messages by position, memories, trusted answers on disk | append, rebind, record and verify an answer | `ReportWorkspace` |
| report workspace (`reports/`) | sections by position, source references | create, move, delete, insert and withdraw sources, change the knowledge base | `ReportWorkspace` |
| table and vision analysis, other evaluation programs, frontend | see `PROJECT.json` | | not modelled, or last |

### How they interact

An upload commits a document row and calls `enqueue` on the worker from a thread of the API;
`retry` comes from the API as well. The worker's thread runs the nine stages of one document
after the other. Its publish stage writes the evidence file, Qdrant (text, then representations),
SQLite and Qdrant again (visual), one after the other and without a transaction over them; its
verify stage reads them back. The API process searches the same stores while this happens,
and commands of the CLI write them from other processes. A deletion trashes artifacts, marks
representations as not visible, commits the row, then deletes from the stores; it does not know
about the worker. A question goes through the RAG service or the agent, which search with
`unified.py` and call models through the gateway; the agent falls back on the RAG service, and what
either yields is handed to the client's socket one event at a time. Questions to databases come from
the API or, a bounded number at a time, from MCP clients. What the server has answered is recorded in a
signed ledger before the stream ends; a report takes an answer of a conversation over only if it finds it there. The graph is built by a command that
is started again and again on one checkpoint directory until nothing in it has failed.

### What is hard here

- a thread and facade calls share a task file, a queue and a set, partly under a lock;
- the process may die between any two writes, and the restart decides from task files and a
  bundle what may be skipped;
- indexes without transactions are replaced by several calls, each of which may fail, and are
  read by several calls as well;
- compensations are written by hand, and may fail themselves;
- readers of SQLite share one connection, writers are other processes;
- model calls time out, are retried and cancelled while their usage is being recorded;
- a cancellation (a deadline, a client that leaves) strikes whatever await the task is in: a provider,
  a database, a lock, the socket of a slow client;
- a budget of steps, calls and attempts is counted at many places of one long function;
- a cache and a schema are read at one await and used after another;
- requests to one report read its rows, compute from them and write them in one commit at the end, without a lock;
- a resumed build skips what its checkpoints say, while the graph says what was really written.

The hazards are listed in `PROJECT.json`, each at the line where it bites.

## What makes each component correct

- **Ingestion.** A document is scheduled at most once. Nothing but the thread writes the task of a
  document it runs. A task shown as completed has every artifact and index in place, and is never
  touched again. Every scheduled task settles.
- **Visual index.** Readers see one generation, whole. A generation that was not completely written
  is never visible.
- **Sparse index.** A write changes the documents it names and no other, whoever else writes. The
  active generation is always stored. A search answers from one generation.
- **Document lifecycle.** Every operation that runs alone does all it is for, or leaves everything as it was.
  No representation point of a deleted document is visible. A row has its source file. At rest the visible
  points are one generation.
- **Gateway.** One invocation record per attempt and one usage record per call, whatever is
  cancelled or fails.
- **Agent.** The client gets a well-formed stream of events or a broken one. When the question is at risk, no model tells the numbers of
  an image, but for a description whose figures have been masked. A cancellation only unwinds. The turn ends.
- **RAG service.** One question at a time selects its context, and nobody leaves with the gate. What is
  cached belongs to its key. The client gets its stream.
- **ChatBI.** Bounded steps and model calls, all of them counted; nothing is executed that was not checked against the
  schema it was written for; results pass their validators; every statement's audit is closed.
- **Graph corpus build.** What a checkpoint calls completed is in the graph; links stand on completely extracted
  documents; a build that ends as completed is whole; a provider that keeps refusing in one way is left alone.
- **Reports and chat.** Sections stand at 0, 1, 2, ... A source is of a section that is there and of the report's knowledge
  base, and an inserted text has its source. What is inserted as an analysis was told by the server, and is marked as a draft if
  every turn told it from an unverified image, or one whose gate says so. A message stands after those that were there when it was sent.

## Modules

| module | what it is |
|---|---|
| `IngestionWorker` | the worker, its stages and stores |
| `IngestionWorkerProofs` | the inductive invariant of the worker and the theorems |
| `MCIngestionWorker` | its instances for TLC |
| `GenerationIndex` | abstract: an index of one document that is replaced by generations |
| `VisualIndex` | the visual index, which implements `GenerationIndex` |
| `DocumentMap` | abstract: an index of many documents that several processes write |
| `SparseIndex`, `MCSparseIndex` | the sparse index, which implements `DocumentMap` |
| `MCIndexes` | both indexes in one model for TLC, of which a behaviour exercises one |
| `IndexProofs` | the inductive invariants of the two indexes, the theorems and the refinements |
| `DocumentLifecycle`, `MCDocumentLifecycle` | a document's row, files, points and stores under upload, parsing, chunking, indexing, publication and deletion |
| `DocumentLifecycleProofs` | its inductive invariants and the theorems |
| `LLMGateway` | one call of the gateway and its records |
| `EventStream` | abstract: what a client of `POST /rag/query` may rely on |
| `AgentChat` | a turn of the agent over `LLMGateway`; it implements `EventStream` |
| `AgentChatProofs` | the inductive invariant of the turn and its gateway, the theorems and the refinement |
| `RAGService` | concurrent questions, their cache and their gate; it implements `EventStream` |
| `RAGServiceProofs` | its inductive invariant, the theorems and the refinement |
| `QueryLifecycle` | abstract: the audit of a ChatBI request |
| `ChatBIAgent` | concurrent questions to data sources that change; it implements `QueryLifecycle` |
| `ChatBIAgentProofs` | its inductive invariant, the theorems and the refinement |
| `GraphCorpusBuild`, `MCGraphCorpusBuild` | runs of the graph build over its checkpoints and the graph |
| `GraphCorpusBuildProofs` | its inductive invariant and the theorems |
| `ReportWorkspace`, `MCReportWorkspace` | concurrent requests to one report and one conversation, and the ledger of answers |
| `ReportWorkspaceProofs` | its inductive invariant and the theorems |

### IngestionWorker

Durable state: `task` (the task files), `bundle` (`bundle.json`, per index the parse version its points
come from), `parsed`, `chunked`, `index`. Process state: `phase`, `unscanned`, `queue`, `enqueued`
(`self._queue`, `self._enqueued`), `call` (the facade call that holds `self._lock`). Thread state: `pc`,
`doc`, `mem` (its copy of the task), `cursor`, `draft`, `touched`, `code`.

An artifact or a set of points is abstracted to the *version* of the parse it was computed from, 0 when
absent. `ChunkCount` gives each version its number of chunks, because verify compares numbers:
two versions with the same number cannot be told apart by it. One action is one step between two
writes that another actor or a crash could separate: the task file after every stage, the unlink and the
rename of the bundle, each store of publish, each delete of the compensation. Parse and chunk are one step. `Published`
says what a reader finds of a completed document: the evidence, the text, sparse and representation entries in the numbers verify compares and, where it is enabled,
the visual points of exactly the prepared version.
Facade calls read, then write under the lock, and the thread may step in between, as it does not take the
lock for its own reads and writes. `Crash` is enabled everywhere; `Restart`, `Recover`, `StartThread` are
`start()`.

Left out: the interruption counter, timings and counts shown to the user, `visual_status`, the steps inside
a parse, the error of a document registered in another knowledge base.

### VisualIndex

The points of one document (`points`, `active` flags, `pointer`) and the two programs that work on them: the
writer (recovery, replacement, clear, delete) with one action per Qdrant call, and a search, which queries the
points and then reads the pointer. A failing call may have been applied or not. `torn` and `observed` are history
variables for the properties. Points without a generation, written by versions of the program before the
pointer existed, and several documents in one window of a search are left out.

### SparseIndex

`db` is the committed SQLite state: `rows`, the set of stored generations, and `active`. The id of a
generation is the fingerprint of its content, so a generation *is* its content, a function from documents
to versions; `Absent` is a document without records. Writers hold the file lock from their first read to the
end of the cleanup; a transaction is one action. Readers are sequences of SELECTs; `Connection` says which
connection a reader uses, and `txn` which transaction, if any, is open on it and the snapshot it has taken.
`BEGIN` inside a transaction fails and rolls back, as `_reader_snapshot` does. In the API all readers share one connection
(`api/app.py:98`), and so they do in the runs. `crossed` is a history variable: the readers that met another read on their connection,
which may have ended their transaction or have lent them its own. Tokenizing and scoring are left out:
a query is one that every document matches.

### DocumentLifecycle

One document: `row`, `place` (its four paths: source, parsing, chunking, evidence), `points` and `hidden` (the
representation points and their `quarantined` flags), `others` (text, sparse, visual and graph stores: something or
nothing). A file or a point is the version of the parse it comes from. The id of a point is derived from its
content, so two consecutive generations share one (`PointsOf`): a replacement overwrites points as well
as adding and removing some, which is what its rollback has to undo.

An operation is a sequence of steps (`Upload`, `Parse`, `Reparse`, `Build`, `Chunk`, `Publish`, `Extract`, `Delete`), and
`Undo(o, l)` is the sequence its exception handlers run when step `l` fails. `todo` holds the steps a process still has to
take; a step that raises replaces them by the compensation. Each step is one action with its own success, failure and, for
calls to a store, failure after having been applied. A compensating step that fails (`Slip`, `Miss`) drops the rest that its
handler would have skipped. Loops over points (`Upsert`, `Quarantine`) and over trashed paths (`RestoreFromTrash`) take one
element per step. `Parse` and `Reparse` are `parse_document_file` without and with a representation store; `Build` is
`index_canonical_document`; `Publish` is the ingestion worker's publish stage, whose compensation deletes the indexes
instead of restoring them.

Two processes run any two operations at once, a process may die between any two steps, and another upload
of the same file (`Rival`) may take or leave the unique constraint.

History variables say which behaviours a property is about: `alone[p]` (nothing overlapped the operation),
`overlapped` (whether anything, and whether a deletion, ever did), `lost` (a commit was applied and reported as
failed), `intact` (no death and no failing compensation). `MCView` drops what an idle process remembers, which its next
`Start` overwrites, and the state before an operation that is no longer alone, which no property looks at; the two
processes are interchangeable (`MCSymmetry`).

Left out: documents registered by reference (no source file), the rollback inside the dense index (a step of `others`),
searches (what they filter is `Visible`), staging directories, which no other operation sees.

### LLMGateway

One call at a time: `complete` with its retries and `stream` with the consumer between two events. `gpc` is where the
call stands, `outcome` how the attempt and then the call has ended, `invocations` and `usage` the rows that are written
for it. Each await is a state: the provider, the pause before a retry, the two writes, the yield of a stream. `Cancel`
strikes at any of them; a write that is cancelled or fails may have been applied (`MaybeApplied`). An error that is not an
`LLMError` (`"raw"`) can only come from the recorder, which wraps database errors alone. What the
caller gets is `outcome` at `gpc = "returned"`.

### AgentChat

A turn extends the gateway, whose call is the one the turn waits for. `pc` is the place in `AgentChatService.stream`
(history, rewriting, retrieval, supplementary retrieval, planning, image tool, table tool, gated answer, model answer,
fallback, the RAG service as fallback). `outbox` holds the events the generator has yielded and the socket has not taken: the turn
waits while it is not empty, and `held` is the `complete` event `_trusted_event_stream` keeps back. `ask` is what the
classifiers of the question say. `cancelling` is who cancels: the deadline of the turn, the client, or the deadline of a model
stream. `sent` joins repetitions, so that any number of deltas is one. A tool's result is what the later guards read of it
(`visual`, `table`, `facts`).

`voices` says whose words the client has got: the program's, the answering model's, the RAG service's and, of the vision
model, a description, a figure in it, or a `lookalike`. The gated answer quotes the vision model (`agent/service.py:853-863`), so what it says
depends on `strip_numeric_claims`: `Masked` takes the figures out that the mask recognises and leaves the lookalikes, tokens that look like a year or follow
a letter, and numbers that are spelled out (`vision/safety.py:25-29`, `107`).

Left out: what tools compute, prompts, the content of citations, the log of tool calls in the `complete` event.

### RAGService

Per request: `query` is what it searches for, a text together with the conversation it is about, which is how a follow-up differs from
its rewriting; `context` what it answers from, `outbox` and `events` as above. Shared: `gate` (the lock's
holder and waiters), `cache` (a list, the oldest use first) and `threads`: a dense retrieval that was cancelled still
occupies its thread and returns later. Expiry of a cache entry is an action. `Paths` are the ways of retrieval a request may
take: an automatic one goes on to the unified retrieval only if there is one (`HasUnified`, as in `api/app.py`) and the question names a knowledge
base; one that names none is `anywhere`.

Left out: the compression of the history before the rewriting (one more await), the Redis cache (each of its failures is a
miss), the rewriting of plain questions that have a history, whose key is that of a follow-up.

### ChatBIAgent

Per request: `pc` and `stage` (the trusted context, a lookup and a discovery, is built three times: for the gate, for the generation
and for the validation), `row` and `snapshot` (what was read), `candidate` (the schema it was written for, which check
it fails, its LIMIT), `audit`, `outcome`, `used` (the budget), `called` (calls really made) and `result`. The
world changes under it: `source` is edited or deleted, `schema` gets a new version. `queue` holds the waiters of
the MCP server's semaphore. `Verdict` is the validator by its outcome: the fingerprint first, then the syntax tree. `Rows`
computes what a statement with n rows yields under its own LIMIT, the LIMIT the validator sets and the bounds of the cursor.

Left out: prompts and parsing, types and masking of columns, the credentials, the audit's `validated` record, which is written
with the next one without an await in between; the HTTP routes, which have no semaphore.

### GraphCorpusBuild

Durable: `chunkLog`, `docLog`, `linkLog` (the last record for each key of the three append-only files) and `manifest`;
in Neo4j `evidence`, the chunks whose facts are there, and `links`, the pairs of chunks whose entities have a
current decision. A run holds the lock of its directory, so runs follow one another, each with its own `opts`. `pc` goes
through the documents of a window (`document`, `clean`, `chunks`, `conclude`, `unlink`) and through its linking (`link`,
`relink`, `linking`, `save`, `linked` or `barred`). Each call of the store is a transaction that may fail, applied or not; the chunks of a slice
run together (`task`). `Cancel` unwinds with the records the handlers write, `Die` with none. `torn` and `unlinked` are history
variables: documents of which a rebuild was begun and not finished, which is the subject of `claim_graph_evidence`, and documents
rebuilt and since then not linked.

The circuit breaker is `blocked`, `signature` and `streak`, as in the code: a refusal with another status than the last one
starts the count at 1, a success or a failure of another kind at 0 (`graph_corpus_build.py:1879-1892`), so that statuses that alternate never trip it. `row` and `late` are what the provider sees:
the same refusal how often in a row, and the windows whose linking has asked it after the block. Linking neither looks at the breaker nor counts for
it (`2923-2930`), so the window at hand is still linked.

Left out: a change of the corpus under one directory (the snapshot of the input forbids it), failing writes of checkpoints, a torn
last line of a log (the next run refuses it), two directories building one knowledge base, a cancellation before a
chunk's task has started, and the write of a cancelled thread that is applied
after the next run has begun (it is applied with the cancellation).

### ReportWorkspace

Stored: `sections` (position and the inserted texts of each), `sources`, `scope` (the report's knowledge base), `bound` (the
conversation's), `messages` and `ledger` (the safety state recorded for an answer in each knowledge base: the gate, and whether the
tool trace holds an unverified image). A process is a request: `req`
what it asks for, `todo` the awaits it has left (`Steps`), `mem` what its session has read. One action is one await.

The model has the semantics the code runs under. Every SELECT sees what is committed (PostgreSQL's default, READ COMMITTED). An object
that a session has loaded keeps its attributes when a later SELECT meets it again, so a section that is moved keeps the position it was loaded
with (`ReadOrder`), and `_build_source_reference` compares the knowledge base as it was loaded first. A commit writes the
attributes that differ from the loaded ones (`Dirty`) and fails if one of the rows is gone (`Writes`). A deletion is flushed before the
order is read: from there to its commit it holds its row, which others wait for (`Held`), and only it no longer sees the section (`Seen`).

Sections and sources are serial numbers, the order of `created_at`. A text that comes with a source is the number of the source.
The conversation holds one answer, told again by each `turn` with the safety state of that turn, out of `Safety`. Its gate and its trace are
not the same thing: a turn that falls back to the RAG service after an image tool ends with the gate `none` and a trace with the image in it
(`agent/service.py:748-757`, `1308-1320`). `Marks` is what a report looks at, either of them (`reports/api.py:899-917`); `Keeps` is what decides which record stays, and ranks the
gates alone. The ledger finds a record by conversation, knowledge base, text and
citations, so equal answers share one. `span` holds what other requests have committed since a request began; from it
follow `disordered`, `skewed` and `raced`, which say where requests have written past each other. `said`, `inserted` and `withdrawn` are
history variables as well.

`Rank` ranks `unverified_numbers_withheld`, which is no gate of an image, above `visual_unverified`. That would let a record
without a mark keep out one with a mark; no turn of the agent ends with that gate (`WorkspaceAssumption`).

Left out: projects and memories, the deletion of conversations and reports, sources of data (the same checks on other columns), a
report without knowledge base, the validation of evidence, the bound on the length of a section, generation and export, which only read.

## Runs

`CHECK_DEADLOCK FALSE` is in every configuration because the systems really stop: an idle worker, an answered question or
a store with its bounds used up has nothing to do.

| run | question | bounds |
|---|---|---|
| `worker` | is a completed task published and left alone, is a document scheduled once and written by its owner, does every task settle? | fairness; every stage and compensation may fail, 3 attempts; one document with 3 requests, 2 deaths and 1 failing task write, or two documents with 2 requests and 1 death |
| `indexes` | do the writers implement `DocumentMap` and `GenerationIndex`, are searches and audits true of one moment, does a write that succeeds take effect, is nothing pending visible? | sparse: 2 documents, 2 processes; either 2 versions, 5 writes and 2 faults, or 1 version, 2 writes and 1 fault among 2 reads on one connection; visual: 2 images, 3 generations, 1 death, 2 failing calls, 1 search |
| `document_lifecycle` | are operations all or nothing, is a deleted document hidden, is what is visible whole? | 2 processes, 4 operations of 8 kinds, 2 parses, 2 failing steps, 1 death |
| `agent_chat` | does the turn implement `EventStream`, are attempts accounted for, are gated questions kept from the model, does a cancellation only unwind, does the turn end? | one turn of every kind, 1 retry, 1 failing record, 3 rounds, 2 tools, a cancellation at any await |
| `rag_service` | does each question implement `EventStream`, is the gate exclusive and never lost, does the cache fit its keys? | 2 questions of every kind and mode, 1 conversation, 2 entries, 1 expiry, 1 cancellation |
| `chatbi_query` | do budgets, checks, results and audits hold, does every request end? | 2 requests and 1 place, 2 statements, 1 repair, 6 steps, 3 calls, 1 row at most, 1 change of the source or the schema, 1 cancellation |
| `graph_build` | is what is called completed there, are links grounded, is a completed build whole, is a refusing provider spared? | 2 windows, 3 documents, 4 chunks, 2 at a time, 2 runs, 1 interruption, 1 failing call, 2 fatal statuses, a threshold of 2 |
| `report_workspace` | do the order of sections and messages, the scope of sources and the record of answers survive requests that overlap, or the next request? | 2 requests at a time, 3 or 4 in all, 2 knowledge bases, 2 sections and 1 more, 3 safety states, kinds of requests by `MCMixes` |

Why the bounds are enough. One document meets every interleaving of thread, facade, crash and recovery, because
documents share only the queue, the set and the thread; two wait for each other there. Forced enqueues keep the number of attempts, so that two of them
and a death exhaust the three. `MCIngestionWorker` chooses one or the other at the start, as `MCIndexes` chooses the index: what is not chosen never
moves. Two images allow a half-written and a half-deleted generation; the
third generation allows a rollback over the residue of an earlier one. Two documents are the least with which one
write of the sparse index can lose another; readers add nothing to the writers, which they never stop, and need but two writes among them to be moved twice. Four operations are an upload, a parse, an index and whatever is put
at risk, a reparse or a deletion; two failing steps are a failure and a failing compensation. A turn of the agent shares nothing with
another one. The code's defaults are three rounds and three tools, and each round runs one tool at most: the run takes two tools, with which the
budget of tools ends before that of rounds; that the rounds are a bound of their own is part of `TypeOK`, which is proved for any two numbers. Two questions are the least that
meet at the gate, at a cached entry and in the semaphore; two entries of the cache make one question evict the other. Six steps and three calls
let a request run out of each before, at and after the analysis (the gate, a failed statement, its repair), and `MaxRows = 1` has a result below,
at and above the limit. Two windows let a failure or a block in the first reach the second; the first has a document with two chunks, one of which may fail,
next to a whole one. The code's threshold is 3; 2 is the least at which refusals have to add up, over the slices of a document, its neighbours and the next
window, and two statuses the least that can alternate. Of two runs the second resumes, retries or reprocesses what the first has left. The requests of `report_workspace` are mixed by what they
share: the order of sections, the content of a section, sources and scope, the ledger, the messages; requests that are in no mix
together touch nothing in common, or meet like two that are in one. Two that overlap and a third spoil and repair an order; two put a source out of scope,
which two more withdraw and replace.

The type invariants of `IngestionWorker`, `DocumentLifecycle`, `GraphCorpusBuild`, `RAGService`, `ChatBIAgent` and `AgentChat` are theorems; those of
`VisualIndex` and `SparseIndex` are parts of their inductive invariants. `agent_chat` and `chatbi_query` check theirs, which contain the
budgets. The others hold on the same instances, and are not among the properties of a run.

Consistency of a visual search (`SearchConsistent`) is claimed only as long as no call has failed, and `GenerationIndex` has an
action `Falter` for the same reason: after a failing call the code may roll back to a torn generation (see below).
`SearchIsSnapshot` and `AuditIsTruthful` are about searches and audits that met no other read on their connection, although others came before and after them on it;
for those that did, see `claim_sparse_snapshot`. `SettlesUnlessDropped` names the three ways in which a task may stay as it is instead of leaving out what leads there:
a retry that the queue has swallowed (`RequeueLost`, see `claim_worker_retry`), a death between the last stage and the last write, after which the next run skips both
(`FinishSkipped`), and a write that failed (`OutcomeUnwritten`).

### Violated claims

Each `claim_*` run checks one statement of the repository that the code does not keep; TLC prints
the behaviour.

- `claim_rag_cache`: contexts are cached by the words of a question and not by its rewriting, so that `它有哪些限制` in one
  conversation is answered from what was found for the subject of another. Bounds: two conversations.
- `claim_graph_evidence`: a rebuild deletes a document from the graph and leaves its checkpoints at completed; if it is
  interrupted there, the next run without `--reprocess` reuses them and ends as completed with the facts gone. Bounds: three runs.
- `claim_sparse_snapshot`: the API opens one SQLite connection for all searches (`api/app.py:98`). `BEGIN` inside another search's transaction fails and rolls that one
  back (`retrieval/sparse.py:551`), which goes on without the snapshot that `docs/architecture/sparse-retrieval.md:63` promises of every search. Bounds: two searches, one
  writer with two writes.
- `claim_worker_retry`: a retry between the last write of a failing run and the release of its document leaves a queued task that nothing takes before the next
  start, and that a further retry refuses (`docs/architecture/auto-ingestion.md:66`). Bounds: one document, two requests, no death and no failing write.

Differences seen while modelling, all of which the models have as behaviours, without a run of their own:

- two requests that overlap leave sections of a report at the same position or with a gap (`reports/api.py:562`; 稳定顺序,
  `docs/architecture/report-workspace.md:7`), until the next request that renumbers them; two messages appended together share a position;
- a source inserted while the report changes its knowledge base stays with a report of another one (`reports/api.py:641`), which
  `docs/architecture/report-workspace.md:15` says is checked in the same transaction: `skewed`. TLC finds `\A s \in sources : s.kb = scope` violated by an insertion and a
  change of the report. Two texts inserted at once, or one while
  the section is rewritten, leave one text and two sources;
- two turns that record the same answer at once may replace a restrictive record by one that is not (`chat/trust.py:294`, against
  `docs/architecture/multimodal-safety.md:132`): `raced`. One after the other they may replace a record that is only marked by its tool trace, because the rank at
  `chat/trust.py:295` compares gates (against the comment at line 298): a turn that fell back to the RAG service after an image and one without an image, both
  with the gate `none`. The answer, a draft before, is then inserted as a verified analysis. TLC finds
  `\A i \in inserted : (\E h \in i.heard : Marks(h)) => i.draft` violated by two turns of one process;
- the gated answer contains such numbers of the vision model as the mask takes for years, that follow a letter or are spelled out (docstring at
  `vision/safety.py:136`): the `lookalike` in `voices`;
- after a death the recovered run parses again, which trashes the chunks, and skips the stage that makes them
  (README.md:24); after a death behind the graph stage the task stays running for ever;
- a search of the visual index that spans a whole replacement returns nothing (comment at `retrieval/visual_index.py:849`);
  the rollback of a failed cleanup deletes the complete generation and keeps the torn one (docstring at line 624);
- a publication that overlaps a deletion leaves visible points of a document that has no row
  (`docs/architecture/multimodal-representation-index.md:102`);
- the count of `document_chunk_count` is taken by separate SELECTs and is 0 when another document is replaced in between;
  verify compares counts and not contents; a deletion leaves the entries of the sparse and the visual index;
- a process that dies between moving a source file to the trash and the commit leaves a row that no request can delete; a commit that was applied and
  reported as failed is compensated;
- the deadline of an agent's turn strikes the await of the socket when the client is slow, and the stream ends without the
  `error` and the `complete` that `docs/architecture/agentic-rag.md:131` promises (`api/rag.py:125`);
- the validator sets LIMIT to `max_rows`, so that the execution, which recognises a truncation by one more row, reports a
  larger result as complete (`chatbi/sql_validation.py:768`, `docs/architecture/chatbi-sql-execution.md:76`): the states with
  `rows < total` and `truncated = FALSE` of `ChatBIAgent`;
- a rewriting that failed is cached like one that was not needed;
- a window of the graph build that was linked, then rebuilt in a run in which a chunk or another document of the window fails, has the key of its first linking again when
  `--retry-failed` has completed it: `graph_corpus_build.py:2576` skips it, and the build ends as completed, reports the window as linked and has no links for
  it (`docs/architecture/graph-corpus-build.md:26`, `28`). `CompletedIsWhole` excludes it (`unlinked`); without that premise TLC finds it violated in three runs.

## Fairness

Liveness is claimed for the ingestion worker, the agent, the RAG service and ChatBI.

- Worker (`SettlesUnlessDropped`): weak fairness of `WorkerLoop` (the thread runs, and each of its steps ends: the queue's `get` has a timeout and the
  handlers' calls return or raise), of `FacadeWrite` (a call that has taken the lock goes on) and of `Recovery` (a dead process is
  started again, and `start()` runs to its end). No request, crash or failure is fair, and the property holds for any order of enqueue, force and retry, with
  deaths and failing writes among them; what it lets a task end in, besides completed and failed, are the three losses named under Runs.
- Agent: weak fairness of the program's own steps, its writes included, and of the turn's deadline (`asyncio.timeout`). The
  provider, the indexes, the tools and the client may stall for ever: that the turn ends all the same is what `TurnEnds` says.
- RAG service: the event loop runs every request, a retrieval and a rewriting return or fail. `Send` and `Chunk` are not fair: a client that takes nothing
  must not keep the gate.
- ChatBI: the loop runs every request; the lookup, the connection, the statement and the gateway have their own timeouts.
- The graph build has no fairness and no liveness property: nobody has to start another run.

## Proofs

`IngestionWorkerProofs` proves, for every set of documents and versions and every value of the bounds:

- `TypeCorrect`: `Spec => []TypeOK`;
- `Invariance`: `Spec => []Inv`, the inductive invariant;
- `CompletedPublished`, `OwnedTask`, `Scheduled`: `CompletedIsPublished`, `WorkerOwnsTask`, `ScheduledOnce` always hold; published means
  that the dense, the sparse and the visual index have what the parse and the chunks of the document make;
- `CompletedImmutable`: `Spec => CompletedIsImmutable`.

`CompletedIsPublished` is not inductive: a task becomes completed in `FinishTask`, which reads none of the stores. `Inv`
carries what each stage has established along the cursor (`ProgressInv`: once verify is behind the cursor, the document is
published; a stage is skipped only when what it would produce is there), what the flags are (`FlagsInv`), what a pending
facade call has read (`CallInv`: the task it will overwrite is still not running), and the ownership of the
task by the thread, without which a facade write could complete or reset it in between. The proof that `Next` preserves
`Inv` has one step per action.

`DocumentLifecycleProofs` proves, for any set of processes and operations and every value of the bounds:

- `TypeCorrect`: `Spec => []TypeOK`;
- `DeletedHidden`: `Spec => []DeletedStaysHidden`;
- `RowKeepsSource`: `Spec => []RowHasSource`;
- `AllOrNothingHolds`: `Spec => AllOrNothing`;
- `OneGenerationHolds`: `Spec => []OneGeneration`.

All rest on `ControlInv`: what a process has left is a suffix of its flow, or a sequence of compensating steps. In a
deletion the number of steps left therefore tells which one is next (`DeletionSteps`), and the invariants are stated with it.

`HiddenInv` proves the second one. A deletion that nothing overlaps moves the canonical document away, then reads the points,
then hides each one it read, and with five steps left it commits: from there on nothing is visible (`DeletionInv`). Without
a row (`NoRowInv`) nothing is visible, there is no canonical document, and only an upload or the end of that deletion is at
work; that is why nothing can start that would write a point again. The absence of the canonical document is what the
plain property lacks to be inductive.

`SourceInv` proves the third one. At most one deletion holds the source file, its path is then empty, and its compensation still
contains the step that puts it back (`HolderInv`); a row has its source at its path or with that deletion (`RowInv`); and
an upload before its insert is alone (`UploadInv`), so that its own removal of the file never hits a document with a row.

`CourseInv` proves the fourth one. While nothing overlaps an operation and nothing of it goes wrong twice, `Course` says where it
is. Going forward, with n steps left, `OnWay` tells what it has done: which files are still as they were at its start, which are
in its trash or set aside, how far the points are replaced (`OnUpload` to `OnDelete`, `Replacing`). Compensating, `Back` says
what each step that is left still has to put back, and that all the rest is already as it was; the order of the steps matters
(`InOrder`: the new points go before the old ones are written over them, the new directory before the old one returns). A
publication does not restore but withdraws, and `Withdrawn` says that its points go in any case. Three lemmas tell what
each step does to the files, the points and the stores (`FileEffects`, `IndexEffects`, `OtherEffects`); then there is one lemma per operation
(`ParseGoes`, `ReparseGoes`, ...) for its steps forward and for what the compensation finds when one of them raises, and two for the
steps back (`FilesGoBack`, `PointsGoBack`). With no step left `Course` is what `AllOrNothing` says (`CourseEnds`).

`GenerationInv` proves the fifth one on top of it: operations that follow one another find one generation or none when they
start, and `Course` ends in the points that were there, in those of one version that was made, or in none.

The theorems assume nothing but `LifecycleAssumption`. What limits them is in the properties: a lost
commit, an overlapping operation, a death or a failing compensation.

`GraphCorpusBuildProofs` proves, for every corpus, partition into windows, concurrency, threshold and number of runs:

- `TypeCorrect`: `Spec => []TypeOK`;
- `StoredIsThere`: `Spec => []CompletedIsStored`;
- `LinksGrounded`: `Spec => []LinksAreGrounded`;
- `ProviderLeftAlone`: `Spec => []ProviderSpared`;
- `CompletedWhole`: `Spec => []CompletedIsWhole`.

None of the last four is inductive. For the first three of them `Invariance` proves `Spec => []Inv`, which adds to them:

- `ControlInv`: where a run stands and what may be at work there. Chunks are at work only while their document is, and those
  seen and those still to do are all of its chunks; the documents behind and in front of the cursor differ.
- `StoredInv`: facts come before their checkpoint, also for a chunk between the two (`task[c] = "stored"`), and a rebuild that
  has deleted its document takes over no chunk (`force`), so that each chunk it has seen and calls stored is there.
- `LinksInv`: a document whose chunks are at work has no links, so that no failing chunk takes the ground from under one; the
  documents a window is about to link are all completed.
- `ProviderInv`: until the provider is given up, the refusals in a row with the last status are what the breaker counts, below `Threshold`, whatever
  statuses came before; after that, those refusals and the calls under way together stay below
  `Threshold + MaxConcurrency`. A call under way may still be refused, which is why the bound is not `Threshold`. `LateInv` says that the run is then at most
  one linking away from its end.

`WholeInvariance` proves `Spec => []WholeInv`, on top of `Inv`, for the last one. What the end of a run says depends on
its whole way through the windows, and what it skips on the runs before:

- `PlanInv`: each document of the window at work is still to come, to be linked, or failed and listed in the manifest, so that a
  window is linked with all its documents or with one of them listed (`Spoiled`).
- `LinkLogInv`: what the checkpoint of a window stands for. The documents of a key that is called completed are completed themselves,
  and if the facts of a window still make that key, its pairs are linked; both but for documents rebuilt since (`unlinked`),
  which is why a rebuild has to link again whatever the checkpoint says (`RebuiltInv`). The key holds the facts, so a
  checkpoint says nothing of a window whose facts have changed.
- `KeyInv`: which key the window has at each step of its linking, and that a window called linked is linked, or `Spoiled`.
- `ThroughInv`: every window behind the cursor is as it should be (`Fine`) or something of it is listed (`Noted`), and a run that
  was not blocked ends behind the last window. A step changes nothing of the windows it is not at work on (`StepsConfined`); this
  is where windows that share a document would matter.
- `EndInv`: only `EndRun` writes `completed`, with nothing listed; so every window is `Fine`, and with `WithinInv` (links stay
  within windows) and `LinksAreGrounded` there are no others.

They assume `BuildAssumption`: a document is in one window, once (`_observe_document` refuses it a second time), and a chunk
belongs to one document.

`ReportWorkspaceProofs` proves, for any number of processes, requests, sections and knowledge bases and every mix of requests:

- `SourcesKept`: `Spec => []SourcesHold`;
- `InsertedVouched`: `Spec => []InsertedIsVouched`;
- `MessagesOrdered`: `Spec => []MessagesKeepOrder`;
- `OrderDense`: `Spec => []OrderIsDense`.

What a request has left is a suffix of its `Steps` (`ControlInv`), so their number tells what it has read, and each part of `Inv`
says how much of that still holds:

- `ScopeInv`: the knowledge base and the sources that were read are those that are there unless others have committed to them
  since (`span`). This is what an insertion and a change of the report rely on when they commit.
- `ReadInv` and `NewInv`: the texts that were read with a section have their sources as long as the section is there, and a section
  that is gone does not come back, because the one a creation still has to bring is new and nobody has read it.
- `VouchInv`: the record that a turn compares with is the present one unless another turn has recorded since; what an insertion
  has read of the ledger was vouched for when it read it, and nothing said later can take that back. `Warned` is as much as the code keeps: a gate of
  an image outlasts the turns without one that follow it, but not two turns at once; a record that only its trace marks lasts
  as long as every turn has one, and that needs no premise on overlapping.
- `OrderInv`: the messages a request has seen are still the first ones, and the position it has read is above theirs. It needs
  that one message has the greatest position, since the position is read with `Max`.
- `PlaceInv`: what a request has read of the order is a list of the sections, each once (`Listing`), and those are the sections that
  are there, where they stand, unless others have arranged them since. Taking a section out of a list and putting one in gives a list
  again (`RemoveListing`, `InsertListing`), so the places a request gives are 0, 1, 2, ... (`Places`), whatever it has read; when
  nobody has arranged in between they are the places of all the sections there are, also of those it does not write because they
  stand right. `OrderedListing`, that the order by position and age is such a list, is proved from the number of sections that
  come before each, not from a sorting algorithm.

They assume `WorkspaceAssumption`.

`IndexProofs` proves of `VisualIndex`, for any set of images and every number of replacements, deaths, failing calls and searches:

- `PendingStaysHidden`: `VisualSpec => []NoPendingVisible`;
- `SearchesConsistent`: `VisualSpec => []SearchConsistent`;
- `VisualImplementation`: `VisualSpec => ImplementsGenerationIndex`.

A generation that was not completely written is not visible because nobody who could make it visible holds it: neither the pointer nor
a flag names it, nor does the writer keep it as the one to go back to (`TornInv`), which also needs what a recovery has found
(`RecoveryInv`: it keeps a generation that is present and flagged). For the other two, `WholeInv` says that until a call has failed the
visible generation has all its points and a recovery keeps what is visible; `FoundInv` that a search has then seen, whole, the
generation whose pointer it has read. `VisualMoves` says once what any step of the writer may do to the collection, from which most conjuncts follow.
In the refinement a step that a call fails in, or that comes after one, is a `Falter` of `GenerationIndex` where it changes what is visible; the others
are a `Publish`, a `Remove`, the start or the end of an operation, or nothing. The module extends both
indexes, which is why the names of `VisualIndex` (`VisualInit`, `VisualNext`, `VisualSpec`) are not those of `SparseIndex`.

`IndexProofs` proves of `SparseIndex`, for any documents, versions, writers and connections:

- `FileInvariance`: `Spec => []FileInv`;
- `WritesTakeEffect`: `Spec => WriteTakesEffect`;
- `Implementation`: `Spec => ImplementsDocumentMap`;

and of its readers, however they share connections:

- `ReaderInvariance`: `Spec => [](FileInv /\ ReaderInv)`;
- `SearchesAreSnapshots`: `Spec => []SearchIsSnapshot`;
- `AuditsAreTruthful`: `Spec => []AuditIsTruthful`.

`FileInv` says that the active generation is stored, and that what the holder of the lock has computed from its read is still what its
operation makes of the file when it commits: no other writer has been there. `ReaderInv` says of every place in a search what
its snapshot is and that it was committed while the search ran, and of every place in an audit which of the generations it has read
were active since it began. It says so of readers that met no other read on their connection (`crossed`), and for their sake also what everybody else may
have left on it: a transaction that is open, or a snapshot that was taken, belongs to a search at work on that connection (`TxnInv`), and a reader that finds two
at work there is crossed. The theorems therefore hold for the API's single connection and for one per reader alike; what they do not say is anything of two searches that
overlap on one connection, of which `claim_sparse_snapshot` shows that the snapshot is lost.

`RAGServiceProofs` proves, for any requests, questions, conversations and size of the cache:

- `TypeCorrect`: `Spec => []TypeOK`, and `Invariance`: `Spec => []Inv`;
- `SelectionIsSerial`: `Spec => []SelectionSerial`;
- `CachedContextsAreFound`: `Spec => []CachedContextsFit`;
- `Implementation`: `Spec => ImplementsEventStream`.

`GateInv` says more than that one request selects: the gate queues exactly the requests that wait or select, each of them once, and it is the
first that selects, so that a request that ends or is cancelled takes itself, and nobody else, out of the queue. What fits in the
cache (`CacheInv`) is what was put there, and a request puts there what it has found for its own question, along the path it was
asked for (`SearchInv`). For the refinement, `StreamInv` lists what a client may have got together with what still waits for it
(`Ending`): `EventStream` has no queue, and what is allowed next depends on what has been received.

`ChatBIAgentProofs` proves, for any requests and all limits:

- `TypeCorrect`: `Spec => []TypeOK`, and `Invariance`: `Spec => []Inv`;
- `BoundedWork`: `Spec => []WorkIsBounded`;
- `OnlyCheckedRuns`: `Spec => []ExecutedIsChecked`;
- `ConsistentResults`: `Spec => []ResultsConsistent`;
- `Implementation`: `Spec => ImplementsQueryLifecycle`.

The number of requests at work is a bound on a set (`PlacesInv`: it is finite and not larger than the semaphore), kept because a request
leaves it before another one is let in. The invariant of one request follows its flow: `BudgetInv` tells the calls made from
the calls counted at each await, because the gate's call is counted after it was made and the others before; `AuditInv` says which record is the last one at each
place, `CheckedInv` what has been compared before a statement runs, `OutcomeInv` which outcomes there are. `ResultsConsistent` and the
refinement follow from them at the step that finishes a request.

`AgentChatProofs` proves, for any number of retries, failing records, rounds of planning and tools:

- `ChatTypeCorrect`: `Spec => []TypeOK`, and `ChatInvariance`: `Spec => []ChatInv`;
- `AttemptsAreAccounted`: `Spec => []AttemptsAccounted`;
- `NumbersAreWithheld`: `Spec => []VisualNumbersWithheld`;
- `CancelIsRespected`: `Spec => CancelRespected`;
- `TurnImplementation`: `Spec => ImplementsEventStream`.

The invariant is a conjunction by concern. `GatewayInv` says what a call has on record at each of its awaits: as many attempts as have
ended, none of them a success unless the call answers, and no usage record yet; the account of a call that has returned follows from the last step. It is proved of the
steps of the gateway alone (`GatewayStep`), and a turn takes no others (`TurnDrivesGateway`). `TurnInv` bounds the loop, and `CallInv` says where a turn may wait for which kind
of call. `VisualNumbersWithheld` needs to know, at every place from which a model could speak, that the gate does not apply, and that no tool runs
any more that could make it apply (`ReplyInv`); the one place from which the vision model's words are sent under the gate is the gated answer, which sends what
`Masked` leaves of them. The same part lists what a client may have got together with what waits in the outbox
and the `complete` event held back (`Finishing`), and from that each event sent is one `EventStream` allows. `UnwindInv` makes `CancelRespected` provable: where a turn is cancelled,
its call is being recorded with the outcome `"cancelled"`, which no write of a record turns into a failure to go on after; or it is at its end,
with nothing but the error of the timeout to send. Most actions are first shown to be one of a few kinds of step (`EarlyStep`, `EndStep`, what the gateway does while
the turn waits), each of which keeps the invariant.

These assume only what their modules state of their constants (`VisualAssumption`, `SparseAssumption`, `RAGAssumption`, `ChatBIAssumption`,
`GatewayAssumption`, `AgentAssumption`).

Only model-checked: liveness (`SelectionEnds`, `RequestsEnd`, `TurnEnds`, `SettlesUnlessDropped`), which the prover does not
reach. Every other property of a passing run is a theorem. The violated claims are counterexamples, and stay with TLC as well.

## Not modelled

`PROJECT.json` names each part with its reason. By lines, most of the repository is evaluation programs (`evaluation/`), which
run alone, read a data set, write a report and have no state that another part of the system sees; the graph corpus build is the
one of them that keeps state between runs, and is modelled. The command line (`cli.py`) parses arguments and calls what
is modelled. Prompts, the texts of messages, the vision and embedding models, the schemas of requests and answers, the parser's own
library and the frontend compute data or call services, without a protocol of their own. The map therefore covers a
small share of all lines, and most of what the worker, the indexes, the upload, the gateway, the agent, the RAG service,
ChatBI and the graph build do.

## Plan

The order is that of importance. A component has one passing run with all its properties, and related components that do
not interact share a model when that keeps the number of runs small.

Modules still to write:

1. `PointStore`: the dense index and its rollback, which deletes before it writes back.
2. `UnifiedRetrieval`, `Chunking`: the algorithms as functions against reference definitions.
3. Retrieval from the graph.

Proofs: each from an inductive invariant checked by TLC first. What the passing runs check but for liveness is proved; a new module
brings its own theorems.
