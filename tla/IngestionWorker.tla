--------------------------- MODULE IngestionWorker ---------------------------
(***************************************************************************)
(* The single-host PDF auto-ingestion worker: ingestion/worker.py, with    *)
(* the stage handlers of ingestion/steps.py and the task files and bundles *)
(* of ingestion/store.py.  One process holds                               *)
(*   - one worker thread, which takes documents from a FIFO queue and runs *)
(*     the nine stages of each, writing the task file after every one;     *)
(*   - facade calls (enqueue from an upload, retry from the API), which    *)
(*     hold the worker's lock from their read of the task file to its      *)
(*     write and the put on the queue;                                     *)
(* and it may die at any step and be started again, when the task files    *)
(* are scanned and interrupted runs are queued again.                      *)
(*                                                                         *)
(* Data: an artifact, an index or a part of the bundle is the version of   *)
(* the parse it was computed from, 0 when it is absent.                    *)
(***************************************************************************)
EXTENDS Naturals, Sequences, FiniteSets

CONSTANTS
    Docs,               \* document ids
    Versions,           \* what MinerU may return for a document: parse results
    ChunkCount,         \* number of chunks each parse result is split into
    VisualEnabled,      \* settings.visual_embedding_enabled
    MaxAttempts,        \* settings.ingestion_max_attempts
    StageMayFail,       \* may a stage fail for an external reason?
    CompensationMayFail,\* may a delete of _compensate_publish fail?
    FacadeOps,          \* the facade calls made: "enqueue", "force", "retry"
    MaxCrashes,         \* bound: process deaths
    MaxRequests,        \* bound: facade calls that change something
    MaxWriteFaults      \* bound: failing writes of a task file

ASSUME IngestionAssumption ==
    /\ "none" \notin Docs
    /\ Versions \subseteq Nat \ {0}
    /\ ChunkCount \in [Versions -> Nat \ {0}]
    /\ VisualEnabled \in BOOLEAN
    /\ StageMayFail \in BOOLEAN
    /\ CompensationMayFail \in BOOLEAN
    /\ FacadeOps \subseteq {"enqueue", "force", "retry"}
    /\ MaxAttempts \in Nat \ {0}
    /\ MaxCrashes \in Nat
    /\ MaxRequests \in Nat
    /\ MaxWriteFaults \in Nat

VARIABLES
    \* durable: files and stores, which survive a crash
    task,       \* the task file of each document
    bundle,     \* bundle.json: the prepared points, per index
    parsed,     \* parsing/<doc>/canonical.json
    chunked,    \* chunking/<doc>/chunks.json
    index,      \* evidence artifact and the four search indexes
    \* the process
    phase,      \* "up", "down", or "recovering" while start() scans the tasks
    unscanned,  \* interrupted tasks the scan has not rewritten yet
    queue,      \* self._queue
    enqueued,   \* self._enqueued
    call,       \* the facade call that holds self._lock
    \* the worker thread
    pc, doc,
    mem,        \* its copy of the task
    cursor,     \* position in StageOrder
    draft,      \* new bundle contents between unlink and rename
    touched,    \* stores written by publish, or still to be compensated
    code,       \* code of the exception being handled
    \* bounds
    crashes, requests, faults

disk    == <<bundle, parsed, chunked, index>>
process == <<phase, unscanned, call>>
worker  == <<pc, doc, mem, cursor, draft, touched, code>>
bounds  == <<crashes, requests, faults>>
vars == <<task, disk, process, queue, enqueued, worker, bounds>>

-----------------------------------------------------------------------------
(* The stages and the stores *)

StageOrder == << "parse", "chunk", "text_index", "sparse_index",
                 "multimodal_index", "visual_index", "publish", "verify", "graph" >>
Stages == { "parse", "chunk", "text_index", "sparse_index",
            "multimodal_index", "visual_index", "publish", "verify", "graph" }
Last == 9

\* Stages never skipped unless the bundle shows their result (_HEAVY_STAGES
\* without those _stage_is_ready looks up in the bundle).
AlwaysRunWithoutPublish == {"parse", "verify"}  \* mutant: publish may be skipped
AlwaysRun == {"parse", "publish", "verify"}

\* What each prepare stage leaves in the bundle.
BundleKeys == {"text", "bm25", "multimodal", "visual"}
PreparedBy == [ text |-> "text_index", bm25 |-> "sparse_index",
                multimodal |-> "multimodal_index", visual |-> "visual_index" ]
EmptyBundle == [k \in BundleKeys |-> 0]

Stores == {"evidence", "text", "multimodal", "bm25", "visual"}
PublishedStores == IF VisualEnabled THEN Stores ELSE Stores \ {"visual"}
\* Publication order: evidence, text, multimodal, bm25, visual.
PublishAfter == [ evidence |-> {}, text |-> {"evidence"},
                  multimodal |-> {"evidence", "text"},
                  bm25 |-> {"evidence", "text", "multimodal"},
                  visual |-> {"evidence", "text", "multimodal", "bm25"} ]
\* Compensation order: text, multimodal, bm25, visual, evidence.
UndoAfter == [ text |-> {}, multimodal |-> {"text"},
               bm25 |-> {"text", "multimodal"},
               visual |-> {"text", "multimodal", "bm25"},
               evidence |-> {"text", "multimodal", "bm25", "visual"} ]
SourceKey(s) == IF s = "evidence" THEN "multimodal" ELSE s

Version0 == Versions \cup {0}
SameCount(v, w) == v # 0 /\ w # 0 /\ ChunkCount[v] = ChunkCount[w]

Statuses == {"none", "queued", "running", "completed", "failed"}
StageStatuses == {"pending", "running", "completed", "failed", "skipped", "interrupted"}
Codes == {"none", "external", "missing_input", "publish_failed",
          "verify_failed", "ingestion_interrupted"}
Task == [ status : Statuses, attempts : Nat, current : Stages \cup {"none"},
          stages : [Stages -> StageStatuses], code : Codes,
          indexes : SUBSET BundleKeys ]

\* A task just built or reset by _prepare_task.
Prepared(attempts) ==
    [ status |-> "queued", attempts |-> attempts, current |-> "none",
      stages |-> [s \in Stages |-> "pending"], code |-> "none", indexes |-> {} ]
NoTask == [Prepared(0) EXCEPT !.status = "none"]

NoCall == [op |-> "none", doc |-> "none", task |-> NoTask]
NoDoc == "none"
Stage == StageOrder[cursor]

QueuedDocs == {queue[i] : i \in DOMAIN queue}

Init ==
    /\ task = [d \in Docs |-> NoTask]
    /\ bundle = [d \in Docs |-> EmptyBundle]
    /\ parsed = [d \in Docs |-> 0]
    /\ chunked = [d \in Docs |-> 0]
    /\ index = [d \in Docs |-> [s \in Stores |-> 0]]
    /\ phase = "up" /\ unscanned = {}
    /\ queue = <<>> /\ enqueued = {} /\ call = NoCall
    /\ pc = "idle" /\ doc = NoDoc /\ mem = NoTask /\ cursor = 1
    /\ draft = EmptyBundle /\ touched = {} /\ code = "none"
    /\ crashes = 0 /\ requests = 0 /\ faults = 0

-----------------------------------------------------------------------------
(* Facade: enqueue and retry, under self._lock *)

\* Mutant: every known task may be forced or retried.
EligibleAnyStatus(op, t) == IF op = "enqueue" THEN t.status = "none" ELSE t.status # "none"

\* The calls that do not return early: enqueue of a new document, forced
\* enqueue of a failed one, retry of a failed one.
Eligible(op, t) ==
    CASE op = "enqueue" -> t.status = "none"
      [] op = "force"   -> t.status = "failed"
      [] op = "retry"   -> t.status = "failed"

FacadeRead(d, op) ==
    /\ phase = "up" /\ call = NoCall
    /\ requests < MaxRequests
    /\ Eligible(op, task[d])
    /\ call' = [op |-> op, doc |-> d, task |-> task[d]]
    /\ requests' = requests + 1
    /\ UNCHANGED <<task, disk, phase, unscanned, queue, enqueued, worker, crashes, faults>>

\* Mutants: the check of self._enqueued is dropped; the put is forgotten.
EnqueueAgain(d) == queue' = Append(queue, d) /\ enqueued' = enqueued \cup {d}
EnqueueMarksOnly(d) == UNCHANGED queue /\ enqueued' = enqueued \cup {d}

\* _enqueue_document: a document already in self._enqueued is not put again.
EnqueueDocument(d) ==
    IF d \in enqueued
    THEN UNCHANGED <<queue, enqueued>>
    ELSE queue' = Append(queue, d) /\ enqueued' = enqueued \cup {d}

FacadeWrite ==
    /\ phase = "up" /\ call # NoCall
    /\ task' = [task EXCEPT ![call.doc] =
                    Prepared(IF call.op = "retry" THEN 0 ELSE call.task.attempts)]
    /\ EnqueueDocument(call.doc)
    /\ call' = NoCall
    /\ UNCHANGED <<disk, phase, unscanned, worker, bounds>>

FacadeWriteFails ==
    /\ phase = "up" /\ call # NoCall
    /\ faults < MaxWriteFaults
    /\ faults' = faults + 1
    /\ call' = NoCall
    /\ UNCHANGED <<task, disk, phase, unscanned, queue, enqueued, worker, crashes, requests>>

-----------------------------------------------------------------------------
(* Worker thread: the loop and one document *)

Take ==
    /\ phase = "up" /\ pc = "idle" /\ queue # <<>>
    /\ doc' = Head(queue) /\ queue' = Tail(queue)
    /\ pc' = "taken"
    /\ UNCHANGED <<task, disk, process, enqueued, mem, cursor, draft, touched, code, bounds>>

\* _run_document reads the task without the lock and leaves unless it is queued.
ReadTask ==
    /\ phase = "up" /\ pc = "taken"
    /\ IF task[doc].status = "queued"
       THEN pc' = "start" /\ mem' = task[doc]
       ELSE pc' = "release" /\ mem' = mem
    /\ UNCHANGED <<task, disk, process, queue, enqueued, doc, cursor, draft, touched, code, bounds>>

\* Every write of the task by the thread: memory and file become t.
WriteTask(t) == mem' = t /\ task' = [task EXCEPT ![doc] = t]

StartRun ==
    /\ phase = "up" /\ pc = "start"
    /\ WriteTask([mem EXCEPT !.status = "running", !.attempts = @ + 1])
    /\ pc' = "next" /\ cursor' = 1
    /\ UNCHANGED <<disk, process, queue, enqueued, doc, draft, touched, code, bounds>>

\* _stage_is_ready: graph and chunk are taken at their word, a prepare stage
\* needs its part of the bundle, the others always run again.
StageIsReady(s) ==
    /\ mem.stages[s] = "completed"
    /\ s \notin AlwaysRun
    /\ \A k \in BundleKeys : PreparedBy[k] = s => bundle[doc][k] # 0

SkipStage ==
    /\ phase = "up" /\ pc = "next" /\ cursor <= Last
    /\ StageIsReady(Stage)
    /\ WriteTask([mem EXCEPT !.stages[Stage] = "skipped"])
    /\ cursor' = cursor + 1
    /\ UNCHANGED <<disk, process, queue, enqueued, pc, doc, draft, touched, code, bounds>>

BeginStage ==
    /\ phase = "up" /\ pc = "next" /\ cursor <= Last
    /\ ~StageIsReady(Stage)
    /\ WriteTask([mem EXCEPT !.stages[Stage] = "running", !.current = Stage])
    /\ pc' = "handler"
    /\ UNCHANGED <<disk, process, queue, enqueued, doc, cursor, draft, touched, code, bounds>>

\* The loop over the stages is over without _finish_task.
EndRun ==
    /\ phase = "up" /\ pc = "next" /\ cursor > Last
    /\ pc' = "release"
    /\ UNCHANGED <<task, disk, process, queue, enqueued, doc, mem, cursor, draft, touched, code, bounds>>

\* self._enqueued.discard under the lock, which no facade call may hold.
Release ==
    /\ phase = "up" /\ pc = "release" /\ call = NoCall
    /\ enqueued' = enqueued \ {doc}
    /\ pc' = "idle" /\ doc' = NoDoc /\ mem' = NoTask /\ cursor' = 1
    /\ draft' = EmptyBundle /\ touched' = {} /\ code' = "none"
    /\ UNCHANGED <<task, disk, process, queue, bounds>>

-----------------------------------------------------------------------------
(* Worker thread: the stage handlers *)

InHandler(s) == phase = "up" /\ pc = "handler" /\ Stage = s
Raise(c) == pc' = "raise" /\ code' = c

\* Any handler but graph may fail for a reason outside the model; publish and
\* visual_index have their own failures as well.
HandlerFails ==
    /\ StageMayFail
    /\ phase = "up" /\ pc = "handler" /\ Stage # "graph"
    /\ Raise("external")
    /\ UNCHANGED <<task, disk, process, queue, enqueued, doc, mem, cursor, draft, touched, bounds>>

\* parse_document_file: a new canonical document; chunks and evidence computed
\* from the previous one are trashed.
Parse ==
    /\ InHandler("parse")
    /\ \E v \in Versions : parsed' = [parsed EXCEPT ![doc] = v]
    /\ chunked' = [chunked EXCEPT ![doc] = 0]
    /\ index' = [index EXCEPT ![doc]["evidence"] = 0]
    /\ pc' = "handled"
    /\ UNCHANGED <<task, bundle, process, queue, enqueued, doc, mem, cursor, draft, touched, code, bounds>>

Chunk ==
    /\ InHandler("chunk")
    /\ IF parsed[doc] = 0
       THEN Raise("missing_input") /\ UNCHANGED chunked
       ELSE /\ chunked' = [chunked EXCEPT ![doc] = parsed[doc]]
            /\ pc' = "handled" /\ UNCHANGED code
    /\ UNCHANGED <<task, bundle, parsed, index, process, queue, enqueued, doc, mem, cursor, draft, touched, bounds>>

\* The version a prepare stage computes its points from; 0: its input is missing.
Input(k) ==
    CASE k \in {"text", "bm25"} -> chunked[doc]
      [] k = "multimodal"       -> parsed[doc]
      [] k = "visual"           -> IF VisualEnabled THEN bundle[doc]["multimodal"]
                                                    ELSE parsed[doc]

\* text_index, sparse_index, multimodal_index, visual_index: compute, then
\* write_bundle, which unlinks the old bundle before it renames the new one.
Prepare(k) ==
    /\ InHandler(PreparedBy[k])
    /\ IF Input(k) = 0
       THEN Raise("missing_input") /\ UNCHANGED <<bundle, draft>>
       ELSE /\ draft' = [bundle[doc] EXCEPT ![k] = Input(k)]
            /\ bundle' = [bundle EXCEPT ![doc] = EmptyBundle]
            /\ pc' = "rewrite" /\ UNCHANGED code
    /\ UNCHANGED <<task, parsed, chunked, index, process, queue, enqueued, doc, mem, cursor, touched, bounds>>

RewriteBundle ==
    /\ phase = "up" /\ pc = "rewrite"
    /\ bundle' = [bundle EXCEPT ![doc] = draft]
    /\ draft' = EmptyBundle
    /\ pc' = "handled"
    /\ UNCHANGED <<task, parsed, chunked, index, process, queue, enqueued, doc, mem, cursor, touched, code, bounds>>

\* The rename fails: the old bundle is gone and the stage fails.
RewriteBundleFails ==
    /\ StageMayFail
    /\ phase = "up" /\ pc = "rewrite"
    /\ draft' = EmptyBundle
    /\ Raise("external")
    /\ UNCHANGED <<task, disk, process, queue, enqueued, doc, mem, cursor, touched, bounds>>

BeginPublish ==
    /\ InHandler("publish")
    /\ IF \E k \in {"text", "bm25", "multimodal"} : bundle[doc][k] = 0
       THEN Raise("missing_input") /\ UNCHANGED touched
       ELSE pc' = "publish" /\ touched' = {} /\ UNCHANGED code
    /\ UNCHANGED <<task, disk, process, queue, enqueued, doc, mem, cursor, draft, bounds>>

NextToPublish(s) == s \in PublishedStores \ touched /\ PublishAfter[s] \subseteq touched

PublishStore(s) ==
    /\ phase = "up" /\ pc = "publish" /\ NextToPublish(s)
    /\ index' = [index EXCEPT ![doc][s] = bundle[doc][SourceKey(s)]]
    /\ touched' = touched \cup {s}
    /\ UNCHANGED <<task, bundle, parsed, chunked, process, queue, enqueued, pc, doc, mem, cursor, draft, code, bounds>>

\* A store fails: its own rollback kept the old points, lost them, or left the
\* new ones; it is compensated unless its client could not be built.
PublishStoreFails(s) ==
    /\ StageMayFail
    /\ phase = "up" /\ pc = "publish" /\ NextToPublish(s)
    /\ \E v \in {index[doc][s], 0, bundle[doc][SourceKey(s)]} :
           index' = [index EXCEPT ![doc][s] = IF s = "evidence" THEN index[doc][s] ELSE v]
    /\ touched' \in {touched, touched \cup ({s} \ {"evidence"})}
    /\ pc' = "undo"
    /\ UNCHANGED <<task, bundle, parsed, chunked, process, queue, enqueued, doc, mem, cursor, draft, code, bounds>>

EndPublish ==
    /\ phase = "up" /\ pc = "publish" /\ touched = PublishedStores
    /\ pc' = "handled" /\ touched' = {}
    /\ UNCHANGED <<task, disk, process, queue, enqueued, doc, mem, cursor, draft, code, bounds>>

\* _compensate_publish: one delete per store, in order ...
Undo(s) ==
    /\ phase = "up" /\ pc = "undo"
    /\ s \in touched /\ UndoAfter[s] \cap touched = {}
    /\ index' = [index EXCEPT ![doc][s] = 0]
    /\ touched' = touched \ {s}
    /\ UNCHANGED <<task, bundle, parsed, chunked, process, queue, enqueued, pc, doc, mem, cursor, draft, code, bounds>>

\* ... and the first one that fails ends the compensation, silently.
EndUndo ==
    /\ phase = "up" /\ pc = "undo"
    /\ touched = {} \/ CompensationMayFail
    /\ touched' = {}
    /\ Raise("publish_failed")
    /\ UNCHANGED <<task, disk, process, queue, enqueued, doc, mem, cursor, draft, bounds>>

\* verify compares counts with the bundle, and visual entries by identity.
Verified ==
    /\ SameCount(chunked[doc], bundle[doc]["text"])
    /\ SameCount(index[doc]["text"], bundle[doc]["text"])
    /\ SameCount(index[doc]["bm25"], bundle[doc]["text"])
    /\ SameCount(index[doc]["multimodal"], bundle[doc]["multimodal"])
    /\ VisualEnabled => index[doc]["visual"] = bundle[doc]["visual"]

Verify ==
    /\ InHandler("verify")
    /\ IF chunked[doc] = 0 THEN Raise("missing_input")
       ELSE IF ~Verified   THEN Raise("verify_failed")
       ELSE pc' = "handled" /\ UNCHANGED code
    /\ UNCHANGED <<task, disk, process, queue, enqueued, doc, mem, cursor, draft, touched, bounds>>

\* The graph is not built by this pipeline: the handler returns at once.
Graph ==
    /\ InHandler("graph")
    /\ pc' = "handled"
    /\ UNCHANGED <<task, disk, process, queue, enqueued, doc, mem, cursor, draft, touched, code, bounds>>

-----------------------------------------------------------------------------
(* Worker thread: outcome of a stage *)

\* _apply_details: the index flags the user interface reads.
FlagsAfter(s) ==
    CASE s = "publish" -> mem.indexes \cup (PublishedStores \ {"evidence"})
      [] s = "verify"  -> mem.indexes \cup {"text", "bm25", "multimodal"}
                            \cup (IF VisualEnabled THEN {"visual"} ELSE {})
      [] OTHER         -> mem.indexes

CompleteStage ==
    /\ phase = "up" /\ pc = "handled"
    /\ WriteTask([mem EXCEPT !.stages[Stage] = "completed", !.indexes = FlagsAfter(Stage)])
    /\ pc' = IF cursor = Last THEN "finish" ELSE "next"
    /\ cursor' = IF cursor = Last THEN cursor ELSE cursor + 1
    /\ UNCHANGED <<disk, process, queue, enqueued, doc, draft, touched, code, bounds>>

FailStage ==
    /\ phase = "up" /\ pc = "raise"
    /\ WriteTask([mem EXCEPT !.status = "failed", !.stages[Stage] = "failed",
                             !.current = Stage, !.code = code])
    /\ pc' = "release"
    /\ UNCHANGED <<disk, process, queue, enqueued, doc, cursor, draft, touched, code, bounds>>

FinishTask ==
    /\ phase = "up" /\ pc = "finish"
    /\ WriteTask([mem EXCEPT !.status = "completed", !.current = "none"])
    /\ pc' = "release"
    /\ UNCHANGED <<disk, process, queue, enqueued, doc, cursor, draft, touched, code, bounds>>

\* A write of the task file fails: the exception ends _run_document, the loop
\* logs it and releases the document; the file keeps its last state.
WorkerWriteFails ==
    /\ faults < MaxWriteFaults
    /\ phase = "up" /\ pc \in {"start", "next", "handled", "raise", "finish"}
    /\ pc = "next" => cursor <= Last
    /\ faults' = faults + 1
    /\ pc' = "release"
    /\ UNCHANGED <<task, disk, process, queue, enqueued, doc, mem, cursor, draft, touched, code, crashes, requests>>

-----------------------------------------------------------------------------
(* Process death and restart *)

\* The process dies (a stop that times out after ten seconds included).
Crash ==
    /\ phase # "down" /\ crashes < MaxCrashes
    /\ crashes' = crashes + 1
    /\ phase' = "down" /\ unscanned' = {}
    /\ queue' = <<>> /\ enqueued' = {} /\ call' = NoCall
    /\ pc' = "idle" /\ doc' = NoDoc /\ mem' = NoTask /\ cursor' = 1
    /\ draft' = EmptyBundle /\ touched' = {} /\ code' = "none"
    /\ UNCHANGED <<task, disk, requests, faults>>

Restart ==
    /\ phase = "down"
    /\ phase' = "recovering"
    /\ unscanned' = {d \in Docs : task[d].status \in {"queued", "running"}}
    /\ UNCHANGED <<task, disk, queue, enqueued, call, worker, bounds>>

Exhausted(t) == t.attempts >= MaxAttempts

\* One iteration of _recover_interrupted.  start() puts the recovered documents
\* on the queue after the scan; nothing takes them before.
Recover(d) ==
    LET t == task[d]
        stopped == IF t.current # "none" /\ t.stages[t.current] = "running"
                   THEN [t EXCEPT !.stages[t.current] = "interrupted"] ELSE t
    IN
    /\ phase = "recovering" /\ d \in unscanned
    /\ unscanned' = unscanned \ {d}
    /\ IF Exhausted(t)
       THEN /\ task' = [task EXCEPT ![d] = [stopped EXCEPT !.status = "failed",
                                                           !.code = "ingestion_interrupted"]]
            /\ UNCHANGED <<queue, enqueued>>
       ELSE /\ task' = [task EXCEPT ![d] = [stopped EXCEPT !.status = "queued",
                                                           !.current = "none"]]
            /\ EnqueueDocument(d)
    /\ UNCHANGED <<disk, phase, call, worker, bounds>>

StartThread ==
    /\ phase = "recovering" /\ unscanned = {}
    /\ phase' = "up"
    /\ UNCHANGED <<task, disk, unscanned, queue, enqueued, call, worker, bounds>>

-----------------------------------------------------------------------------
Facade == \/ \E d \in Docs, op \in FacadeOps : FacadeRead(d, op)
          \/ FacadeWrite \/ FacadeWriteFails

RunStage == \/ HandlerFails \/ Parse \/ Chunk \/ \E k \in BundleKeys : Prepare(k)
            \/ RewriteBundle \/ RewriteBundleFails
            \/ BeginPublish \/ (\E s \in Stores : PublishStore(s) \/ PublishStoreFails(s))
            \/ EndPublish \/ (\E s \in Stores : Undo(s)) \/ EndUndo
            \/ Verify \/ Graph
            \/ CompleteStage \/ FailStage \/ FinishTask

WorkerLoop == \/ Take \/ ReadTask \/ StartRun \/ SkipStage \/ BeginStage
              \/ EndRun \/ Release \/ RunStage

Recovery == Restart \/ (\E d \in Docs : Recover(d)) \/ StartThread

Next == Facade \/ WorkerLoop \/ WorkerWriteFails \/ Crash \/ Recovery

Spec == Init /\ [][Next]_vars

\* The thread keeps running, a facade call that holds the lock goes on, and a
\* dead process is started again.  Nothing says that a call is ever made.
FairSpec == /\ Spec
            /\ WF_vars(WorkerLoop)
            /\ WF_vars(FacadeWrite)
            /\ WF_vars(Recovery)
-----------------------------------------------------------------------------
(* Properties *)

\* Types of every variable.
TypeOK ==
    /\ task \in [Docs -> Task]
    /\ bundle \in [Docs -> [BundleKeys -> Version0]]
    /\ parsed \in [Docs -> Version0] /\ chunked \in [Docs -> Version0]
    /\ index \in [Docs -> [Stores -> Version0]]
    /\ phase \in {"up", "down", "recovering"}
    /\ unscanned \subseteq Docs
    /\ queue \in Seq(Docs) /\ enqueued \subseteq Docs
    /\ \/ call = NoCall
       \/ call \in [op : FacadeOps, doc : Docs, task : Task]
    /\ pc \in {"idle", "taken", "start", "next", "handler", "rewrite", "publish",
               "undo", "handled", "raise", "finish", "release"}
    /\ IF pc = "idle" THEN doc = NoDoc ELSE doc \in Docs
    /\ mem \in Task
    /\ cursor \in 1..(Last + 1)
    /\ pc \notin {"next", "release"} => cursor <= Last
    /\ draft \in [BundleKeys -> Version0]
    /\ touched \subseteq Stores /\ code \in Codes
    /\ crashes \in 0..MaxCrashes /\ requests \in 0..MaxRequests
    /\ faults \in 0..MaxWriteFaults

\* While the thread runs a document, its copy of the task is the file: no facade
\* call writes the file between two writes of the thread, although the thread
\* writes without the lock (worker.py "idempotent while a run is pending or
\* running").
Running == {"next", "handler", "rewrite", "publish", "undo", "handled", "raise", "finish"}
WorkerOwnsTask ==
    /\ pc = "start" => mem = task[doc] /\ mem.status = "queued"
    /\ pc \in Running => mem = task[doc] /\ mem.status = "running"

\* A document is scheduled at most once: the queue has no duplicate, a document
\* being processed is not in the queue, and self._enqueued is exactly the
\* documents in the queue or in the thread's hands (docs/architecture/
\* auto-ingestion.md: one document is never processed concurrently).
ScheduledOnce ==
    /\ \A i, j \in DOMAIN queue : queue[i] = queue[j] => i = j
    /\ doc \notin QueuedDocs
    /\ enqueued = QueuedDocs \cup ({doc} \ {NoDoc})

\* A completed task means what the user interface shows as ready: chunks and
\* every enabled index are there, with the chunk and representation counts the
\* bundle announced and, for the visual index, exactly the bundle's entries; the
\* index flags of the task are exactly the indexes written, whatever crashes,
\* skipped stages, retries and failed compensations came before.  (The points of
\* a document without images are a version too: the empty set of entries.)
Published(d) ==
    /\ parsed[d] # 0
    /\ index[d]["evidence"] # 0
    /\ SameCount(chunked[d], index[d]["text"])
    /\ SameCount(chunked[d], index[d]["bm25"])
    /\ SameCount(bundle[d]["multimodal"], index[d]["multimodal"])
    /\ VisualEnabled => /\ index[d]["visual"] # 0
                        /\ index[d]["visual"] = bundle[d]["visual"]
CompletedIsPublished ==
    \A d \in Docs : task[d].status = "completed" =>
        /\ Published(d)
        /\ task[d].indexes = PublishedStores \ {"evidence"}

\* "Completed documents are immutable through this pipeline": no retry, forced
\* enqueue, crash or recovery changes the task, the artifacts or the indexes of a
\* completed document.
CompletedIsImmutable ==
    [][\A d \in Docs : task[d].status = "completed" =>
           /\ task'[d] = task[d] /\ bundle'[d] = bundle[d]
           /\ parsed'[d] = parsed[d] /\ chunked'[d] = chunked[d]
           /\ index'[d] = index[d]]_vars

\* What the thread can leave behind: an unsettled task that neither the queue nor
\* the thread holds.  It is refused by enqueue and retry, which return any queued
\* or running task as it is; only the next start of the process takes it up.
Waits(d)   == task[d].status \in {"queued", "running"}
Settled(d) == task[d].status \in {"completed", "failed"}
Dropped(d) == phase = "up" /\ Waits(d) /\ d \notin enqueued

\* The three ways there.  A retry or forced enqueue came between the last write of
\* a failing run and its release: the put found the document in self._enqueued.
\* The process died between the last stage and _finish_task: the next run skips
\* the last stage, and with it the end of the task.  A write of the task failed.
RequeueLost(d)      == Dropped(d) /\ task[d].status = "queued" /\ requests > 1
FinishSkipped(d)    == Dropped(d) /\ task[d].stages["graph"] = "skipped"
OutcomeUnwritten(d) == Dropped(d) /\ faults > 0

\* Whatever the stages, the calls, a death or a failing write do, a task that waits
\* or runs is settled in the end, completed or failed, unless it ends in one of
\* the three ways above: no document is lost in the queue, none is kept waiting
\* for ever by another one, no call or scan blocks the thread.
SettlesUnlessDropped ==
    \A d \in Docs : Waits(d) ~> \/ Settled(d)
                                \/ RequeueLost(d)
                                \/ FinishSkipped(d)
                                \/ OutcomeUnwritten(d)

\* What docs/architecture/auto-ingestion.md says of a retry, that it queues the
\* document again: with no death and no failing write every waiting task settles.
EveryTaskSettles == \A d \in Docs : Waits(d) ~> Settled(d)
=============================================================================
