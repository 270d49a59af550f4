--------------------------- MODULE GraphCorpusBuild ---------------------------
(***************************************************************************)
(* The resumable build of the knowledge graph from a corpus                *)
(* (evaluation/graph_corpus_build.py) over the Neo4j store                 *)
(* (graph/neo4j.py): runs of one checkpoint directory, one after the       *)
(* other, each with its own --retry-failed and --reprocess.  A run may be  *)
(* cancelled at every await and die between any two writes.                *)
(*                                                                         *)
(* What a chunk contributes to the graph is named by the chunk: the        *)
(* extraction asks at temperature 0 and its ids are derived from content.  *)
(***************************************************************************)
EXTENDS Naturals, Sequences, FiniteSets, SequencesExt, FiniteSetsExt

CONSTANTS
    Windows,        \* the documents in their order, cut into linking windows
    ChunksOf,       \* [document -> its chunks in their order]
    MaxConcurrency, \* chunks of a document that are extracted together
    Threshold,      \* DEFAULT_PROVIDER_BLOCK_THRESHOLD
    Signatures,     \* _NON_RETRYABLE_PROVIDER_STATUS_CODES
    MaxRuns,        \* bound: runs of this directory
    MaxInterrupts,  \* bound: cancellations and deaths
    MaxFaults       \* bound: failing calls of the store

Docs == UNION {ToSet(w) : w \in ToSet(Windows)}
Of(d) == ToSet(ChunksOf[d])
Chunks == UNION {Of(d) : d \in Docs}

ASSUME BuildAssumption ==
    /\ Windows \in Seq(Seq(DOMAIN ChunksOf)) /\ Windows # <<>> /\ <<>> \notin ToSet(Windows)
    /\ \A w \in ToSet(Windows) : IsInjective(w)
    /\ \A i, j \in 1..Len(Windows) : i # j => ToSet(Windows[i]) \cap ToSet(Windows[j]) = {}
    /\ \A d \in Docs : ChunksOf[d] \in Seq(Of(d))
    /\ \A d, e \in Docs : d # e => Of(d) \cap Of(e) = {}
    /\ {MaxConcurrency, Threshold} \subseteq Nat \ {0} /\ "none" \notin Signatures
    /\ {MaxRuns, MaxInterrupts, MaxFaults} \subseteq Nat

VARIABLES
    chunkLog, docLog, linkLog, \* the last checkpoint of each chunk, document and window
    manifest,  \* run-manifest.json: status, and what it lists as failed
    evidence,  \* the chunks whose facts are in the graph
    links,     \* the pairs of chunks whose entities have a current decision
    \* the run:
    pc, opts,
    mem,       \* its copy of the lists of the manifest
    left, rest, \* documents of this window it has not concluded, later windows
    rebuild, force, \* rebuild_graph, force_reprocess
    todo, seen, \* chunks of the document not scheduled, chunks with an outcome
    task,      \* [c -> "idle", "calling", "storing" or "stored"]
    linkable, relink, key, \* linkable_documents, force_relink, batch_key
    blocked, signature, streak, \* _provider_blocked, _fatal_provider_signature, ..._failure_count
    \* history:
    torn,      \* documents of which a rebuild has deleted more than it has restored
    unlinked,  \* documents rebuilt and since then not linked
    row,       \* the same fatal answer to extractions in a row, and how often
    late,      \* windows whose linking has asked a blocked provider
    runs, interrupts, faults

logs == <<chunkLog, docLog, linkLog, manifest>>
graph == <<evidence, links>>
window == <<left, rest, linkable, relink, key>>
work == <<rebuild, force, todo, seen, task>>
breaker == <<blocked, signature, streak, row, late>>
history == <<torn, unlinked>>
bounds == <<runs, interrupts, faults>>
vars == <<logs, graph, pc, opts, mem, window, work, breaker, history, bounds>>

NoKey == [docs |-> {}, facts |-> {}]
AllIdle == [c \in Chunks |-> "idle"]
NoRow == [of |-> "none", times |-> 0]
NoLists == [docs |-> {}, keys |-> {}]
\* Mutant: a provider that refuses is asked on.
AsksOn == TRUE
Asks == ~blocked
NoOptions == [retry |-> FALSE, reprocess |-> FALSE]

Init ==
    /\ chunkLog = [c \in Chunks |-> "none"]
    /\ docLog = [d \in Docs |-> [status |-> "none", linked |-> FALSE, barred |-> FALSE]]
    /\ linkLog = [k \in {} |-> "none"]
    /\ manifest = [status |-> "none", lists |-> NoLists]
    /\ evidence = {} /\ links = {} /\ pc = "off" /\ opts = NoOptions /\ mem = NoLists
    /\ left = <<>> /\ rest = <<>> /\ linkable = <<>> /\ relink = FALSE /\ key = NoKey
    /\ rebuild = FALSE /\ force = FALSE /\ todo = <<>> /\ seen = {} /\ task = AllIdle
    /\ blocked = FALSE /\ signature = "none" /\ streak = 0 /\ row = NoRow /\ late = 0
    /\ torn = {} /\ unlinked = {} /\ runs = 0 /\ interrupts = 0 /\ faults = 0

Doc == Head(left)
Completed(c) == chunkLog[c] \in {"stored", "empty"}
Save(status) == manifest' = [status |-> status, lists |-> mem']
\* The run is over, and with it what it had in memory.
Off ==
    /\ pc' = "off" /\ opts' = NoOptions /\ mem' = NoLists
    /\ left' = <<>> /\ rest' = <<>> /\ linkable' = <<>> /\ relink' = FALSE /\ key' = NoKey
    /\ rebuild' = FALSE /\ force' = FALSE /\ todo' = <<>> /\ seen' = {} /\ task' = AllIdle
    /\ blocked' = FALSE /\ signature' = "none" /\ streak' = 0 /\ row' = NoRow /\ late' = 0
Checkpoint(d, r) == docLog' = [docLog EXCEPT ![d] = r]

\* run, until its first document.
StartRun ==
    /\ pc = "off" /\ runs < MaxRuns /\ runs' = runs + 1
    /\ opts' \in [retry: BOOLEAN, reprocess: BOOLEAN]
    /\ mem' = manifest.lists /\ Save("running")
    /\ left' = Head(Windows) /\ rest' = Tail(Windows) /\ pc' = "document"
    /\ UNCHANGED <<chunkLog, docLog, linkLog, graph, linkable, relink, key, work, breaker,
                   history, interrupts, faults>>

\* A GraphStoreError or a GraphCorpusBuildError that leaves run.
RunFails ==
    /\ manifest' = [status |-> IF blocked THEN "provider_blocked" ELSE "partial_failure",
                    lists |-> mem]
    /\ Off
Fault == faults < MaxFaults /\ faults' = faults + 1 /\ UNCHANGED <<runs, interrupts>>

-----------------------------------------------------------------------------
(* Neo4jGraphStore: each call is one transaction *)

DeleteLinks(ds) == links' = {p \in links : \A d \in ds : p \cap Of(d) = {}}
Deleted(d) ==
    /\ evidence' = evidence \ Of(d) /\ DeleteLinks({d})
    /\ torn' = torn \cup {d} /\ unlinked' = unlinked \cup {d}
Untouched == UNCHANGED <<graph, history>>
HasState(d) == evidence \cap Of(d) # {}
Pairs(ds) == kSubset(2, evidence \cap UNION {Of(d) : d \in ds})

-----------------------------------------------------------------------------
(* _process_document *)

Reusable(d) ==
    /\ docLog[d].status = "completed" /\ ~opts.reprocess
    /\ \A c \in Of(d) : Completed(c)

Reuse ==
    /\ pc = "document" /\ Reusable(Doc)
    /\ seen' = Of(Doc) /\ rebuild' = FALSE /\ pc' = "conclude"
    /\ UNCHANGED <<logs, graph, opts, mem, window, force, todo, task, breaker, history, bounds>>

Rebuild(d) ==
    \/ opts.reprocess
    \/ docLog[d].status = "completed" \* and a chunk that is not
    \/ docLog[d].status = "cancelled" /\ HasState(d)

\* State in the graph that no checkpoint accounts for is an error.
BeginDocument ==
    /\ pc = "document" /\ ~Reusable(Doc)
    /\ \/ /\ docLog[Doc].status = "none" /\ HasState(Doc) /\ ~opts.reprocess
          /\ RunFails /\ UNCHANGED bounds
       \/ /\ docLog[Doc].status = "none" /\ HasState(Doc) => opts.reprocess
          /\ rebuild' = Rebuild(Doc)
          /\ force' = (Rebuild(Doc) \/ docLog[Doc].status = "none")
          /\ todo' = ChunksOf[Doc] /\ seen' = {}
          /\ pc' = IF Rebuild(Doc) THEN "clean" ELSE "chunks"
          /\ UNCHANGED <<manifest, opts, mem, window, task, breaker, bounds>>
       \/ Fault /\ RunFails
    /\ UNCHANGED <<chunkLog, docLog, linkLog>> /\ Untouched

\* delete_document
Clean ==
    /\ pc = "clean"
    /\ \/ /\ Deleted(Doc) /\ pc' = "chunks"
          /\ UNCHANGED <<manifest, opts, mem, window, work, breaker, bounds>>
       \/ Fault /\ RunFails /\ (Deleted(Doc) \/ Untouched)
    /\ UNCHANGED <<chunkLog, docLog, linkLog>>

Active == {c \in Chunks : task[c] # "idle"}
Schedule == todo # <<>> /\ Asks

\* A chunk that failed and is not asked for again.
Spared(c) == chunkLog[c] = "failed" /\ ~opts.retry

\* The next chunks are scheduled; _process_chunk reuses what it may.
BeginSlice ==
    /\ pc = "chunks" /\ Active = {} /\ Schedule
    /\ LET n == Min({MaxConcurrency, Len(todo)})
           slice == ToSet(SubSeq(todo, 1, n))
           reused == {c \in slice : ~force /\ (Completed(c) \/ Spared(c))}
       IN /\ task' = [c \in Chunks |-> IF c \in slice \ reused THEN "calling" ELSE "idle"]
          /\ seen' = seen \cup slice /\ todo' = SubSeq(todo, n + 1, Len(todo))
    /\ UNCHANGED <<logs, graph, pc, opts, mem, window, rebuild, force, breaker, history, bounds>>

Outcome(c, status) ==
    chunkLog' = [chunkLog EXCEPT ![c] = status] /\ task' = [task EXCEPT ![c] = "idle"]

\* _record_provider_success, and a failure that is not fatal.
NotFatal ==
    /\ IF blocked THEN UNCHANGED <<signature, streak>> ELSE signature' = "none" /\ streak' = 0
    /\ row' = NoRow /\ UNCHANGED <<manifest, blocked, late>>
Trips ==
    /\ blocked' = (streak' >= Threshold)
    /\ IF blocked' /\ ~blocked THEN manifest' = [status |-> "provider_blocked", lists |-> mem]
                               ELSE UNCHANGED manifest
\* _record_provider_failure: an explicit 4xx; another one than the last is the first of its row.
Fatal(s) ==
    /\ row' = [of |-> s, times |-> IF s = row.of THEN row.times + 1 ELSE 1]
    /\ IF blocked THEN UNCHANGED <<signature, streak>>
       ELSE signature' = s /\ streak' = IF s = signature THEN streak + 1 ELSE 1
    /\ Trips /\ late' = late
\* An error that is none of the extraction's is not recorded.
Unrecorded == UNCHANGED <<manifest, breaker>>

\* extract_chunk: accepted; empty, or nothing of it grounded; rejected by its
\* schema, or a passing failure; a fatal one; an unexpected one.
Extracted(c) ==
    /\ task[c] = "calling"
    /\ \/ task' = [task EXCEPT ![c] = "storing"] /\ NotFatal /\ UNCHANGED chunkLog
       \/ Outcome(c, "empty") /\ NotFatal
       \/ Outcome(c, "failed") /\ (NotFatal \/ Unrecorded \/ \E s \in Signatures : Fatal(s))
    /\ UNCHANGED <<docLog, linkLog, graph, pc, opts, mem, window, rebuild, force, todo, seen,
                   history, bounds>>

\* Mutant: a failing call of the store is taken for its success.
Unreported(c) == task' = [task EXCEPT ![c] = "stored"] /\ UNCHANGED chunkLog
\* The answer is there, its facts may or may not be.
StoreFails(c) == Outcome(c, "failed")

\* upsert_extraction
Store(c) ==
    /\ task[c] = "storing"
    /\ \/ /\ evidence' = evidence \cup {c} /\ task' = [task EXCEPT ![c] = "stored"]
          /\ UNCHANGED <<chunkLog, bounds>>
       \/ Fault /\ StoreFails(c) /\ evidence' \in {evidence, evidence \cup {c}}
    /\ UNCHANGED <<docLog, linkLog, manifest, links, pc, opts, mem, window, rebuild, force, todo,
                   seen, breaker, history>>

SaveChunk(c) ==
    /\ task[c] = "stored" /\ Outcome(c, "stored")
    /\ UNCHANGED <<docLog, linkLog, manifest, graph, pc, opts, mem, window, rebuild, force, todo,
                   seen, breaker, history, bounds>>

AnyFailed == \E c \in seen : ~Completed(c)
DocumentStatus ==
    IF blocked THEN "provider_blocked" ELSE IF AnyFailed THEN "failed" ELSE "completed"

SaveDocument ==
    /\ pc = "chunks" /\ Active = {} /\ ~Schedule
    /\ Checkpoint(Doc, [status |-> DocumentStatus, linked |-> FALSE, barred |-> FALSE])
    /\ torn' = IF rebuild /\ todo = <<>> THEN torn \ {Doc} ELSE torn
    /\ pc' = "conclude"
    /\ UNCHANGED <<chunkLog, linkLog, manifest, graph, opts, mem, window, work, breaker,
                   unlinked, bounds>>

-----------------------------------------------------------------------------
(* _run_batch *)

\* The next document of the window, or its linking.
Advance(ls) ==
    /\ left' = Tail(left)
    /\ pc' = IF Tail(left) # <<>> /\ Asks THEN "document"
             ELSE IF ls # <<>> THEN "link" ELSE "flagged"

\* Mutant: a document with failed chunks is linked as well.
LinksAll == TRUE
LinksIt == ~AnyFailed

Conclude ==
    /\ pc = "conclude"
    /\ relink' = (relink \/ rebuild)
    /\ IF LinksIt
       THEN /\ linkable' = Append(linkable, Doc) /\ Advance(linkable')
            /\ mem' = [mem EXCEPT !.docs = @ \ {Doc}]
            /\ manifest' = [manifest EXCEPT !.lists = mem'] /\ UNCHANGED docLog
       ELSE /\ mem' = [mem EXCEPT !.docs = @ \cup {Doc}]
            /\ Checkpoint(Doc, [docLog[Doc] EXCEPT !.linked = FALSE, !.barred = TRUE])
            /\ pc' = "unlink" /\ UNCHANGED <<linkable, left, manifest>>
    /\ UNCHANGED <<chunkLog, linkLog, graph, opts, rest, key, work, breaker, history, bounds>>

\* _delete_linking_state of a failed document
Unlink ==
    /\ pc = "unlink"
    /\ \/ /\ DeleteLinks({Doc}) /\ manifest' = [manifest EXCEPT !.lists = mem] /\ Advance(linkable)
          /\ UNCHANGED <<opts, mem, rest, linkable, relink, key, work, breaker, bounds>>
       \/ Fault /\ RunFails /\ (DeleteLinks({Doc}) \/ UNCHANGED links)
    /\ UNCHANGED <<chunkLog, docLog, linkLog, evidence, history>>

-----------------------------------------------------------------------------
(* _link_batch *)

InWindow == ToSet(linkable)
LinkStatus(k) == IF k \in DOMAIN linkLog THEN linkLog[k] ELSE "none"
SaveLink(k, s) == linkLog' = [l \in DOMAIN linkLog \cup {k} |-> IF l = k THEN s ELSE linkLog[l]]
LinkFails(k, keys) ==
    /\ SaveLink(k, "failed") /\ mem' = [mem EXCEPT !.keys = keys \cup {k}] /\ pc' = "barred"
Stale == {k \in DOMAIN linkLog : linkLog[k] = "failed" /\ k.docs = InWindow}

\* Mutant: a window that was rebuilt is not linked again.
LinkedOnce(k) == LinkStatus(k) = "completed"
AlreadyLinked(k) == LinkStatus(k) = "completed" /\ ~relink

Link ==
    /\ pc = "link"
    /\ LET k == [docs |-> InWindow,
                 facts |-> evidence \cap UNION {Of(d) : d \in InWindow}]
           keys == mem.keys \ Stale
       IN \/ /\ IF AlreadyLinked(k)
                THEN pc' = "linked" /\ mem' = [mem EXCEPT !.keys = keys]
                ELSE IF LinkStatus(k) = "failed" /\ ~opts.retry /\ ~relink
                THEN pc' = "barred" /\ mem' = [mem EXCEPT !.keys = keys \cup {k}]
                ELSE pc' = "relink" /\ mem' = [mem EXCEPT !.keys = keys]
             /\ key' = k /\ UNCHANGED <<linkLog, bounds>>
          \/ Fault /\ LinkFails([k EXCEPT !.facts = {}], keys) /\ UNCHANGED key
    /\ UNCHANGED <<chunkLog, docLog, manifest, opts, left, rest, linkable, relink, work, breaker>>
    /\ Untouched

\* _delete_linking_state of the window; fewer than two entities need no linking.
ClearWindow ==
    /\ pc = "relink"
    /\ \/ /\ DeleteLinks(InWindow)
          /\ IF Cardinality(key.facts) < 2
             THEN SaveLink(key, "completed") /\ pc' = "linked" /\ unlinked' = unlinked \ InWindow
             ELSE SaveLink(key, "cancelled") /\ pc' = "linking" /\ UNCHANGED unlinked
          /\ UNCHANGED <<mem, bounds>>
       \/ Fault /\ LinkFails(key, mem.keys) /\ (DeleteLinks(InWindow) \/ UNCHANGED links)
          /\ UNCHANGED unlinked
    /\ UNCHANGED <<chunkLog, docLog, manifest, evidence, opts, window, work, breaker, torn>>

\* link_entities, which may raise, and upsert_linking_result.  The linking gateway asks the
\* provider whether or not it has blocked, and its failures leave the breaker alone.
LinkEntities ==
    /\ pc = "linking"
    /\ \/ /\ links' = links \cup Pairs(InWindow) /\ pc' = "save" /\ UNCHANGED <<mem, linkLog, bounds>>
       \/ /\ Fault /\ LinkFails(key, mem.keys)
          /\ links' = links \cup Pairs(InWindow) \/ UNCHANGED links
    /\ late' = IF blocked THEN late + 1 ELSE late
    /\ UNCHANGED <<chunkLog, docLog, manifest, evidence, opts, window, work, history>>
    /\ UNCHANGED <<blocked, signature, streak, row>>

SaveWindow ==
    /\ pc = "save"
    /\ SaveLink(key, "completed") /\ mem' = [mem EXCEPT !.keys = @ \ {key}]
    /\ unlinked' = unlinked \ InWindow /\ pc' = "linked"
    /\ UNCHANGED <<chunkLog, docLog, manifest, graph, opts, window, work, breaker, torn, bounds>>

\* _set_document_linking_state, of one document after the other
LinkingState ==
    /\ pc \in {"linked", "barred"} /\ linkable # <<>>
    /\ Checkpoint(Head(linkable), [docLog[Head(linkable)] EXCEPT !.linked = (pc = "linked"),
                                                               !.barred = (pc = "barred")])
    /\ linkable' = Tail(linkable)
    /\ unlinked' = IF pc = "linked" /\ relink THEN unlinked \ {Head(linkable)} ELSE unlinked
    /\ pc' = IF linkable' = <<>> THEN "flagged" ELSE pc
    /\ UNCHANGED <<chunkLog, linkLog, manifest, graph, opts, mem, left, rest, relink, key, work,
                   breaker, torn, bounds>>

\* The next window; a blocked provider leaves the others alone.
EndWindow ==
    /\ pc = "flagged"
    /\ manifest' = [manifest EXCEPT !.lists = mem]
    /\ relink' = FALSE /\ key' = NoKey
    /\ IF rest = <<>> \/ ~Asks THEN pc' = "end" /\ UNCHANGED <<left, rest>>
       ELSE left' = Head(rest) /\ rest' = Tail(rest) /\ pc' = "document"
    /\ UNCHANGED <<chunkLog, docLog, linkLog, graph, opts, mem, linkable, work, breaker, history,
                   bounds>>

EndRun ==
    /\ pc = "end"
    /\ manifest' = [status |-> IF blocked THEN "provider_blocked"
                               ELSE IF mem # NoLists THEN "partial_failure" ELSE "completed",
                    lists |-> mem]
    /\ Off /\ UNCHANGED <<chunkLog, docLog, linkLog, graph, history, bounds>>

-----------------------------------------------------------------------------
(* Interruptions *)

\* The call of the store that is under way, which may be applied.
InFlight ==
    \/ /\ pc = "chunks"
       /\ \E cs \in SUBSET {c \in Chunks : task[c] = "storing"} : evidence' = evidence \cup cs
       /\ UNCHANGED <<links, history>>
    \/ pc = "clean" /\ Deleted(Doc)
    \/ pc = "unlink" /\ DeleteLinks({Doc}) /\ UNCHANGED <<evidence, history>>
    \/ pc = "relink" /\ DeleteLinks(InWindow) /\ UNCHANGED <<evidence, history>>
    \/ pc = "linking" /\ links' = links \cup Pairs(InWindow) /\ UNCHANGED <<evidence, history>>
    \/ pc # "chunks" /\ Untouched
Interrupt == interrupts < MaxInterrupts /\ interrupts' = interrupts + 1 /\ UNCHANGED <<runs, faults>>

\* CancelledError, which only the chunks and the document at work note down.
Cancel ==
    /\ pc \in {"document", "clean", "chunks", "unlink", "link", "relink", "linking"}
    /\ pc = "document" => ~Reusable(Doc)
    /\ pc = "chunks" => Active # {}
    /\ Interrupt /\ InFlight
    /\ IF pc = "chunks"
       THEN /\ chunkLog' = [c \in Chunks |-> IF c \in Active THEN "cancelled" ELSE chunkLog[c]]
            /\ Checkpoint(Doc, [status |-> "cancelled", linked |-> FALSE, barred |-> TRUE])
       ELSE UNCHANGED <<chunkLog, docLog>>
    /\ manifest' = [status |-> "cancelled", lists |-> mem]
    /\ Off /\ UNCHANGED linkLog

Die == pc # "off" /\ Interrupt /\ InFlight /\ Off /\ UNCHANGED logs

Steps ==
    \/ Reuse \/ BeginDocument \/ Clean \/ BeginSlice
    \/ \E c \in Chunks : Extracted(c) \/ Store(c) \/ SaveChunk(c)
    \/ SaveDocument \/ Conclude \/ Unlink \/ Link \/ ClearWindow \/ LinkEntities \/ SaveWindow
    \/ LinkingState \/ EndWindow \/ EndRun
Next == StartRun \/ Steps \/ Cancel \/ Die

Spec == Init /\ [][Next]_vars

-----------------------------------------------------------------------------

TypeOK ==
    /\ chunkLog \in [Chunks -> {"none", "stored", "empty", "failed", "cancelled"}]
    /\ docLog \in [Docs -> [status: {"none", "completed", "failed", "provider_blocked", "cancelled"},
                            linked: BOOLEAN, barred: BOOLEAN]]
    /\ \A k \in DOMAIN linkLog : linkLog[k] \in {"cancelled", "failed", "completed"}
    /\ manifest.status \in {"none", "running", "completed", "partial_failure",
                            "provider_blocked", "cancelled"}
    /\ evidence \subseteq Chunks /\ \A p \in links : p \subseteq Chunks /\ Cardinality(p) = 2
    /\ task \in [Chunks -> {"idle", "calling", "storing", "stored"}]
    /\ Cardinality(Active) <= MaxConcurrency /\ streak \in 0..Threshold

\* The facts of every chunk that a checkpoint calls completed are in the graph,
\* whatever is cancelled, dies or fails, and whatever later runs reuse; but for
\* the documents of which a rebuild was not finished (_process_document).
CompletedIsStored ==
    \A d \in Docs \ torn : \A c \in Of(d) : chunkLog[c] = "stored" => c \in evidence

\* Only entities of completely extracted documents are linked, and only as long
\* as their facts are there: failing, cancelled and rebuilt documents are out of
\* the links before anything else can be seen of them (_run_batch, delete_document).
LinksAreGrounded ==
    \A p \in links :
        /\ p \subseteq evidence
        /\ \A d \in Docs : p \cap Of(d) # {} => docLog[d].status = "completed"

\* When the manifest says completed, each document is extracted and linked, and
\* the links are those of the facts in the graph: a resumed run skips only what
\* is there (run, _link_batch); but for documents rebuilt and then not linked.
CompletedIsWhole ==
    pc = "off" /\ manifest.status = "completed" =>
        /\ \A d \in Docs : docLog[d].status = "completed" /\ docLog[d].linked
        /\ unlinked = {} => links = UNION {Pairs(ToSet(w)) : w \in ToSet(Windows)}

\* A provider that answers every extraction with the same refusal is left alone: it
\* gets no more of them in a row than the threshold and what one slice had begun, and
\* only the window at hand is linked after that, whose linking may ask it once more
\* about each of its candidates (_record_provider_failure over chunks, documents and
\* windows, _run_batch).
ProviderSpared == row.times < Threshold + MaxConcurrency /\ late <= 1

\* Claimed by graph-corpus-build.md:18: a rebuild never loses the evidence of the
\* chunks it does not extract again.
EvidenceSurvives ==
    pc = "off" /\ manifest.status = "completed" =>
        \A c \in Chunks : chunkLog[c] = "stored" => c \in evidence

=============================================================================
