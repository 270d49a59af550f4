----------------------- MODULE IngestionWorkerProofs -----------------------
(* Proofs about IngestionWorker, for every set of documents and parse      *)
(* results, every limit and every bound.                                   *)
EXTENDS IngestionWorker, TLAPS

-----------------------------------------------------------------------------
(* The order of the stages *)

\* Which position of StageOrder holds which stage.
LEMMA StageAt ==
    ASSUME NEW i \in 1..Last
    PROVE  /\ StageOrder[i] \in Stages
           /\ StageOrder[i] = "parse"   <=> i = 1
           /\ StageOrder[i] = "chunk"   <=> i = 2
           /\ StageOrder[i] \in {"text_index", "sparse_index", "multimodal_index",
                                "visual_index"} <=> i \in 3..6
           /\ StageOrder[i] = "publish" <=> i = 7
           /\ StageOrder[i] = "verify"  <=> i = 8
           /\ StageOrder[i] = "graph"   <=> i = 9
<1>1. i \in {1, 2, 3, 4, 5, 6, 7, 8, 9}
  BY DEF Last
<1> QED
  BY <1>1 DEF StageOrder, Stages

-----------------------------------------------------------------------------
(* Type correctness *)

LEMMA PreparedType == \A n \in Nat : Prepared(n) \in Task
  BY DEF Prepared, Task, Statuses, StageStatuses, Codes, BundleKeys, Stages

LEMMA NoTaskType == NoTask \in Task
<1>1. Prepared(0) \in Task
  BY PreparedType
<1> QED
  BY <1>1 DEF NoTask, Task, Statuses

\* A task stays a task when its stage, status, position or flags change.
LEMMA StageUpdates ==
    ASSUME NEW t \in Task, NEW s \in Stages, NEW st \in StageStatuses
    PROVE  /\ [t EXCEPT !.stages[s] = st] \in Task
           /\ [t EXCEPT !.stages[s] = st, !.current = s] \in Task
           /\ \A f \in SUBSET BundleKeys : [t EXCEPT !.stages[s] = st, !.indexes = f] \in Task
           /\ \A c \in Codes, u \in Statuses :
                [t EXCEPT !.status = u, !.stages[s] = st, !.current = s, !.code = c] \in Task
<1>1. [t.stages EXCEPT ![s] = st] \in [Stages -> StageStatuses]
  BY DEF Task
<1>2. [t EXCEPT !.stages[s] = st] \in Task
  BY <1>1 DEF Task
<1>3. [t EXCEPT !.stages[s] = st, !.current = s] \in Task
  BY <1>1 DEF Task
<1>4. ASSUME NEW f \in SUBSET BundleKeys
      PROVE  [t EXCEPT !.stages[s] = st, !.indexes = f] \in Task
  BY <1>1 DEF Task
<1>5. ASSUME NEW c \in Codes, NEW u \in Statuses
      PROVE  [t EXCEPT !.status = u, !.stages[s] = st, !.current = s, !.code = c] \in Task
  BY <1>1 DEF Task
<1> QED
  BY <1>2, <1>3, <1>4, <1>5

LEMMA StatusUpdates ==
    ASSUME NEW t \in Task, NEW u \in Statuses
    PROVE  /\ [t EXCEPT !.status = u, !.attempts = @ + 1] \in Task
           /\ [t EXCEPT !.status = u, !.current = "none"] \in Task
           /\ \A c \in Codes : [t EXCEPT !.status = u, !.code = c] \in Task
<1>1. [t EXCEPT !.status = u, !.attempts = @ + 1] \in Task
  <2>1. t.attempts \in Nat /\ t.attempts + 1 \in Nat
    BY DEF Task
  <2>2. \A n \in Nat : [t EXCEPT !.status = u, !.attempts = n] \in Task
    BY DEF Task
  <2> QED
    BY <2>1, <2>2
<1>2. [t EXCEPT !.status = u, !.current = "none"] \in Task
  BY DEF Task
<1>3. ASSUME NEW c \in Codes PROVE [t EXCEPT !.status = u, !.code = c] \in Task
  BY DEF Task
<1> QED
  BY <1>1, <1>2, <1>3

LEMMA EnqueueType ==
    ASSUME TypeOK, NEW d \in Docs, EnqueueDocument(d)
    PROVE  queue' \in Seq(Docs) /\ enqueued' \in SUBSET Docs
<1>1. CASE d \in enqueued
  BY <1>1 DEF TypeOK, EnqueueDocument
<1>2. CASE d \notin enqueued
  <2>1. queue \in Seq(Docs) /\ enqueued \subseteq Docs
    BY DEF TypeOK
  <2>2. queue' = Append(queue, d) /\ enqueued' = enqueued \cup {d}
    BY <1>2 DEF EnqueueDocument
  <2> QED
    BY <2>1, <2>2
<1> QED
  BY <1>1, <1>2

LEMMA WriteTaskType ==
    ASSUME TypeOK, pc # "idle", NEW t \in Task, WriteTask(t)
    PROVE  mem' \in Task /\ task' \in [Docs -> Task]
  BY DEF TypeOK, WriteTask

LEMMA TypeInit == Init => TypeOK
<1>1. 0 \in Version0
  BY DEF Version0
<1> QED
  BY <1>1, NoTaskType, IngestionAssumption
  DEF Init, TypeOK, EmptyBundle, Codes, Last

LEMMA TypeStep == TypeOK /\ [Next]_vars => TypeOK'
<1> SUFFICES ASSUME TypeOK, [Next]_vars PROVE TypeOK'
  OBVIOUS
<1> USE IngestionAssumption DEF TypeOK
<1>0. cursor <= Last => Stage \in Stages
  BY StageAt DEF Stage, Last
<1>1. ASSUME NEW d \in Docs, NEW op \in FacadeOps, FacadeRead(d, op) PROVE TypeOK'
  BY <1>1 DEF FacadeRead, disk, worker
<1>2. CASE FacadeWrite
  <2>1. call.doc \in Docs /\ call.task \in Task /\ call.task.attempts \in Nat
    BY <1>2 DEF FacadeWrite, Task
  <2>2. task' \in [Docs -> Task]
    BY <1>2, <2>1, PreparedType DEF FacadeWrite
  <2>3. queue' \in Seq(Docs) /\ enqueued' \in SUBSET Docs
    BY <1>2, <2>1, EnqueueType DEF FacadeWrite
  <2> QED
    BY <1>2, <2>2, <2>3 DEF FacadeWrite, disk, worker, bounds
<1>3. CASE FacadeWriteFails
  BY <1>3 DEF FacadeWriteFails, disk, worker
<1>4. CASE Take
  BY <1>4 DEF Take, disk, process, bounds
<1>5. CASE ReadTask
  BY <1>5 DEF ReadTask, disk, process, bounds
<1>6. CASE StartRun
  <2>1. [mem EXCEPT !.status = "running", !.attempts = @ + 1] \in Task
    BY <1>0, StageUpdates, StatusUpdates, <1>6 DEF StartRun, StageStatuses, Statuses, Last
  <2>2. mem' \in Task /\ task' \in [Docs -> Task]
    BY <1>6, <2>1, WriteTaskType DEF StartRun
  <2> QED
    BY <1>6, <2>2 DEF StartRun, disk, process, bounds, Last
<1>7. CASE SkipStage
  <2>1. [mem EXCEPT !.stages[Stage] = "skipped"] \in Task
    BY <1>0, StageUpdates, StatusUpdates, <1>7 DEF SkipStage, StageStatuses, Statuses, Last
  <2>2. mem' \in Task /\ task' \in [Docs -> Task]
    BY <1>7, <2>1, WriteTaskType DEF SkipStage
  <2> QED
    BY <1>7, <2>2 DEF SkipStage, disk, process, bounds, Last
<1>8. CASE BeginStage
  <2>1. [mem EXCEPT !.stages[Stage] = "running", !.current = Stage] \in Task
    BY <1>0, StageUpdates, StatusUpdates, <1>8 DEF BeginStage, StageStatuses, Statuses, Last
  <2>2. mem' \in Task /\ task' \in [Docs -> Task]
    BY <1>8, <2>1, WriteTaskType DEF BeginStage
  <2> QED
    BY <1>8, <2>2 DEF BeginStage, disk, process, bounds, Last
<1>9. CASE EndRun
  BY <1>9 DEF EndRun, disk, process, bounds
<1>10. CASE Release
  <2>1. 0 \in Version0
    BY DEF Version0
  <2> QED
    BY <1>10, <2>1, NoTaskType DEF Release, disk, process, bounds, EmptyBundle, Codes, Last
<1>11. CASE HandlerFails
  BY <1>11 DEF HandlerFails, Raise, Codes, disk, process, bounds
<1>12. CASE Parse
  BY <1>12 DEF Parse, InHandler, disk, process, bounds, Version0, Stores
<1>13. CASE Chunk
  BY <1>13 DEF Chunk, InHandler, Raise, Codes, process, bounds
<1>14. ASSUME NEW k \in BundleKeys, Prepare(k) PROVE TypeOK'
  <2>1. Input(k) \in Version0
    BY <1>14 DEF Prepare, InHandler, Input, BundleKeys
  <2>2. 0 \in Version0 /\ doc \in Docs /\ bundle[doc] \in [BundleKeys -> Version0]
    BY <1>14 DEF Prepare, InHandler, Version0
  <2>3. /\ [bundle[doc] EXCEPT ![k] = Input(k)] \in [BundleKeys -> Version0]
        /\ [bundle EXCEPT ![doc] = EmptyBundle] \in [Docs -> [BundleKeys -> Version0]]
    BY <2>1, <2>2 DEF EmptyBundle
  <2> HIDE DEF Input
  <2> QED
    BY <1>14, <2>3
    DEF Prepare, InHandler, Raise, Codes, process, bounds, EmptyBundle, Version0
<1>15. CASE RewriteBundle
  BY <1>15 DEF RewriteBundle, process, bounds, EmptyBundle, Version0
<1>16. CASE RewriteBundleFails
  BY <1>16 DEF RewriteBundleFails, Raise, Codes, disk, process, bounds, EmptyBundle, Version0
<1>17. CASE BeginPublish
  BY <1>17 DEF BeginPublish, InHandler, Raise, Codes, disk, process, bounds
<1>18. ASSUME NEW s \in Stores, PublishStore(s) \/ PublishStoreFails(s) PROVE TypeOK'
  <2>1. /\ doc \in Docs /\ SourceKey(s) \in BundleKeys
        /\ 0 \in Version0 /\ touched \cup {s} \in SUBSET Stores
    BY <1>18
    DEF PublishStore, PublishStoreFails, SourceKey, Stores, BundleKeys, Version0
  <2>2. bundle[doc][SourceKey(s)] \in Version0 /\ index[doc][s] \in Version0
    BY <2>1
  <2>3. index' \in [Docs -> [Stores -> Version0]]
    <3>1. PICK v \in Version0 : index' = [index EXCEPT ![doc][s] = v]
      BY <1>18, <2>1, <2>2 DEF PublishStore, PublishStoreFails
    <3> QED
      BY <2>1, <3>1
  <2>4. touched' \in SUBSET Stores
    BY <1>18, <2>1 DEF PublishStore, PublishStoreFails
  <2> QED
    BY <1>18, <2>3, <2>4 DEF PublishStore, PublishStoreFails, process, bounds
<1>19. CASE EndPublish
  BY <1>19 DEF EndPublish, disk, process, bounds
<1>20. ASSUME NEW s \in Stores, Undo(s) PROVE TypeOK'
  BY <1>20 DEF Undo, process, bounds, Version0
<1>21. CASE EndUndo
  BY <1>21 DEF EndUndo, Raise, Codes, disk, process, bounds
<1>22. CASE Verify
  BY <1>22 DEF Verify, InHandler, Raise, Codes, disk, process, bounds
<1>23. CASE Graph
  BY <1>23 DEF Graph, InHandler, disk, process, bounds
<1>24. CASE CompleteStage
  <2>0. FlagsAfter(Stage) \in SUBSET BundleKeys
    BY DEF FlagsAfter, PublishedStores, Stores, BundleKeys, Task
  <2>1. [mem EXCEPT !.stages[Stage] = "completed", !.indexes = FlagsAfter(Stage)] \in Task
    BY <1>0, <2>0, StageUpdates, StatusUpdates, <1>24 DEF CompleteStage, StageStatuses, Statuses, Last
  <2>2. mem' \in Task /\ task' \in [Docs -> Task]
    BY <1>24, <2>1, WriteTaskType DEF CompleteStage
  <2> QED
    BY <1>24, <2>2 DEF CompleteStage, disk, process, bounds, Last
<1>25. CASE FailStage
  <2>1. [mem EXCEPT !.status = "failed", !.stages[Stage] = "failed", !.current = Stage, !.code = code] \in Task
    BY <1>0, StageUpdates, StatusUpdates, <1>25 DEF FailStage, StageStatuses, Statuses, Last
  <2>2. mem' \in Task /\ task' \in [Docs -> Task]
    BY <1>25, <2>1, WriteTaskType DEF FailStage
  <2> QED
    BY <1>25, <2>2 DEF FailStage, disk, process, bounds
<1>26. CASE FinishTask
  <2>1. [mem EXCEPT !.status = "completed", !.current = "none"] \in Task
    BY <1>0, StageUpdates, StatusUpdates, <1>26 DEF FinishTask, StageStatuses, Statuses, Last
  <2>2. mem' \in Task /\ task' \in [Docs -> Task]
    BY <1>26, <2>1, WriteTaskType DEF FinishTask
  <2> QED
    BY <1>26, <2>2 DEF FinishTask, disk, process, bounds
<1>27. CASE WorkerWriteFails
  BY <1>27 DEF WorkerWriteFails, disk, process
<1>28. CASE Crash
  <2>1. 0 \in Version0
    BY DEF Version0
  <2> QED
    BY <1>28, <2>1, NoTaskType DEF Crash, disk, EmptyBundle, Codes, Last
<1>29. CASE Restart
  BY <1>29 DEF Restart, disk, worker, bounds
<1>30. ASSUME NEW d \in Docs, Recover(d) PROVE TypeOK'
  <2> DEFINE t == task[d]
             stopped == IF t.current # "none" /\ t.stages[t.current] = "running"
                        THEN [t EXCEPT !.stages[t.current] = "interrupted"] ELSE t
  <2>1. stopped \in Task
    <3>1. t \in Task /\ t.current \in Stages \cup {"none"}
      BY DEF Task
    <3> QED
      BY <3>1, StageUpdates DEF StageStatuses
  <2>2. /\ [stopped EXCEPT !.status = "failed", !.code = "ingestion_interrupted"] \in Task
        /\ [stopped EXCEPT !.status = "queued", !.current = "none"] \in Task
    <3> HIDE DEF stopped
    <3> QED
      BY <2>1, StatusUpdates DEF Statuses, Codes
  <2>3. task' \in [Docs -> Task]
    <3>1. \/ task' = [task EXCEPT ![d] = [stopped EXCEPT !.status = "failed",
                                                        !.code = "ingestion_interrupted"]]
          \/ task' = [task EXCEPT ![d] = [stopped EXCEPT !.status = "queued",
                                                        !.current = "none"]]
      BY <1>30 DEF Recover
    <3> HIDE DEF stopped
    <3> QED
      BY <2>2, <3>1
  <2>4. queue' \in Seq(Docs) /\ enqueued' \in SUBSET Docs
    BY <1>30, EnqueueType DEF Recover
  <2> QED
    BY <1>30, <2>3, <2>4 DEF Recover, disk, worker, bounds
<1>31. CASE StartThread
  BY <1>31 DEF StartThread, disk, worker, bounds
<1>32. CASE UNCHANGED vars
  BY <1>32 DEF vars, disk, process, worker, bounds
<1> QED
  BY <1>1, <1>2, <1>3, <1>4, <1>5, <1>6, <1>7, <1>8, <1>9, <1>10, <1>11, <1>12,
     <1>13, <1>14, <1>15, <1>16, <1>17, <1>18, <1>19, <1>20, <1>21, <1>22, <1>23,
     <1>24, <1>25, <1>26, <1>27, <1>28, <1>29, <1>30, <1>31, <1>32
  DEF Next, Facade, WorkerLoop, RunStage, Recovery

\* Every variable keeps its type, whatever the constants are.
THEOREM TypeCorrect == Spec => []TypeOK
  BY TypeInit, TypeStep, PTL DEF Spec
-----------------------------------------------------------------------------
(* The inductive invariant.  The safety invariants of IngestionWorker are not  *)
(* inductive: they need to know which calls and scans are in progress, and what *)
(* the run in progress has established at each position of the pipeline.       *)

\* The facade and the scan of start(): a call decides on a status nobody changes
\* before it writes, and the scan only rewrites unfinished tasks.
CallInv ==
    /\ call # NoCall => /\ call.task = task[call.doc]
                        /\ call.task.status \in {"none", "failed"}
    /\ phase # "up" => call = NoCall /\ pc = "idle"
    /\ phase # "recovering" => unscanned = {}
    /\ \A d \in unscanned : task[d].status \in {"queued", "running"}

FlagsInv == \A d \in Docs : task[d].indexes \subseteq PublishedStores \ {"evidence"}

\* The run in progress has got past position i of StageOrder.
Passed(i) ==
    /\ pc \in {"next", "handler", "rewrite", "publish", "undo", "handled", "finish"}
    /\ cursor > i \/ (cursor = i /\ pc \in {"handled", "finish"})

ProgressInv ==
    /\ pc = "rewrite" => cursor \in 3..6
    /\ pc \in {"publish", "undo"} => cursor = 7
    /\ pc = "finish" => cursor = 9
    /\ Passed(1) => parsed[doc] # 0
    /\ pc = "rewrite" /\ cursor = 6 => draft["visual"] # 0
    /\ Passed(6) => bundle[doc]["visual"] # 0
    /\ pc = "publish" => bundle[doc]["multimodal"] # 0
    /\ pc = "publish" /\ "evidence" \in touched => index[doc]["evidence"] # 0
    /\ Passed(7) => index[doc]["evidence"] # 0
    /\ Passed(8) => Published(doc)
    /\ Passed(8) /\ cursor > 8 => mem.indexes = PublishedStores \ {"evidence"}

Inv == /\ TypeOK
       /\ WorkerOwnsTask
       /\ ScheduledOnce
       /\ CallInv
       /\ FlagsInv
       /\ ProgressInv
       /\ CompletedIsPublished
-----------------------------------------------------------------------------
(* Invariance of Inv.  One lemma per conjunct, one step per group of actions   *)
(* that treat the conjunct the same way.                                       *)

\* The steps of the thread that write neither the task nor its copy of it.
Silent == \/ HandlerFails \/ Parse \/ Chunk \/ (\E k \in BundleKeys : Prepare(k))
          \/ RewriteBundle \/ RewriteBundleFails \/ BeginPublish
          \/ (\E s \in Stores : PublishStore(s) \/ PublishStoreFails(s))
          \/ EndPublish \/ (\E s \in Stores : Undo(s)) \/ EndUndo \/ Verify \/ Graph

\* The writes of the task file by the thread after StartRun.
Writing == SkipStage \/ BeginStage \/ CompleteStage \/ FailStage \/ FinishTask

\* Silent steps happen inside a stage and touch no scheduling state.
LEMMA SilentFrame ==
    ASSUME Silent
    PROVE  /\ UNCHANGED <<task, process, queue, enqueued, doc, mem, cursor>>
           /\ pc \in {"handler", "rewrite", "publish", "undo"}
           /\ pc' \in {"handled", "raise", "rewrite", "publish", "undo"}
           /\ phase = "up"
<1>1. ASSUME NEW k \in BundleKeys, Prepare(k)
      PROVE  /\ UNCHANGED <<task, process, queue, enqueued, doc, mem, cursor>>
             /\ pc = "handler" /\ pc' \in {"raise", "rewrite"} /\ phase = "up"
  BY <1>1 DEF Prepare, InHandler, Raise
<1>2. ASSUME NEW s \in Stores, PublishStore(s) \/ PublishStoreFails(s) \/ Undo(s)
      PROVE  /\ UNCHANGED <<task, process, queue, enqueued, doc, mem, cursor>>
             /\ pc \in {"publish", "undo"} /\ pc' \in {"publish", "undo"} /\ phase = "up"
  BY <1>2 DEF PublishStore, PublishStoreFails, Undo
<1>3. CASE \/ HandlerFails \/ Parse \/ Chunk \/ RewriteBundle \/ RewriteBundleFails
           \/ BeginPublish \/ EndPublish \/ EndUndo \/ Verify \/ Graph
  BY <1>3 DEF HandlerFails, Parse, Chunk, RewriteBundle, RewriteBundleFails,
     BeginPublish, EndPublish, EndUndo, Verify, Graph, InHandler, Raise, disk
<1> QED
  BY <1>1, <1>2, <1>3 DEF Silent

LEMMA NextCases ==
    ASSUME [Next]_vars
    PROVE  \/ \E d \in Docs, op \in FacadeOps : FacadeRead(d, op)
           \/ FacadeWrite \/ FacadeWriteFails
           \/ Take \/ ReadTask \/ StartRun \/ EndRun \/ Release
           \/ Silent \/ Writing \/ WorkerWriteFails
           \/ Crash \/ Restart \/ (\E d \in Docs : Recover(d)) \/ StartThread
           \/ UNCHANGED vars
  BY DEF Next, Facade, WorkerLoop, RunStage, Recovery, Silent, Writing

LEMMA InvInit == Init => Inv
<1> SUFFICES ASSUME Init PROVE Inv
  OBVIOUS
<1>1. TypeOK
  BY TypeInit
<1>2. WorkerOwnsTask /\ CallInv
  BY DEF Init, WorkerOwnsTask, CallInv, Running
<1>3. ScheduledOnce
  BY DEF Init, ScheduledOnce, QueuedDocs
<1>4. FlagsInv /\ CompletedIsPublished
  BY DEF Init, FlagsInv, CompletedIsPublished, NoTask, Prepared
<1>5. ProgressInv
  BY DEF Init, ProgressInv, Passed
<1> QED
  BY <1>1, <1>2, <1>3, <1>4, <1>5 DEF Inv

\* Facade calls and recovery touch no task the thread is working on.
LEMMA OwnsStep == Inv /\ [Next]_vars => WorkerOwnsTask'
<1> SUFFICES ASSUME Inv, [Next]_vars PROVE WorkerOwnsTask'
  OBVIOUS
<1> USE DEF WorkerOwnsTask, Running
<1>0. /\ WorkerOwnsTask /\ CallInv /\ TypeOK
      /\ pc # "idle" => doc \in Docs
  BY DEF Inv, TypeOK
<1>1. ASSUME NEW d \in Docs, NEW op \in FacadeOps, FacadeRead(d, op)
      PROVE  WorkerOwnsTask'
  BY <1>0, <1>1 DEF FacadeRead, worker
<1>2. CASE FacadeWrite
  <2>1. /\ task[call.doc].status \in {"none", "failed"} /\ UNCHANGED <<pc, doc, mem>>
        /\ \A d \in Docs : d # call.doc => task'[d] = task[d]
    BY <1>0, <1>2 DEF FacadeWrite, CallInv, worker, TypeOK
  <2> QED
    BY <1>0, <2>1
<1>3. CASE FacadeWriteFails \/ UNCHANGED vars
  BY <1>0, <1>3 DEF FacadeWriteFails, vars, worker
<1>4. CASE Take \/ EndRun \/ Release \/ WorkerWriteFails
  BY <1>0, <1>4 DEF Take, EndRun, Release, WorkerWriteFails
<1>5. CASE ReadTask
  BY <1>0, <1>5 DEF ReadTask
<1>6. CASE StartRun
  BY <1>0, <1>6 DEF StartRun, WriteTask, TypeOK, Task
<1>7. CASE Silent
  BY <1>0, <1>7, SilentFrame DEF process
<1>8. CASE Writing
  <2>1. doc \in Docs /\ mem \in Task /\ task \in [Docs -> Task] /\ mem.status = "running"
    BY <1>0, <1>8 DEF TypeOK, Writing, SkipStage, BeginStage, CompleteStage, FailStage, FinishTask
  <2>2. CASE FailStage \/ FinishTask
    BY <2>2 DEF FailStage, FinishTask
  <2>3. CASE SkipStage \/ BeginStage \/ CompleteStage
    <3>1. /\ mem' = task'[doc] /\ UNCHANGED doc /\ mem'.status = mem.status
          /\ pc' # "start"
      BY <2>1, <2>3 DEF SkipStage, BeginStage, CompleteStage, WriteTask, Task
    <3> QED
      BY <2>1, <3>1
  <2> QED
    BY <1>8, <2>2, <2>3 DEF Writing
<1>9. CASE Crash \/ Restart \/ (\E d \in Docs : Recover(d)) \/ StartThread
  <2>1. pc' = "idle"
    BY <1>0, <1>9 DEF Crash, Restart, Recover, StartThread, CallInv, worker
  <2> QED
    BY <2>1
<1> QED
  BY <1>1, <1>2, <1>3, <1>4, <1>5, <1>6, <1>7, <1>8, <1>9, NextCases

\* What a put does to the queue, when the thread does not hold the document.
LEMMA EnqueueOnce ==
    ASSUME TypeOK, ScheduledOnce, NEW d \in Docs, EnqueueDocument(d), UNCHANGED doc
    PROVE  ScheduledOnce'
<1> USE DEF ScheduledOnce, QueuedDocs
<1>1. CASE d \in enqueued
  BY <1>1 DEF EnqueueDocument
<1>2. CASE d \notin enqueued
  <2>1. queue \in Seq(Docs) /\ queue' = Append(queue, d) /\ enqueued' = enqueued \cup {d}
    BY <1>2 DEF EnqueueDocument, TypeOK
  <2>2. d # doc /\ d \notin {queue[i] : i \in DOMAIN queue}
    BY <1>2, IngestionAssumption DEF NoDoc
  <2>3. /\ DOMAIN queue' = 1..(Len(queue) + 1) /\ DOMAIN queue = 1..Len(queue)
        /\ Len(queue) \in Nat /\ queue'[Len(queue) + 1] = d
        /\ \A i \in DOMAIN queue : queue'[i] = queue[i]
    BY <2>1
  <2>4. \A i, j \in DOMAIN queue' : queue'[i] = queue'[j] => i = j
    BY <2>2, <2>3
  <2>5. {queue'[i] : i \in DOMAIN queue'} = {queue[i] : i \in DOMAIN queue} \cup {d}
    BY <2>3
  <2> QED
    BY <2>1, <2>2, <2>4, <2>5
<1> QED
  BY <1>1, <1>2

LEMMA ScheduledStep == Inv /\ [Next]_vars => ScheduledOnce'
<1> SUFFICES ASSUME Inv, [Next]_vars PROVE ScheduledOnce'
  OBVIOUS
<1>0. ScheduledOnce /\ CallInv /\ TypeOK
  BY DEF Inv
<1>1. CASE UNCHANGED <<queue, enqueued, doc>>
  BY <1>0, <1>1 DEF ScheduledOnce, QueuedDocs
<1>2. CASE FacadeWrite
  <2>1. call.doc \in Docs /\ UNCHANGED doc
    BY <1>0, <1>2 DEF FacadeWrite, TypeOK, worker
  <2> QED
    BY <1>0, <1>2, <2>1, EnqueueOnce DEF FacadeWrite
<1>3. CASE Take
  <2>1. /\ queue \in Seq(Docs) /\ queue # <<>> /\ queue' = Tail(queue) /\ doc' = Head(queue)
        /\ doc = NoDoc /\ UNCHANGED enqueued
    BY <1>0, <1>3 DEF Take, TypeOK
  <2>2. /\ DOMAIN queue = 1..Len(queue) /\ DOMAIN queue' = 1..(Len(queue) - 1)
        /\ Len(queue) \in Nat \ {0} /\ doc' = queue[1]
        /\ \A i \in 1..(Len(queue) - 1) : queue'[i] = queue[i + 1]
    BY <2>1
  <2>3. \A i, j \in DOMAIN queue : queue[i] = queue[j] => i = j
    BY <1>0 DEF ScheduledOnce
  <2>4. \A i, j \in DOMAIN queue' : queue'[i] = queue'[j] => i = j
    BY <2>2, <2>3
  <2>5. doc' \notin {queue'[i] : i \in DOMAIN queue'}
    BY <2>2, <2>3
  <2>6. {queue[i] : i \in DOMAIN queue} = {queue'[i] : i \in DOMAIN queue'} \cup {doc'}
    <3>1. ASSUME NEW i \in DOMAIN queue
          PROVE  queue[i] \in {queue'[j] : j \in DOMAIN queue'} \cup {doc'}
      <4>1. CASE i = 1
        BY <2>2, <4>1
      <4>2. CASE i # 1
        <5>1. i - 1 \in DOMAIN queue' /\ queue'[i - 1] = queue[i]
          BY <2>2, <4>2
        <5> QED
          BY <5>1
      <4> QED
        BY <4>1, <4>2
    <3>2. ASSUME NEW i \in DOMAIN queue'
          PROVE  queue'[i] \in {queue[j] : j \in DOMAIN queue}
      <4>1. i + 1 \in DOMAIN queue /\ queue'[i] = queue[i + 1]
        BY <2>2
      <4> QED
        BY <4>1
    <3>3. doc' \in {queue[j] : j \in DOMAIN queue}
      BY <2>2
    <3> QED
      BY <3>1, <3>2, <3>3
  <2>7. doc' \in Docs /\ doc' # NoDoc
    BY <2>1, <2>2, IngestionAssumption DEF NoDoc
  <2> QED
    BY <1>0, <2>1, <2>4, <2>5, <2>6, <2>7 DEF ScheduledOnce, QueuedDocs
<1>4. CASE Release
  <2>1. UNCHANGED queue /\ enqueued' = enqueued \ {doc} /\ doc' = NoDoc /\ doc # NoDoc
    BY <1>0, <1>4, IngestionAssumption DEF Release, TypeOK, NoDoc
  <2>2. NoDoc \notin QueuedDocs
    BY <1>0, IngestionAssumption DEF TypeOK, QueuedDocs, NoDoc
  <2> QED
    BY <1>0, <2>1, <2>2 DEF ScheduledOnce, QueuedDocs
<1>5. CASE Crash
  BY <1>5 DEF Crash, ScheduledOnce, QueuedDocs
<1>6. ASSUME NEW d \in Docs, Recover(d) PROVE ScheduledOnce'
  <2>1. UNCHANGED doc
    BY <1>6 DEF Recover, worker
  <2>2. CASE UNCHANGED <<queue, enqueued>>
    BY <1>1, <2>1, <2>2
  <2>3. CASE EnqueueDocument(d)
    BY <1>0, <2>1, <2>3, EnqueueOnce
  <2> QED
    BY <1>6, <2>2, <2>3 DEF Recover
<1>7. CASE Silent
  BY <1>1, <1>7, SilentFrame
<1>8. CASE \/ FacadeWriteFails \/ ReadTask \/ StartRun \/ EndRun \/ Writing
           \/ WorkerWriteFails \/ Restart \/ StartThread \/ UNCHANGED vars
           \/ \E d \in Docs, op \in FacadeOps : FacadeRead(d, op)
  <2>1. UNCHANGED <<queue, enqueued, doc>>
    BY <1>8 DEF FacadeRead, FacadeWriteFails, ReadTask, StartRun, EndRun, Writing, SkipStage,
       BeginStage, CompleteStage, FailStage, FinishTask, WorkerWriteFails, Restart,
       StartThread, vars, worker
  <2> QED
    BY <1>1, <2>1
<1> QED
  BY <1>2, <1>3, <1>4, <1>5, <1>6, <1>7, <1>8, NextCases

\* A write of the thread concerns a task that is queued or running: not the one
\* a facade call holds, nor a completed one.
LEMMA WriteFrame ==
    ASSUME Inv, StartRun \/ Writing
    PROVE  /\ doc \in Docs /\ task[doc].status \in {"queued", "running"}
           /\ task \in [Docs -> Task] /\ mem = task[doc]
           /\ \A d \in Docs : d # doc => task'[d] = task[d]
           /\ UNCHANGED <<disk, process, doc, touched>> /\ phase = "up"
<1>1. /\ pc \in {"start", "next", "handled", "raise", "finish"}
      /\ \E t : task' = [task EXCEPT ![doc] = t]
      /\ UNCHANGED <<disk, process, doc, touched>> /\ phase = "up"
  BY DEF StartRun, Writing, SkipStage, BeginStage, CompleteStage, FailStage, FinishTask,
     WriteTask
<1>2. /\ doc \in Docs /\ task \in [Docs -> Task] /\ mem = task[doc]
      /\ task[doc].status \in {"queued", "running"}
  <2>1. TypeOK /\ WorkerOwnsTask
    BY DEF Inv
  <2> QED
    BY <1>1, <2>1 DEF TypeOK, WorkerOwnsTask, Running
<1> QED
  BY <1>1, <1>2

\* What the scan writes for a document.
LEMMA RecoverTask ==
    ASSUME TypeOK, NEW d \in Docs, Recover(d)
    PROVE  \E t \in Task : /\ task' = [task EXCEPT ![d] = t]
                           /\ t.indexes = task[d].indexes
                           /\ t.status \in {"failed", "queued"}
<1> DEFINE stopped == IF task[d].current # "none" /\ task[d].stages[task[d].current] = "running"
                      THEN [task[d] EXCEPT !.stages[task[d].current] = "interrupted"]
                      ELSE task[d]
           failed == [stopped EXCEPT !.status = "failed", !.code = "ingestion_interrupted"]
           again  == [stopped EXCEPT !.status = "queued", !.current = "none"]
<1>1. stopped \in Task /\ stopped.indexes = task[d].indexes
  <2>1. task[d] \in Task /\ task[d].current \in Stages \cup {"none"}
    BY DEF TypeOK, Task
  <2>2. stopped \in Task
    BY <2>1, StageUpdates DEF StageStatuses
  <2>3. stopped.indexes = task[d].indexes
    BY <2>1 DEF Task
  <2> QED
    BY <2>2, <2>3
<1>2. task' = [task EXCEPT ![d] = failed] \/ task' = [task EXCEPT ![d] = again]
  BY DEF Recover
<1> HIDE DEF stopped
<1>3. failed \in Task /\ again \in Task
  BY <1>1, StatusUpdates DEF Statuses, Codes
<1>4. /\ failed.indexes = stopped.indexes /\ failed.status = "failed"
      /\ again.indexes = stopped.indexes /\ again.status = "queued"
  BY <1>1 DEF Task
<1> HIDE DEF failed, again
<1> QED
  BY <1>1, <1>2, <1>3, <1>4

LEMMA CallStep == Inv /\ [Next]_vars => CallInv'
<1> SUFFICES ASSUME Inv, [Next]_vars PROVE CallInv'
  OBVIOUS
<1> USE DEF CallInv
<1>0. /\ CallInv /\ TypeOK /\ unscanned \subseteq Docs
      /\ call # NoCall => call.doc \in Docs
  BY DEF Inv, TypeOK
<1>1. ASSUME NEW d \in Docs, NEW op \in FacadeOps, FacadeRead(d, op)
      PROVE  CallInv'
  <2>1. task[d].status \in {"none", "failed"}
    BY <1>1, IngestionAssumption DEF FacadeRead, Eligible
  <2> QED
    BY <1>0, <1>1, <2>1 DEF FacadeRead, worker
<1>2. CASE FacadeWrite
  BY <1>0, <1>2 DEF FacadeWrite, worker
<1>3. CASE FacadeWriteFails \/ UNCHANGED vars
  BY <1>0, <1>3 DEF FacadeWriteFails, vars, worker, process
<1>4. CASE Take \/ ReadTask \/ EndRun \/ Release \/ WorkerWriteFails
  BY <1>0, <1>4 DEF Take, ReadTask, EndRun, Release, WorkerWriteFails, process
<1>5. CASE StartRun \/ Writing
  BY <1>0, <1>5, WriteFrame DEF process
<1>6. CASE Silent
  BY <1>0, <1>6, SilentFrame DEF process
<1>7. CASE Crash
  BY <1>7 DEF Crash
<1>8. CASE Restart \/ StartThread
  BY <1>0, <1>8 DEF Restart, StartThread, worker
<1>9. ASSUME NEW d \in Docs, Recover(d) PROVE CallInv'
  <2>1. /\ call' = NoCall /\ pc' = "idle" /\ phase' = "recovering"
        /\ unscanned' = unscanned \ {d}
        /\ \A e \in Docs : e # d => task'[e] = task[e]
    BY <1>0, <1>9 DEF Recover, worker, TypeOK
  <2> QED
    BY <1>0, <2>1
<1> QED
  BY <1>1, <1>2, <1>3, <1>4, <1>5, <1>6, <1>7, <1>8, <1>9, NextCases

LEMMA FlagsStep == Inv /\ [Next]_vars => FlagsInv'
<1> SUFFICES ASSUME Inv, [Next]_vars PROVE FlagsInv'
  OBVIOUS
<1> USE DEF FlagsInv
<1>0. FlagsInv /\ TypeOK
  BY DEF Inv
<1>1. CASE UNCHANGED task
  BY <1>0, <1>1
<1>2. CASE FacadeWrite
  <2>1. /\ task \in [Docs -> Task] /\ call.doc \in Docs
        /\ \E n : task' = [task EXCEPT ![call.doc] = Prepared(n)]
    BY <1>0, <1>2 DEF FacadeWrite, TypeOK
  <2>2. \A n : Prepared(n).indexes = {}
    BY DEF Prepared
  <2> QED
    BY <1>0, <2>1, <2>2
<1>3. CASE StartRun \/ Writing
  <2>1. /\ doc \in Docs /\ mem = task[doc] /\ \A d \in Docs : d # doc => task'[d] = task[d]
        /\ task \in [Docs -> Task]
    BY <1>3, WriteFrame
  <2>2. mem.indexes \subseteq PublishedStores \ {"evidence"}
    BY <1>0, <2>1
  <2>3. task'[doc].indexes = mem.indexes \/ task'[doc].indexes = FlagsAfter(Stage)
    <3>1. mem \in Task
      BY <2>1
    <3>2. CASE StartRun \/ SkipStage \/ BeginStage
      BY <2>1, <3>1, <3>2 DEF StartRun, SkipStage, BeginStage, WriteTask, Task
    <3>3. CASE CompleteStage \/ FailStage \/ FinishTask
      BY <2>1, <3>1, <3>3 DEF CompleteStage, FailStage, FinishTask, WriteTask, Task
    <3> QED
      BY <1>3, <3>2, <3>3 DEF Writing
  <2>4. FlagsAfter(Stage) \subseteq PublishedStores \ {"evidence"}
    BY <2>2 DEF FlagsAfter, PublishedStores, Stores
  <2> QED
    BY <1>0, <2>1, <2>2, <2>3, <2>4
<1>4. ASSUME NEW d \in Docs, Recover(d) PROVE FlagsInv'
  <2>1. /\ task'[d].indexes = task[d].indexes
        /\ \A e \in Docs : e # d => task'[e] = task[e]
    <3>1. task \in [Docs -> Task]
      BY <1>0 DEF TypeOK
    <3> QED
      BY <1>0, <1>4, <3>1, RecoverTask
  <2> QED
    BY <1>0, <2>1
<1>5. CASE Silent
  BY <1>1, <1>5, SilentFrame
<1>6. CASE \/ FacadeWriteFails \/ Take \/ ReadTask \/ EndRun \/ Release
           \/ WorkerWriteFails \/ Crash \/ Restart \/ StartThread \/ UNCHANGED vars
           \/ \E d \in Docs, op \in FacadeOps : FacadeRead(d, op)
  BY <1>1, <1>6 DEF FacadeRead, FacadeWriteFails, Take, ReadTask, EndRun, Release,
     WorkerWriteFails, Crash, Restart, StartThread, vars
<1> QED
  BY <1>2, <1>3, <1>4, <1>5, <1>6, NextCases

\* Only completing a stage, or being told to skip one that is ready, moves the
\* position of the run past a stage; parse, publish and verify are never skipped.
LEMMA NotSkipped == TypeOK /\ SkipStage => cursor \notin {1, 7, 8}
  BY StageAt DEF TypeOK, SkipStage, StageIsReady, AlwaysRun, Stage, Last

\* The visual part of the bundle is there once its stage is over, run or skipped.
LEMMA VisualSkipped == SkipStage /\ cursor = 6 => bundle[doc]["visual"] # 0
  BY DEF SkipStage, StageIsReady, Stage, StageOrder, PreparedBy, BundleKeys

LEMMA VisualDrafted ==
    ASSUME TypeOK, cursor = 6, NEW k \in BundleKeys, Prepare(k), pc' = "rewrite"
    PROVE  draft'["visual"] # 0
<1>1. PreparedBy[k] = "visual_index"
  BY DEF Prepare, InHandler, Stage, StageOrder
<1>2. k = "visual"
  BY <1>1 DEF PreparedBy, BundleKeys
<1>3. /\ bundle \in [Docs -> [BundleKeys -> Version0]] /\ doc \in Docs
      /\ draft' = [bundle[doc] EXCEPT !["visual"] = Input("visual")]
      /\ Input("visual") # 0
  BY <1>2 DEF Prepare, InHandler, Raise, TypeOK
<1> QED
  BY <1>3 DEF BundleKeys

LEMMA ProgressStep == Inv /\ [Next]_vars => ProgressInv'
<1> SUFFICES ASSUME Inv, [Next]_vars PROVE ProgressInv'
  OBVIOUS
<1> USE DEF ProgressInv, Passed, Last
<1>0. /\ TypeOK /\ ProgressInv /\ WorkerOwnsTask /\ FlagsInv /\ CallInv
      /\ cursor \in 1..10 /\ cursor \in Nat
      /\ pc # "idle" => doc \in Docs
      /\ pc \notin {"next", "release"} => cursor <= 9
  BY DEF Inv, TypeOK
<1>1. CASE UNCHANGED <<disk, pc, doc, mem, cursor, draft, touched>>
  BY <1>0, <1>1 DEF disk, Published
<1>2. CASE pc' \in {"idle", "taken", "start", "raise", "release"}
  BY <1>2
<1>3. CASE SkipStage \/ BeginStage
  <2>1. /\ pc = "next" /\ pc' \in {"next", "handler"} /\ UNCHANGED <<disk, doc>>
        /\ mem'.indexes = mem.indexes
        /\ \/ cursor' = cursor
           \/ /\ cursor' = cursor + 1 /\ cursor \notin {1, 7, 8}
              /\ cursor = 6 => bundle[doc]["visual"] # 0
    BY <1>0, <1>3, NotSkipped, VisualSkipped DEF SkipStage, BeginStage, WriteTask, TypeOK, Task
  <2> QED
    BY <1>0, <2>1 DEF disk, Published
<1>4. CASE CompleteStage
  <2>1. /\ pc = "handled" /\ UNCHANGED <<disk, doc>> /\ mem'.indexes = FlagsAfter(Stage)
        /\ \/ cursor = 9 /\ pc' = "finish" /\ cursor' = cursor
           \/ cursor # 9 /\ pc' = "next" /\ cursor' = cursor + 1
    BY <1>4 DEF CompleteStage, WriteTask, TypeOK, Task, Inv
  <2>2. doc \in Docs /\ mem = task[doc] /\ Stage = "verify" <=> cursor = 8
    BY <1>0, <2>1, StageAt DEF WorkerOwnsTask, Running, Stage
  <2>3. mem.indexes \subseteq PublishedStores \ {"evidence"}
    BY <1>0, <2>1, <2>2 DEF FlagsInv, WorkerOwnsTask, Running
  <2>4. cursor = 8 => FlagsAfter(Stage) = PublishedStores \ {"evidence"}
    BY <1>0, <2>1, <2>3, StageAt DEF FlagsAfter, PublishedStores, Stores, Stage
  <2>5. cursor = 9 => FlagsAfter(Stage) = mem.indexes
    BY <1>0, <2>1, StageAt DEF FlagsAfter, Stage
  <2> QED
    BY <1>0, <2>1, <2>4, <2>5 DEF disk, Published
<1>5. CASE StartRun
  BY <1>5 DEF StartRun
<1>6. CASE Parse
  <2>1. /\ cursor = 1 /\ pc' = "handled" /\ cursor' = cursor /\ doc' = doc
        /\ parsed'[doc] # 0
    BY <1>0, <1>6, StageAt, IngestionAssumption DEF Parse, InHandler, Stage, TypeOK
  <2> QED
    BY <2>1
<1>7. CASE Chunk
  <2>1. /\ cursor = 2 /\ pc = "handler" /\ pc' \in {"handled", "raise"}
        /\ cursor' = cursor /\ doc' = doc /\ UNCHANGED parsed
    BY <1>0, <1>7, StageAt DEF Chunk, InHandler, Stage, Raise
  <2> QED
    BY <1>0, <2>1
<1>8. CASE \E k \in BundleKeys : Prepare(k)
  <2>1. /\ cursor \in 3..6 /\ pc = "handler" /\ pc' \in {"rewrite", "raise"}
        /\ cursor' = cursor /\ doc' = doc /\ UNCHANGED parsed
        /\ pc' = "rewrite" /\ cursor = 6 => draft'["visual"] # 0
    BY <1>0, <1>8, StageAt, VisualDrafted DEF Prepare, InHandler, Stage, Raise, PreparedBy, BundleKeys
  <2> QED
    BY <1>0, <2>1
<1>9. CASE RewriteBundle
  <2>1. /\ pc = "rewrite" /\ pc' = "handled" /\ UNCHANGED <<cursor, doc, parsed>>
        /\ bundle'[doc] = draft
    BY <1>0, <1>9 DEF RewriteBundle, TypeOK
  <2> QED
    BY <1>0, <2>1
<1>10. CASE BeginPublish
  <2>1. /\ cursor = 7 /\ pc = "handler" /\ UNCHANGED <<cursor, doc, disk>>
        /\ pc' = "raise" \/ (pc' = "publish" /\ bundle[doc]["multimodal"] # 0 /\ touched' = {})
    BY <1>0, <1>10, StageAt DEF BeginPublish, InHandler, Stage, Raise
  <2> QED
    BY <1>0, <2>1 DEF disk
<1>11. ASSUME NEW s \in Stores, PublishStore(s) PROVE ProgressInv'
  <2>1. /\ pc = "publish" /\ pc' = "publish" /\ cursor = 7 /\ UNCHANGED <<cursor, doc, bundle, parsed>>
        /\ touched' = touched \cup {s}
        /\ index' = [index EXCEPT ![doc][s] = bundle[doc][SourceKey(s)]]
        /\ doc \in Docs /\ index[doc] \in [Stores -> Version0] /\ index \in [Docs -> [Stores -> Version0]]
    BY <1>0, <1>11 DEF PublishStore, TypeOK
  <2>2. "evidence" \in touched' => index'[doc]["evidence"] # 0
    <3>1. CASE s = "evidence"
      BY <1>0, <2>1, <3>1 DEF SourceKey
    <3>2. CASE s # "evidence"
      BY <1>0, <2>1, <3>2
    <3> QED
      BY <3>1, <3>2
  <2> QED
    BY <1>0, <2>1, <2>2
<1>12. CASE \E s \in Stores : PublishStoreFails(s) \/ Undo(s)
  <2>1. /\ pc \in {"publish", "undo"} /\ pc' = "undo" /\ UNCHANGED <<cursor, doc, bundle, parsed>>
    BY <1>12 DEF PublishStoreFails, Undo
  <2> QED
    BY <1>0, <2>1
<1>13. CASE EndPublish
  <2>1. /\ pc = "publish" /\ pc' = "handled" /\ UNCHANGED <<cursor, doc, disk>>
        /\ "evidence" \in touched
    BY <1>13 DEF EndPublish, PublishedStores, Stores
  <2> QED
    BY <1>0, <2>1 DEF disk
<1>14. CASE Verify
  <2>1. /\ pc = "handler" /\ cursor = 8 /\ UNCHANGED <<cursor, doc, disk, mem>>
        /\ pc' = "raise" \/ (pc' = "handled" /\ Verified)
    BY <1>0, <1>14, StageAt DEF Verify, InHandler, Stage, Raise
  <2>2. parsed[doc] # 0 /\ index[doc]["evidence"] # 0 /\ bundle[doc]["visual"] # 0
    BY <1>0, <2>1
  <2>3. Verified => Published(doc)
    BY <2>2 DEF Verified, Published, SameCount
  <2> QED
    BY <1>0, <2>1, <2>2, <2>3 DEF disk, Published
<1>15. CASE Graph
  <2>1. /\ pc = "handler" /\ pc' = "handled" /\ cursor = 9 /\ UNCHANGED <<cursor, doc, disk, mem>>
    BY <1>0, <1>15, StageAt DEF Graph, InHandler, Stage
  <2> QED
    BY <1>0, <2>1 DEF disk, Published
<1>16. CASE \/ HandlerFails \/ RewriteBundleFails \/ EndUndo
  BY <1>2, <1>16 DEF HandlerFails, RewriteBundleFails, EndUndo, Raise
<1>17. CASE Silent
  BY <1>6, <1>7, <1>8, <1>9, <1>10, <1>11, <1>12, <1>13, <1>14, <1>15, <1>16, <1>17 DEF Silent
<1>18. CASE Writing
  <2>1. CASE FailStage \/ FinishTask
    BY <1>2, <2>1 DEF FailStage, FinishTask
  <2> QED
    BY <1>3, <1>4, <1>18, <2>1 DEF Writing
<1>19. CASE Take \/ ReadTask \/ EndRun \/ Release \/ WorkerWriteFails \/ Crash
  BY <1>2, <1>19 DEF Take, ReadTask, EndRun, Release, WorkerWriteFails, Crash
<1>20. CASE \/ FacadeWrite \/ FacadeWriteFails \/ Restart \/ StartThread \/ UNCHANGED vars
            \/ (\E d \in Docs : Recover(d))
            \/ \E d \in Docs, op \in FacadeOps : FacadeRead(d, op)
  BY <1>1, <1>20 DEF FacadeRead, FacadeWrite, FacadeWriteFails, Restart, Recover, StartThread,
     vars, worker, disk
<1> QED
  BY <1>5, <1>17, <1>18, <1>19, <1>20, NextCases

\* A handler changes artifacts and indexes of the thread's document only, and
\* that one is running.
LEMMA SilentDisk ==
    ASSUME TypeOK, Silent
    PROVE  \A d \in Docs : d # doc =>
              /\ bundle'[d] = bundle[d] /\ parsed'[d] = parsed[d]
              /\ chunked'[d] = chunked[d] /\ index'[d] = index[d]
<1> USE DEF TypeOK
<1>1. ASSUME NEW k \in BundleKeys, Prepare(k)
      PROVE  \A d \in Docs : d # doc => bundle'[d] = bundle[d] /\ UNCHANGED <<parsed, chunked, index>>
  BY <1>1 DEF Prepare
<1>2. ASSUME NEW s \in Stores, PublishStore(s) \/ PublishStoreFails(s) \/ Undo(s)
      PROVE  \A d \in Docs : d # doc => index'[d] = index[d] /\ UNCHANGED <<bundle, parsed, chunked>>
  BY <1>2 DEF PublishStore, PublishStoreFails, Undo
<1>3. CASE Parse \/ Chunk \/ RewriteBundle
  BY <1>3 DEF Parse, Chunk, RewriteBundle
<1>4. CASE HandlerFails \/ RewriteBundleFails \/ BeginPublish \/ EndPublish \/ EndUndo
           \/ Verify \/ Graph
  BY <1>4 DEF HandlerFails, RewriteBundleFails, BeginPublish, EndPublish, EndUndo, Verify,
     Graph, disk
<1> QED
  BY <1>1, <1>2, <1>3, <1>4 DEF Silent

\* A completed document is out of everybody's reach: what CompletedIsImmutable
\* says of a step.
LEMMA CompletedStays ==
    ASSUME Inv, [Next]_vars, NEW d \in Docs, task[d].status = "completed"
    PROVE  /\ task'[d] = task[d] /\ bundle'[d] = bundle[d]
           /\ parsed'[d] = parsed[d] /\ chunked'[d] = chunked[d]
           /\ index'[d] = index[d]
<1>0. /\ TypeOK /\ WorkerOwnsTask /\ CallInv
      /\ task \in [Docs -> Task]
  BY DEF Inv, TypeOK
<1>1. CASE UNCHANGED <<task, disk>>
  BY <1>1 DEF disk
<1>2. CASE FacadeWrite
  <2>1. d # call.doc /\ UNCHANGED disk
    BY <1>0, <1>2 DEF FacadeWrite, CallInv
  <2> QED
    BY <1>0, <1>2, <2>1 DEF FacadeWrite, disk
<1>3. CASE StartRun \/ Writing
  BY <1>3, WriteFrame DEF disk
<1>4. CASE Silent
  <2>1. d # doc
    BY <1>0, <1>4, SilentFrame DEF WorkerOwnsTask, Running
  <2> QED
    BY <1>0, <1>4, <2>1, SilentFrame, SilentDisk
<1>5. ASSUME NEW e \in Docs, Recover(e)
      PROVE  task'[d] = task[d] /\ UNCHANGED disk
  <2>1. d # e /\ UNCHANGED disk
    BY <1>0, <1>5 DEF Recover, CallInv
  <2> QED
    BY <1>0, <1>5, <2>1, RecoverTask
<1>6. CASE \/ FacadeWriteFails \/ Take \/ ReadTask \/ EndRun \/ Release
           \/ WorkerWriteFails \/ Crash \/ Restart \/ StartThread \/ UNCHANGED vars
           \/ \E e \in Docs, op \in FacadeOps : FacadeRead(e, op)
  BY <1>1, <1>6 DEF FacadeRead, FacadeWriteFails, Take, ReadTask, EndRun, Release,
     WorkerWriteFails, Crash, Restart, StartThread, vars
<1> QED
  BY <1>2, <1>3, <1>4, <1>5, <1>6, NextCases DEF disk

\* Only FinishTask makes a task completed, and it does so on a verified run.
LEMMA NewlyCompleted ==
    ASSUME Inv, [Next]_vars, NEW d \in Docs,
           task[d].status # "completed", task'[d].status = "completed"
    PROVE  FinishTask /\ d = doc
<1>0. TypeOK /\ task \in [Docs -> Task] /\ WorkerOwnsTask
  BY DEF Inv, TypeOK
<1>1. ~ UNCHANGED task
  OBVIOUS
<1>2. ~ FacadeWrite
  <2>1. \A n : Prepared(n).status = "queued"
    BY DEF Prepared
  <2> QED
    BY <1>0, <2>1 DEF FacadeWrite
<1>3. ASSUME NEW e \in Docs, Recover(e) PROVE FALSE
  BY <1>0, <1>3, RecoverTask
<1>4. ~ Silent
  BY <1>1, SilentFrame
<1>5. CASE StartRun \/ Writing
  <2>1. d = doc /\ mem = task[doc] /\ doc \in Docs /\ mem \in Task
    BY <1>0, <1>5, WriteFrame
  <2>2. CASE StartRun \/ FailStage
    BY <1>0, <2>1, <2>2 DEF StartRun, FailStage, WriteTask, Task
  <2>3. CASE SkipStage \/ BeginStage \/ CompleteStage
    BY <1>0, <2>1, <2>3 DEF SkipStage, BeginStage, CompleteStage, WriteTask, Task
  <2> QED
    BY <1>5, <2>1, <2>2, <2>3 DEF Writing
<1>6. CASE \/ FacadeWriteFails \/ Take \/ ReadTask \/ EndRun \/ Release
           \/ WorkerWriteFails \/ Crash \/ Restart \/ StartThread \/ UNCHANGED vars
           \/ \E e \in Docs, op \in FacadeOps : FacadeRead(e, op)
  BY <1>1, <1>6 DEF FacadeRead, FacadeWriteFails, Take, ReadTask, EndRun, Release,
     WorkerWriteFails, Crash, Restart, StartThread, vars
<1> QED
  BY <1>2, <1>3, <1>4, <1>5, <1>6, NextCases

LEMMA PublishedStep == Inv /\ [Next]_vars => CompletedIsPublished'
<1> SUFFICES ASSUME Inv, [Next]_vars, NEW d \in Docs, task'[d].status = "completed"
             PROVE  Published(d)' /\ task'[d].indexes = PublishedStores \ {"evidence"}
  BY DEF CompletedIsPublished
<1>1. CASE task[d].status = "completed"
  <2>1. Published(d) /\ task[d].indexes = PublishedStores \ {"evidence"}
    BY <1>1 DEF Inv, CompletedIsPublished
  <2> QED
    BY <1>1, <2>1, CompletedStays DEF Published
<1>2. CASE task[d].status # "completed"
  <2>1. FinishTask /\ d = doc
    BY <1>2, NewlyCompleted
  <2>2. /\ ProgressInv /\ pc = "finish" /\ mem \in Task /\ mem = task[doc]
        /\ task \in [Docs -> Task] /\ UNCHANGED disk
        /\ task' = [task EXCEPT ![doc] = [mem EXCEPT !.status = "completed", !.current = "none"]]
    BY <2>1 DEF Inv, TypeOK, FinishTask, WriteTask, WorkerOwnsTask, Running
  <2>3. Published(doc) /\ mem.indexes = PublishedStores \ {"evidence"}
    BY <2>2 DEF ProgressInv, Passed
  <2>4. task'[doc].indexes = mem.indexes
    BY <2>1, <2>2 DEF Task
  <2> QED
    BY <2>1, <2>2, <2>3, <2>4 DEF Published, disk
<1> QED
  BY <1>1, <1>2

LEMMA InvStep == Inv /\ [Next]_vars => Inv'
<1>1. Inv => TypeOK
  BY DEF Inv
<1> QED
  BY <1>1, TypeStep, OwnsStep, ScheduledStep, CallStep, FlagsStep, ProgressStep, PublishedStep
  DEF Inv

THEOREM Invariance == Spec => []Inv
  BY InvInit, InvStep, PTL DEF Spec

-----------------------------------------------------------------------------
(* The safety properties of IngestionWorker *)

\* A completed task is a published document, in every reachable state.
THEOREM CompletedPublished == Spec => []CompletedIsPublished
<1>1. Inv => CompletedIsPublished
  BY DEF Inv
<1> QED
  BY <1>1, Invariance, PTL

\* No facade call, crash or recovery writes the file of a task the thread runs.
THEOREM OwnedTask == Spec => []WorkerOwnsTask
<1>1. Inv => WorkerOwnsTask
  BY DEF Inv
<1> QED
  BY <1>1, Invariance, PTL

\* No document is queued twice or processed while it is queued.
THEOREM Scheduled == Spec => []ScheduledOnce
<1>1. Inv => ScheduledOnce
  BY DEF Inv
<1> QED
  BY <1>1, Invariance, PTL

\* No step changes anything of a completed document.
THEOREM CompletedImmutable == Spec => CompletedIsImmutable
<1>1. Inv /\ [Next]_vars =>
        [\A d \in Docs : task[d].status = "completed" =>
            /\ task'[d] = task[d] /\ bundle'[d] = bundle[d]
            /\ parsed'[d] = parsed[d] /\ chunked'[d] = chunked[d]
            /\ index'[d] = index[d]]_vars
  BY CompletedStays
<1> QED
  BY <1>1, Invariance, PTL DEF Spec, CompletedIsImmutable
=============================================================================
