----------------------------- MODULE VisualIndex -----------------------------
(***************************************************************************)
(* The points of one document in the visual collection of Qdrant           *)
(* (retrieval/visual_index.py).  A replacement writes a new generation of  *)
(* points, switches the document's generation pointer, and deletes the old *)
(* generation; a search reads points first and the pointer afterwards.     *)
(* Qdrant makes each call atomic and no two of them: a process may die     *)
(* between any two calls, and a call may fail, applied or not.             *)
(*                                                                         *)
(* One writer at a time works on a document.  Points without a generation, *)
(* which only older versions of the program wrote, are left out.  Names    *)
(* are not those of SparseIndex: one module proves theorems about both.    *)
(***************************************************************************)
EXTENDS Naturals

CONSTANTS
    Images,         \* the images of the document, one point each per generation
    MaxGenerations, \* bound: replacements that write points
    MaxCrashes,     \* bound: deaths of the writing process
    MaxFailures,    \* bound: failing calls to Qdrant
    MaxSearches     \* bound: searches

ASSUME VisualAssumption ==
    /\ Images # {}
    /\ MaxGenerations \in Nat \ {0}
    /\ MaxCrashes \in Nat /\ MaxFailures \in Nat /\ MaxSearches \in Nat

VARIABLES
    \* the collection
    points,     \* <<generation, image>> of each data point
    active,     \* generations whose points are flagged active
    pointer,    \* active_generation of the document's pointer, 0: no pointer
    \* the writer
    pc,
    op,         \* "replace", "clear" (a replacement without entries), "delete"
    gen,        \* the generation of this replacement
    prev,       \* the generation its pointer named before
    lastGen,    \* generations used so far: uuid4 never repeats
    torn,       \* history: generations whose upsert failed
    \* the search
    sc,
    hits,       \* points of the document in the window of the last query
    full,       \* that window was full: points may be missing from it
    cached,     \* pointer_cache of the document
    result,
    observed,   \* history: what was visible at each moment of the search
    crashes, failures, searches

collection == <<points, active, pointer>>
writer == <<pc, op, gen, prev, lastGen, torn>>
search == <<sc, hits, full, cached, result, searches>>
visualVars == <<collection, writer, search, observed, crashes, failures>>

None == 0
Unread == MaxGenerations + 1
Generations == 1..MaxGenerations
PointsOf(g) == {x \in points : x[1] = g}
NewPoints(g) == {g} \X Images
Present == {x[1] : x \in points}
Visible == PointsOf(pointer)

VisualInit ==
    /\ points = {} /\ active = {} /\ pointer = None
    /\ pc = "idle" /\ op = "none" /\ gen = None /\ prev = None
    /\ lastGen = 0 /\ torn = {}
    /\ sc = "idle" /\ hits = {} /\ full = FALSE /\ cached = Unread /\ result = {}
    /\ observed = {} /\ crashes = 0 /\ failures = 0 /\ searches = 0

-----------------------------------------------------------------------------
(* A call to Qdrant *)

Advance(l) == pc' = l
Done == pc' = "idle" /\ op' = "none" /\ gen' = None /\ prev' = None
Fault == failures < MaxFailures /\ failures' = failures + 1
NoFault == UNCHANGED failures

\* The writes of the collection a call can make.
SetPointer(g) == pointer' = g /\ UNCHANGED <<points, active>>
SetActive(g)  == active' = active \cup {g} /\ UNCHANGED <<points, pointer>>
Delete(S)     == points' = points \ S /\ UNCHANGED <<active, pointer>>
DeleteAll     == points' = {} /\ pointer' = None /\ UNCHANGED active
NoWrite       == UNCHANGED collection

-----------------------------------------------------------------------------
(* Writer: recover_document *)

Start(o) ==
    /\ pc = "idle"
    /\ o = "replace" => lastGen < MaxGenerations
    /\ op' = o
    /\ Advance(IF o = "delete" THEN "purge" ELSE "scan")
    /\ UNCHANGED <<collection, gen, prev, lastGen, torn>> /\ NoFault

Committed == Present \cap active
\* Mutant: any generation found is taken for a valid one.
KeepAny == IF pointer \in Present THEN {pointer} ELSE Present
\* The generation recovery keeps: the pointer's if it has points, else one of
\* the flagged ones (the latest indexed_at, which republished points share).
Keep == IF pointer \in Present THEN {pointer} ELSE Committed

\* Scroll and pointer read: a failing read ends the operation.
Scan ==
    /\ pc = "scan"
    /\ \/ /\ Keep = {} /\ Advance("sweep") /\ UNCHANGED <<op, gen, prev>> /\ NoFault
       \/ /\ \E k \in Keep : prev' = k
          /\ Advance("repoint") /\ UNCHANGED <<op, gen>> /\ NoFault
       \/ Fault /\ Done
    /\ NoWrite /\ UNCHANGED <<lastGen, torn>>

\* No valid generation: every residue goes, the pointer included.
Sweep ==
    /\ pc = "sweep"
    /\ \/ DeleteAll /\ Advance("recovered") /\ NoFault /\ UNCHANGED <<op, gen, prev>>
       \/ (DeleteAll \/ NoWrite) /\ Fault /\ Done
    /\ UNCHANGED <<lastGen, torn>>

Repoint ==
    /\ pc = "repoint"
    /\ \/ SetPointer(prev) /\ Advance("reflag") /\ NoFault /\ UNCHANGED <<op, gen, prev>>
       \/ (SetPointer(prev) \/ NoWrite) /\ Fault /\ Done
    /\ UNCHANGED <<lastGen, torn>>

Reflag ==
    /\ pc = "reflag"
    /\ \/ SetActive(prev) /\ Advance("drop") /\ NoFault /\ UNCHANGED <<op, gen, prev>>
       \/ (SetActive(prev) \/ NoWrite) /\ Fault /\ Done
    /\ UNCHANGED <<lastGen, torn>>

\* _normalize_flags: the other generations go point by point.
Drop ==
    /\ pc = "drop"
    /\ LET others == points \ PointsOf(prev) IN
       \/ others = {} /\ NoWrite /\ Advance("recovered") /\ NoFault /\ UNCHANGED <<op, gen, prev>>
       \/ \E x \in others :
            \/ Delete({x}) /\ NoFault /\ UNCHANGED <<pc, op, gen, prev>>
            \/ (Delete({x}) \/ NoWrite) /\ Fault /\ Done
    /\ UNCHANGED <<lastGen, torn>>

-----------------------------------------------------------------------------
(* Writer: replace_document_vectors after the recovery, and delete_document *)

Prepare ==
    /\ pc = "recovered"
    /\ \/ /\ prev' = pointer /\ UNCHANGED op /\ NoFault
          /\ IF op = "clear"
             THEN Advance("purge") /\ UNCHANGED <<gen, lastGen>>
             ELSE Advance("upsert") /\ lastGen' = lastGen + 1 /\ gen' = lastGen + 1
       \/ Fault /\ Done /\ UNCHANGED lastGen
    /\ NoWrite /\ UNCHANGED torn

\* Every record of the document in one call, the pointer included.
Purge ==
    /\ pc = "purge"
    /\ \/ DeleteAll /\ NoFault
       \/ (DeleteAll \/ NoWrite) /\ Fault
    /\ Done /\ UNCHANGED <<lastGen, torn>>

\* The new points, not active; a failing upsert may leave some of them.
Upsert ==
    /\ pc = "upsert"
    /\ UNCHANGED <<active, pointer>>
    /\ \/ points' = points \cup NewPoints(gen) /\ Advance("switch") /\ NoFault /\ UNCHANGED torn
       \/ /\ \E S \in SUBSET NewPoints(gen) : points' = points \cup S
          /\ Fault /\ Advance("unstage") /\ torn' = torn \cup {gen}
    /\ UNCHANGED <<op, gen, prev, lastGen>>

\* _safe_delete of the new points, then the error.
Unstage ==
    /\ pc = "unstage"
    /\ \/ Delete(NewPoints(gen)) /\ NoFault
       \/ (Delete(NewPoints(gen)) \/ NoWrite) /\ Fault
    /\ Done /\ UNCHANGED <<lastGen, torn>>

\* Mutant: the old generation goes before the pointer is switched.
SwitchAfterDelete ==
    /\ pc = "switch"
    /\ \/ \E x \in points \ PointsOf(gen) : Delete({x}) /\ NoFault /\ UNCHANGED pc
       \/ /\ points = PointsOf(gen)
          /\ SetPointer(gen) /\ Advance("flag") /\ NoFault
    /\ UNCHANGED <<op, gen, prev, lastGen, torn>>

Switch ==
    /\ pc = "switch"
    /\ \/ SetPointer(gen) /\ Advance("flag") /\ NoFault
       \/ (SetPointer(gen) \/ NoWrite) /\ Fault /\ Advance("undo")
    /\ UNCHANGED <<op, gen, prev, lastGen, torn>>

Flag ==
    /\ pc = "flag"
    /\ \/ SetActive(gen) /\ Advance("clean") /\ NoFault
       \/ (SetActive(gen) \/ NoWrite) /\ Fault /\ Advance("undo")
    /\ UNCHANGED <<op, gen, prev, lastGen, torn>>

\* _delete_other_generations, point by point.
DeleteOthers ==
    /\ pc = "clean"
    /\ LET others == points \ PointsOf(gen) IN
       \/ others = {} /\ NoWrite /\ Done /\ NoFault
       \/ \E x \in others :
            \/ Delete({x}) /\ NoFault /\ UNCHANGED <<pc, op, gen, prev>>
            \/ (Delete({x}) \/ NoWrite) /\ Fault /\ Advance("undo") /\ UNCHANGED <<op, gen, prev>>
    /\ UNCHANGED <<lastGen, torn>>

\* The rollback of a failing switch: three calls whose failures are swallowed.
Undo ==
    /\ pc = "undo"
    /\ \/ Delete(NewPoints(gen)) /\ NoFault
       \/ (Delete(NewPoints(gen)) \/ NoWrite) /\ Fault
    /\ Advance("unpoint") /\ UNCHANGED <<op, gen, prev, lastGen, torn>>

Unpoint ==
    /\ pc = "unpoint"
    /\ \/ SetPointer(prev) /\ NoFault
       \/ (SetPointer(prev) \/ NoWrite) /\ Fault
    /\ IF prev # None /\ failures' = failures
       THEN Advance("unflag") /\ UNCHANGED <<op, gen, prev>> ELSE Done
    /\ UNCHANGED <<lastGen, torn>>

Unflag ==
    /\ pc = "unflag"
    /\ \/ SetActive(prev) /\ NoFault
       \/ (SetActive(prev) \/ NoWrite) /\ Fault
    /\ Done /\ UNCHANGED <<lastGen, torn>>

Crash ==
    /\ pc # "idle" /\ crashes < MaxCrashes
    /\ crashes' = crashes + 1
    /\ Done /\ UNCHANGED <<collection, lastGen, torn>> /\ NoFault

-----------------------------------------------------------------------------
(* Search, limited to what it finds of this document *)

ClearItems == result' = {}

\* query_points without a filter on the generation.  A window full of points of
\* other documents may miss any of this one's.
Query ==
    /\ sc \in {"idle", "widen"}
    /\ IF sc = "idle"
       THEN searches < MaxSearches /\ searches' = searches + 1
       ELSE UNCHANGED searches
    /\ full' \in BOOLEAN
    /\ hits' \in (IF full' THEN SUBSET points ELSE {points})
    /\ sc' = IF hits' = {} \/ cached # Unread THEN "filter" ELSE "point"
    /\ ClearItems
    /\ UNCHANGED <<cached, collection, writer, crashes, failures>>

\* The pointer is read at the first hit of the document and kept.
CachePointer ==
    /\ sc = "point"
    /\ sc' = "filter"
    /\ cached' = pointer
    /\ UNCHANGED <<hits, full, result, searches, collection, writer, crashes, failures>>

\* Mutant: the flag of the points decides instead of the pointer.
FilterByFlag ==
    /\ sc = "filter"
    /\ result' = {x \in hits : x[1] \in active}
    /\ sc' = "done"
    /\ UNCHANGED <<hits, full, cached, searches, collection, writer, crashes, failures>>

\* Only the pointer's generation passes.  With too few hits in a full window the
\* query is made again, wider, with the pointers already read.
Filter ==
    /\ sc = "filter"
    /\ result' = {x \in hits : x[1] = cached}
    /\ sc' \in (IF full /\ result' # NewPoints(cached) THEN {"done", "widen"} ELSE {"done"})
    /\ UNCHANGED <<hits, full, cached, searches, collection, writer, crashes, failures>>

EndSearch ==
    /\ sc = "done"
    /\ sc' = "idle" /\ hits' = {} /\ full' = FALSE /\ cached' = Unread /\ result' = {}
    /\ UNCHANGED <<searches, collection, writer, crashes, failures>>

-----------------------------------------------------------------------------
Recovery == Scan \/ Sweep \/ Repoint \/ Reflag \/ Drop
Replacement == \/ Prepare \/ Purge \/ Upsert \/ Unstage \/ Switch \/ Flag \/ DeleteOthers
               \/ Undo \/ Unpoint \/ Unflag
Write == \/ \E o \in {"replace", "clear", "delete"} : Start(o)
         \/ Recovery \/ Replacement
Search == Query \/ CachePointer \/ Filter \/ EndSearch

VisualNext ==
    /\ \/ Write /\ UNCHANGED <<search, crashes>>
       \/ Crash /\ UNCHANGED search
       \/ Search
    /\ observed' = IF sc' = "idle" THEN {} ELSE observed \cup {Visible'}

VisualSpec == VisualInit /\ [][VisualNext]_visualVars
-----------------------------------------------------------------------------
(* Properties *)

\* A generation whose upsert failed, and which may lack points, is never made
\* visible: neither the switch nor the rollback nor a recovery points at it or
\* flags it, whatever calls fail and whenever the process dies
\* (docs/architecture/visual-retrieval.md: recovery never activates a pending
\* generation that was not completely written).  And recover_document ends in one
\* clearly valid state: one generation, pointed at and flagged, or no record.
NoPendingVisible ==
    /\ pointer \notin torn /\ active \cap torn = {}
    /\ pc = "recovered" =>
          \/ points = {} /\ pointer = None
          \/ points # {} /\ Present = {pointer} /\ pointer \in active

\* As long as no call has failed, the hits of a search are all of one state that
\* the index had while the search ran: never a mix of two generations, nor points
\* of a generation that was not visible then, whatever the writer did and wherever
\* it died between the query and the pointer read.
SearchConsistent == sc = "done" /\ failures = 0 => \E v \in observed : result \subseteq v

\* The writer and its crashes implement the abstract index: one
\* step makes a replacement visible, whole, and until a call fails nothing else
\* changes what is visible, wherever the process dies; once one has failed, only
\* an operation in progress does.
WholePointer == IF pointer # None /\ Visible = NewPoints(pointer) THEN pointer ELSE None
Asked == CASE op = "none" -> "none" [] op = "replace" -> "replace" [] OTHER -> "remove"
Abstract == INSTANCE GenerationIndex WITH visible <- WholePointer, asked <- Asked,
                                     failed <- failures > 0
ImplementsGenerationIndex == Abstract!GSpec
=============================================================================
