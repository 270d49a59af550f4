-------------------------- MODULE DocumentLifecycle --------------------------
(***************************************************************************)
(* One uploaded document and everything that is derived from it: its row   *)
(* in PostgreSQL, its files, its points in the representation collection   *)
(* and what other stores hold of it.  Upload, parsing, chunking, indexing  *)
(* and deletion are sequences of steps over stores that share no           *)
(* transaction; an operation that fails compensates by hand, with steps    *)
(* that may fail too, and a process may die between any two steps.         *)
(*                                                                         *)
(* A file or a set of points is the version of the parse it was made from, *)
(* 0 when absent.  A failing file operation has done nothing, a failing    *)
(* call to a store or a failing commit may have been applied.  Documents   *)
(* registered by reference, which have no source file, are left out.       *)
(***************************************************************************)
EXTENDS Naturals, Sequences, FiniteSets

CONSTANTS
    Procs,          \* the processes and threads that work on the document
    Operations,     \* the operations they start
    MaxVersions,    \* bound: parses
    MaxOperations,  \* bound: operations started
    MaxFaults,      \* bound: failing steps
    MaxCrashes      \* bound: deaths of a process

ASSUME LifecycleAssumption ==
    /\ Operations \subseteq {"upload", "parse", "reparse", "build", "chunk", "publish",
                             "extract", "delete"}
    /\ MaxVersions \in Nat \ {0} /\ MaxOperations \in Nat
    /\ MaxFaults \in Nat /\ MaxCrashes \in Nat

VARIABLES
    row,        \* the document's row
    rival,      \* another row of the knowledge base has the same sha256
    place,      \* the version at each path
    points,     \* the version of each representation point
    hidden,     \* points with quarantined = true
    others,     \* the other stores that hold something of the document
    \* processes
    op, todo,   \* the operation and the steps it still has to take
    outcome,    \* "ok", "failed", "partial" (what was done stays done), "none"
    made,       \* the version it produces or publishes
    trash,      \* what it has moved to .delete-* directories
    backup,     \* the directory it has moved to .previous-*
    had,        \* the points it has read: versions and hidden ones
    kept,       \* the evidence and the points it would put back
    \* history
    before,     \* the stores when the operation started
    alone,      \* no other operation overlapped it
    overlapped, \* "none", "others" or "delete": what overlapped another operation
    lost,       \* a commit was applied and reported as failed
    intact,     \* no process died and no compensating step failed
    lastVersion, started, faults, crashes

database == <<row, rival, lost>>
files == <<place, trash, backup, made, lastVersion>>
index == <<points, hidden>>
memory == <<had, kept>>
control == <<todo, outcome, faults, intact>>
trace == <<op, before, alone, overlapped, started>>
vars == <<database, files, index, others, memory, control, trace, crashes>>

Paths == {"source", "parsing", "chunking", "evidence"}
Versions == 1..MaxVersions
\* The id of a point is derived from its content: generations share some.
PointsOf(v) == {v, v + 1}
PointIds == 1..(MaxVersions + 1)
Stored == {i \in PointIds : points[i] # 0}
Visible == Stored \ hidden
Nothing == [r \in Paths |-> 0]
NoPoints == [i \in PointIds |-> 0]
Unread == [at |-> NoPoints, hidden |-> {}]

Init ==
    /\ row = FALSE /\ rival \in BOOLEAN
    /\ place = Nothing /\ points = NoPoints /\ hidden = {} /\ others = {}
    /\ op = [p \in Procs |-> "none"] /\ todo = [p \in Procs |-> <<>>]
    /\ outcome = [p \in Procs |-> "none"] /\ made = [p \in Procs |-> 0]
    /\ trash = [p \in Procs |-> Nothing] /\ backup = [p \in Procs |-> 0]
    /\ had = [p \in Procs |-> Unread]
    /\ kept = [p \in Procs |-> [evidence |-> 0, at |-> NoPoints]]
    /\ before = [p \in Procs |-> <<>>] /\ alone = [p \in Procs |-> TRUE]
    /\ overlapped = "none" /\ lost = FALSE /\ intact = TRUE
    /\ lastVersion = 0 /\ started = 0 /\ faults = 0 /\ crashes = 0

-----------------------------------------------------------------------------
(* Operations as sequences of steps *)

Replace == <<"scan", "upsert", "stale">>
Upload  == <<"lookup", "store", "insert", "refresh">>
Parse   == <<"run", "backup", "promote", "chunking", "evidence", "discard">>
Reparse == <<"run", "check">> \o Replace \o <<"write", "backup", "promote", "chunking", "discard">>
Build   == <<"check", "write">> \o Replace
Chunk   == <<"backup", "promote", "discard">>
Publish == <<"write", "text">> \o Replace \o <<"sparse", "visual">>
Extract == <<"graph">>

\* Mutant: the row goes before the points are hidden.
DeleteCommitFirst == <<"source", "parsing", "chunking", "evidence", "commit", "snapshot", "hide",
                       "ungraph", "unpoint", "purge", "untext">>
Delete  == <<"source", "parsing", "chunking", "evidence", "snapshot", "hide", "commit",
             "ungraph", "unpoint", "purge", "untext">>

Flow(o) ==
    CASE o = "upload"  -> Upload  [] o = "parse" -> Parse [] o = "reparse" -> Reparse
      [] o = "build"   -> Build   [] o = "chunk" -> Chunk [] o = "publish" -> Publish
      [] o = "extract" -> Extract [] o = "delete" -> Delete

\* The compensation when step l fails, as the exception handlers give it.
UndoReplace == <<"unstore", "restore">>
UndoPromote == <<"unpromote", "unbackup">>

\* Mutant: the file goes although the row is there.
UndoUploadAlways(l) == IF l = "lookup" THEN <<>> ELSE <<"unplace">>
UndoUpload(l) == IF l \in {"store", "insert"} THEN <<"unplace">> ELSE <<>>

UndoParse(l) ==
    CASE l = "promote" -> <<"unbackup">>
      [] l \in {"chunking", "evidence"} -> UndoPromote \o <<"undo">>
      [] OTHER -> <<>>

UndoReparse(l) ==
    CASE l \in {"upsert", "stale"} -> UndoReplace
      [] l \in {"write", "backup"} -> <<"repoint", "unwrite">>
      [] l = "promote" -> <<"unbackup", "repoint", "unwrite">>
      [] l = "chunking" -> <<"repoint", "unwrite">> \o UndoPromote
      [] OTHER -> <<>>

UndoBuild(l) ==
    CASE l = "scan" -> <<"unwrite">>
      [] l \in {"upsert", "stale"} -> UndoReplace \o <<"unwrite">>
      [] OTHER -> <<>>

UndoPublish(l) ==
    CASE l = "write" -> <<>>
      [] l = "text" -> <<"untext", "remove">>
      [] l = "scan" -> <<"untext", "unpoint", "remove">>
      [] l \in {"upsert", "stale"} -> UndoReplace \o <<"untext", "unpoint", "remove">>
      [] l = "sparse" -> <<"untext", "unpoint", "unsparse", "remove">>
      [] l = "visual" -> <<"untext", "unpoint", "unsparse", "unvisual", "remove">>

\* Mutant: the points stay hidden when the row could not be deleted.
UndoDeleteFiles(l) == IF l \in {"ungraph", "unpoint", "purge", "untext"} THEN <<>> ELSE <<"undo">>
UndoDelete(l) ==
    CASE l = "hide" -> <<"unhide", "undo">>
      [] l = "commit" -> <<"undo", "show">>
      [] l \in {"ungraph", "unpoint", "purge", "untext"} -> <<>>
      [] OTHER -> <<"undo">>

Undo(o, l) ==
    CASE o = "upload" -> UndoUpload(l) [] o = "reparse" -> UndoReparse(l)
      [] o = "build" -> UndoBuild(l)   [] o \in {"parse", "chunk"} -> UndoParse(l)
      [] o = "publish" -> UndoPublish(l) [] o = "delete" -> UndoDelete(l)
      [] o = "extract" -> <<>>

\* Failing after the row is written or removed, an operation stops where it is.
Settled == {"refresh", "ungraph", "unpoint", "purge", "untext"}

Busy == {p \in Procs : todo[p] # <<>>}
At(p, l) == todo[p] # <<>> /\ Head(todo[p]) = l
Forward(p) == outcome[p] = "ok"

Fault == faults < MaxFaults /\ faults' = faults + 1
Stay == UNCHANGED control
Succeed(p) == todo' = [todo EXCEPT ![p] = Tail(@)] /\ UNCHANGED <<outcome, faults, intact>>

\* The step raises, because the code refuses to go on (Refuse) or by a fault.
Raise(p) ==
    /\ Forward(p)
    /\ todo' = [todo EXCEPT ![p] = Undo(op[p], Head(@))]
    /\ outcome' = [outcome EXCEPT ![p] =
                     IF Head(todo[p]) \in Settled THEN "partial" ELSE "failed"]
    /\ UNCHANGED intact
Refuse(p) == Raise(p) /\ UNCHANGED faults
Fail(p) == Raise(p) /\ Fault

\* A compensating step does not do its work, and takes n - 1 others with it.
Miss(p, n) ==
    /\ todo' = [todo EXCEPT ![p] = SubSeq(@, n + 1, Len(@))]
    /\ intact' = FALSE /\ UNCHANGED outcome
Slip(p, n) == Miss(p, n) /\ Fault

-----------------------------------------------------------------------------
(* Files: documents/storage.py, parsing/service.py, chunking/service.py *)

Move(p, r) == /\ place' = [place EXCEPT ![r] = 0]
              /\ trash' = [trash EXCEPT ![p][r] = place[r]]
              /\ UNCHANGED backup
Put(r, v) == place' = [place EXCEPT ![r] = v] /\ UNCHANGED <<trash, backup>>
NoFile == UNCHANGED <<place, trash, backup>>

\* store: the staged upload becomes the source file.
StoreSource(p) ==
    /\ At(p, "store")
    /\ \/ Put("source", 1) /\ Succeed(p)
       \/ NoFile /\ Fail(p)
    /\ UNCHANGED <<made, lastVersion>>

Unplace(p) ==
    /\ At(p, "unplace")
    /\ \/ Put("source", 0) /\ Succeed(p)
       \/ NoFile /\ Slip(p, 1)
    /\ UNCHANGED <<made, lastVersion>>

\* A path is moved to the trash if it is there; the source has to be.
MoveToTrash(p, r) ==
    /\ At(p, r)
    /\ IF place[r] = 0
       THEN NoFile /\ (IF r = "source" THEN Refuse(p) ELSE Succeed(p))
       ELSE \/ Move(p, r) /\ Succeed(p)
            \/ NoFile /\ Fail(p)
    /\ UNCHANGED <<made, lastVersion>>

Held(p) == {r \in Paths : trash[p][r] # 0}
\* Restored in the reverse of the order in which they were moved.
Latest(p) == CASE trash[p]["evidence"] # 0 -> "evidence"
               [] trash[p]["chunking"] # 0 -> "chunking"
               [] trash[p]["parsing"] # 0 -> "parsing"
               [] OTHER -> "source"
Forget(p, r) == trash' = [trash EXCEPT ![p][r] = 0] /\ UNCHANGED backup

\* restore_from_trash refuses a path that is occupied; the rest goes on.
RestoreFromTrash(p) ==
    /\ At(p, "undo")
    /\ IF Held(p) = {} THEN NoFile /\ Succeed(p)
       ELSE LET r == Latest(p) IN
            \/ place[r] = 0 /\ place' = [place EXCEPT ![r] = trash[p][r]] /\ Forget(p, r) /\ Stay
            \/ UNCHANGED place /\ Forget(p, r) /\ Miss(p, 0)
               /\ IF place[r] # 0 THEN UNCHANGED faults ELSE Fault
    /\ UNCHANGED <<made, lastVersion>>

\* purge ends a deletion, discard the others, where failures are ignored.
RemoveTrash(p) ==
    /\ At(p, "purge") \/ At(p, "discard")
    /\ \/ /\ trash' = [trash EXCEPT ![p] = Nothing] /\ backup' = [backup EXCEPT ![p] = 0]
          /\ UNCHANGED place /\ Succeed(p)
       \/ At(p, "purge") /\ NoFile /\ Fail(p)
    /\ UNCHANGED <<made, lastVersion>>

\* The parser runs on the source file and leaves a staging directory.
RunParser(p) ==
    /\ At(p, "run")
    /\ \/ /\ place["source"] # 0 /\ lastVersion < MaxVersions
          /\ lastVersion' = lastVersion + 1 /\ made' = [made EXCEPT ![p] = lastVersion + 1]
          /\ Succeed(p)
       \/ Fail(p) /\ UNCHANGED <<made, lastVersion>>
       \/ place["source"] = 0 /\ Refuse(p) /\ UNCHANGED <<made, lastVersion>>
    /\ NoFile

\* _promote_staging: the old directory moves aside, the new one takes its path.
Target(p) == IF op[p] = "chunk" THEN "chunking" ELSE "parsing"

Backup(p) ==
    /\ At(p, "backup")
    /\ \/ /\ place' = [place EXCEPT ![Target(p)] = 0]
          /\ backup' = [backup EXCEPT ![p] = place[Target(p)]]
          /\ UNCHANGED trash /\ Succeed(p)
       \/ place[Target(p)] # 0 /\ NoFile /\ Fail(p)
    /\ UNCHANGED <<made, lastVersion>>

Promote(p) ==
    /\ At(p, "promote")
    /\ \/ place[Target(p)] = 0 /\ Put(Target(p), made[p]) /\ Succeed(p)
       \/ place[Target(p)] # 0 /\ NoFile /\ Refuse(p)
       \/ NoFile /\ Fail(p)
    /\ UNCHANGED <<made, lastVersion>>

\* A new directory that cannot be removed keeps the old one aside.
Unpromote(p) ==
    /\ At(p, "unpromote")
    /\ \/ Put(Target(p), 0) /\ Succeed(p)
       \/ (Put(Target(p), 0) \/ NoFile) /\ Slip(p, 2)
    /\ UNCHANGED <<made, lastVersion>>

Unbackup(p) ==
    /\ At(p, "unbackup")
    /\ IF backup[p] = 0 THEN NoFile /\ Succeed(p)
       ELSE \/ place[Target(p)] = 0 /\ Put(Target(p), backup[p]) /\ Succeed(p)
            \/ place[Target(p)] # 0 /\ NoFile /\ Miss(p, 1) /\ UNCHANGED faults
            \/ NoFile /\ Slip(p, 1)
    /\ UNCHANGED <<made, lastVersion>>

\* evidence.json is replaced by one rename.
WriteEvidence(p) ==
    /\ At(p, "write")
    /\ \/ Put("evidence", made[p]) /\ Succeed(p)
       \/ NoFile /\ Fail(p)
    /\ UNCHANGED <<made, lastVersion>>

\* The evidence that was there comes back, or what was written is removed.
RestoreEvidence(p) ==
    /\ At(p, "unwrite") \/ At(p, "remove")
    /\ \/ Put("evidence", IF At(p, "unwrite") THEN kept[p].evidence ELSE 0) /\ Succeed(p)
       \/ NoFile /\ Slip(p, 1)
    /\ UNCHANGED <<made, lastVersion>>

-----------------------------------------------------------------------------
(* Representation points: retrieval/representation_index.py *)

Write(i, v) == points' = [points EXCEPT ![i] = v] /\ hidden' = hidden \ {i}
Remove(S) == /\ points' = [i \in PointIds |-> IF i \in S THEN 0 ELSE points[i]]
             /\ hidden' = hidden \ S
Hide(S) == hidden' = hidden \cup (S \cap Stored) /\ UNCHANGED points
Show(S) == hidden' = hidden \ S /\ UNCHANGED points
NoCall == UNCHANGED <<points, hidden>>
HadIds(p) == {i \in PointIds : had[p].at[i] # 0}

\* A call that is applied, or fails, applied or not; compensating, its failure
\* ends the compensation.
Call(p, Effect) ==
    \/ Effect /\ Succeed(p)
    \/ Forward(p) /\ (Effect \/ NoCall) /\ Fail(p)
    \/ ~Forward(p) /\ (Effect \/ NoCall) /\ Slip(p, Len(todo[p]))

\* Point by point; those that are already written make no difference.
Upsert(p) ==
    /\ At(p, "upsert")
    /\ LET pending == {i \in PointsOf(made[p]) : points[i] # made[p] \/ i \in hidden} IN
       \/ pending = {} /\ NoCall /\ Succeed(p)
       \/ \E i \in pending : \/ Write(i, made[p]) /\ Stay
                             \/ (Write(i, made[p]) \/ NoCall) /\ Fail(p)

DeleteStale(p) ==
    /\ At(p, "stale")
    /\ Call(p, Remove(HadIds(p) \ PointsOf(made[p])))

\* _rollback: new points go, then the ones that were there are written again.
Unstore(p) ==
    /\ At(p, "unstore")
    /\ LET new == PointsOf(made[p]) \ HadIds(p) IN
       \/ Remove(new) /\ Succeed(p)
       \/ (Remove(new) \/ NoCall) /\ Slip(p, 2)

Rewrite(S, was) ==
    /\ points' = [i \in PointIds |-> IF i \in S THEN was.at[i] ELSE points[i]]
    /\ hidden' = (hidden \ S) \cup (was.hidden \cap S)

\* Mutant: points that were overwritten are not written back.
RestoreNothing(p) == At(p, "restore") /\ NoCall /\ Succeed(p)
RestorePoints(p) ==
    /\ At(p, "restore")
    /\ \/ Rewrite(HadIds(p), had[p]) /\ Succeed(p)
       \/ \E S \in SUBSET HadIds(p) : Rewrite(S, had[p]) /\ Slip(p, 1)

\* The parser puts the previous generation back by another replacement, which
\* may fail in the middle of its own rollback.
Repoint(p) ==
    /\ At(p, "repoint")
    /\ \/ Rewrite(PointIds, [at |-> kept[p].at, hidden |-> {}]) /\ Succeed(p)
       \/ \E S \in SUBSET PointIds :
            Rewrite(S, [at |-> kept[p].at, hidden |-> {}]) /\ Slip(p, 1)

\* quarantine_document, point by point, and what undoes it.
Quarantine(p) ==
    /\ At(p, "hide")
    /\ LET pending == (HadIds(p) \ had[p].hidden) \cap Visible IN
       \/ pending = {} /\ NoCall /\ Succeed(p)
       \/ \E i \in pending : \/ Hide({i}) /\ Stay
                             \/ (Hide({i}) \/ NoCall) /\ Fail(p)

\* The states that were read; after a failing commit only if no point is missing.
RestoreVisibility(p) ==
    /\ At(p, "unhide") \/ At(p, "show")
    /\ LET shown == HadIds(p) \ had[p].hidden IN
       IF At(p, "show") /\ ~(HadIds(p) \subseteq Stored)
       THEN NoCall /\ Miss(p, 1) /\ UNCHANGED faults
       ELSE \/ /\ hidden' = (hidden \ shown) \cup (had[p].hidden \cap Stored)
               /\ UNCHANGED points /\ Succeed(p)
            \/ \E S \in SUBSET shown : Show(S) /\ Slip(p, 1)

DeletePoints(p) == At(p, "unpoint") /\ Call(p, Remove(PointIds))

-----------------------------------------------------------------------------
(* What an operation reads before it replaces points *)

\* The points as they are: _validated_document_records.
Scan(p) ==
    /\ At(p, "scan") \/ At(p, "snapshot")
    /\ \/ had' = [had EXCEPT ![p] = [at |-> points, hidden |-> hidden]] /\ Succeed(p)
       \/ Fail(p) /\ UNCHANGED had
    /\ UNCHANGED kept

\* Points need evidence to be put back, and a coordinated parse visible points
\* and evidence that matches the canonical document.
Recoverable(p) ==
    /\ Stored # {} => place["evidence"] # 0
    /\ op[p] = "reparse" => /\ hidden = {}
                            /\ place["evidence"] \in {0, place["parsing"]}
Check(p) ==
    /\ At(p, "check")
    /\ \/ /\ Recoverable(p) /\ Succeed(p)
          /\ kept' = [kept EXCEPT ![p] = [evidence |-> place["evidence"], at |-> points]]
       \/ ~Recoverable(p) /\ Refuse(p) /\ UNCHANGED kept
       \/ Fail(p) /\ UNCHANGED kept
    /\ UNCHANGED had

-----------------------------------------------------------------------------
(* The other stores, and the row *)

WriteStore(p) ==
    \E s \in {"text", "sparse", "visual", "graph"} :
        /\ At(p, s)
        /\ \/ others' = others \cup {s} /\ Succeed(p)
           \/ (others' = others \cup {s} \/ UNCHANGED others) /\ Fail(p)

Cleared == [untext |-> "text", unsparse |-> "sparse", unvisual |-> "visual", ungraph |-> "graph"]
ClearStore(p) ==
    \E l \in DOMAIN Cleared :
        /\ At(p, l)
        /\ \/ others' = others \ {Cleared[l]} /\ Succeed(p)
           \/ (others' = others \ {Cleared[l]} \/ UNCHANGED others)
              /\ (Fail(p) \/ (~Forward(p) /\ Slip(p, Len(todo[p]))))

Lookup(p) ==
    /\ At(p, "lookup")
    /\ IF rival THEN Refuse(p) ELSE Succeed(p) \/ Fail(p)
    /\ UNCHANGED <<row, lost>>

\* A unique constraint rejects the second row with the same sha256.
Insert(p) ==
    /\ At(p, "insert")
    /\ \/ ~rival /\ row' = TRUE /\ Succeed(p) /\ UNCHANGED lost
       \/ ~rival /\ row' = TRUE /\ Fail(p) /\ lost' = TRUE
       \/ (IF rival THEN Refuse(p) ELSE Fail(p)) /\ UNCHANGED <<row, lost>>

Refresh(p) == At(p, "refresh") /\ (Succeed(p) \/ Fail(p)) /\ UNCHANGED <<row, lost>>

DeleteRow(p) ==
    /\ At(p, "commit")
    /\ \/ row' = FALSE /\ Succeed(p) /\ UNCHANGED lost
       \/ row' = FALSE /\ Fail(p) /\ lost' = TRUE
       \/ Fail(p) /\ UNCHANGED <<row, lost>>

-----------------------------------------------------------------------------
(* Operations begin and die *)

\* What the caller has to find.  An upload draws the id of a new document; a bundle
\* is prepared from the current chunks.
Startable(o) ==
    CASE o = "upload" -> started = 0
      [] o \in {"parse", "reparse", "delete"} -> row
      [] o = "publish" -> place["parsing"] # 0 /\ place["chunking"] = place["parsing"]
      [] OTHER -> place["parsing"] # 0

Start(p, o) ==
    /\ todo[p] = <<>> /\ started < MaxOperations /\ Startable(o)
    /\ started' = started + 1
    /\ op' = [op EXCEPT ![p] = o]
    /\ todo' = [todo EXCEPT ![p] = Flow(o)] /\ outcome' = [outcome EXCEPT ![p] = "ok"]
    /\ made' = [made EXCEPT ![p] = place["parsing"]]
    /\ trash' = [trash EXCEPT ![p] = Nothing] /\ backup' = [backup EXCEPT ![p] = 0]
    /\ had' = [had EXCEPT ![p] = Unread]
    /\ kept' = [kept EXCEPT ![p] = [evidence |-> 0, at |-> NoPoints]]
    /\ before' = [before EXCEPT ![p] = <<row, place, points, hidden, others>>]
    /\ alone' = [q \in Procs |-> IF q = p THEN Busy = {} ELSE alone[q] /\ q \notin Busy]
    /\ overlapped' = IF Busy = {} \/ overlapped = "delete" THEN overlapped
                     ELSE IF "delete" \in {o} \cup {op[q] : q \in Busy} THEN "delete" ELSE "others"
    /\ UNCHANGED <<database, place, lastVersion, index, others, faults, intact, crashes>>

Crash(p) ==
    /\ todo[p] # <<>> /\ crashes < MaxCrashes
    /\ crashes' = crashes + 1
    /\ todo' = [todo EXCEPT ![p] = <<>>] /\ outcome' = [outcome EXCEPT ![p] = "none"]
    /\ intact' = FALSE
    /\ UNCHANGED <<database, files, index, others, memory, faults, trace>>

\* Another upload of the same file, or the deletion of that document.
Rival ==
    /\ rival \/ ~row
    /\ rival' = ~rival
    /\ UNCHANGED <<row, lost, files, index, others, memory, control, trace, crashes>>

FileStep(p) ==
    \/ StoreSource(p) \/ Unplace(p) \/ (\E r \in Paths : MoveToTrash(p, r))
    \/ RestoreFromTrash(p) \/ RemoveTrash(p) \/ RunParser(p) \/ Backup(p) \/ Promote(p)
    \/ Unpromote(p) \/ Unbackup(p) \/ WriteEvidence(p) \/ RestoreEvidence(p)
IndexStep(p) ==
    \/ Upsert(p) \/ DeleteStale(p) \/ Unstore(p) \/ RestorePoints(p) \/ Repoint(p)
    \/ Quarantine(p) \/ RestoreVisibility(p) \/ DeletePoints(p)
RowStep(p) == Lookup(p) \/ Insert(p) \/ Refresh(p) \/ DeleteRow(p)

Step(p) ==
    /\ \/ FileStep(p) /\ UNCHANGED <<database, index, others, memory>>
       \/ IndexStep(p) /\ UNCHANGED <<database, files, others, memory>>
       \/ (Scan(p) \/ Check(p)) /\ UNCHANGED <<database, files, index, others>>
       \/ (WriteStore(p) \/ ClearStore(p)) /\ UNCHANGED <<database, files, index, memory>>
       \/ RowStep(p) /\ UNCHANGED <<rival, files, index, others, memory>>
    /\ UNCHANGED <<trace, crashes>>

Next == Rival \/ \E p \in Procs : \/ \E o \in Operations : Start(p, o)
                                  \/ Step(p)
                                  \/ Crash(p)

Spec == Init /\ [][Next]_vars
-----------------------------------------------------------------------------
(* Properties *)

Steps == {"lookup", "store", "insert", "refresh", "run", "backup", "promote", "discard",
          "check", "scan", "upsert", "stale", "write", "text", "sparse", "visual", "graph",
          "source", "parsing", "chunking", "evidence", "snapshot", "hide", "commit", "ungraph",
          "unpoint", "purge", "untext", "unplace", "unpromote", "unbackup", "undo", "unstore",
          "restore", "repoint", "unwrite", "remove", "unsparse", "unvisual", "unhide", "show"}
Content == 0..MaxVersions

TypeOK ==
    /\ row \in BOOLEAN /\ rival \in BOOLEAN /\ lost \in BOOLEAN
    /\ place \in [Paths -> Content] /\ points \in [PointIds -> Content] /\ hidden \subseteq Stored
    /\ others \subseteq {"text", "sparse", "visual", "graph"}
    /\ op \in [Procs -> Operations \cup {"none"}] /\ todo \in [Procs -> Seq(Steps)]
    /\ outcome \in [Procs -> {"none", "ok", "failed", "partial"}] /\ made \in [Procs -> Content]
    /\ trash \in [Procs -> [Paths -> Content]] /\ backup \in [Procs -> Content]
    /\ had \in [Procs -> [at : [PointIds -> Content], hidden : SUBSET PointIds]]
    /\ kept \in [Procs -> [evidence : Content, at : [PointIds -> Content]]]
    /\ alone \in [Procs -> BOOLEAN] /\ overlapped \in {"none", "others", "delete"}
    /\ intact \in BOOLEAN /\ lastVersion \in Content
    /\ started \in 0..MaxOperations /\ faults \in 0..MaxFaults /\ crashes \in 0..MaxCrashes

Whole(v) == Visible = PointsOf(v) /\ \A i \in PointIds : points[i] = (IF i \in PointsOf(v) THEN v ELSE 0)

\* What each operation is for.
Done(p) ==
    CASE op[p] = "upload" -> row /\ place["source"] = 1
      [] op[p] = "parse" -> /\ place["parsing"] = made[p]
                            /\ place["chunking"] = 0 /\ place["evidence"] = 0
      [] op[p] = "reparse" -> /\ place["parsing"] = made[p] /\ place["chunking"] = 0
                              /\ place["evidence"] = made[p] /\ Whole(made[p])
      [] op[p] = "build" -> place["evidence"] = made[p] /\ Whole(made[p])
      [] op[p] = "chunk" -> place["chunking"] = place["parsing"]
      [] op[p] = "publish" -> /\ place["evidence"] = made[p] /\ Whole(made[p])
                              /\ {"text", "sparse", "visual"} \subseteq others
      [] op[p] = "extract" -> "graph" \in others
      [] op[p] = "delete" -> /\ ~row /\ place = Nothing /\ trash[p] = Nothing
                             /\ Stored = {} /\ others \subseteq {"sparse", "visual"}

\* An operation that nothing overlaps either does all it is for or, when it fails
\* before its point of no return and its compensation goes through, leaves the row,
\* the files, the points, their visibility and the stores as it found them: the
\* deletion, both kinds of parsing, chunking, the index build and the upload.
\* (A publication that fails withdraws the document's indexes instead.)
AllOrNothing ==
    [][\A p \in Procs :
        todo[p] # <<>> /\ todo'[p] = <<>> /\ alone[p] /\ intact' /\ ~lost' =>
            /\ outcome'[p] = "ok" => Done(p)'
            /\ outcome'[p] = "failed" /\ op[p] \notin {"publish", "extract"} =>
                  <<row, place, points, hidden, others>>' = before[p]]_vars

\* Once the row is deleted no representation point of the document is visible,
\* whatever call fails afterwards and whenever the process dies, provided nothing
\* else works on the document while it is deleted.
DeletedStaysHidden == ~row /\ ~lost /\ overlapped # "delete" => Visible = {}

\* A row that no operation is creating or deleting has its source file, also when
\* deletions, parses and publications of the document overlap.
RowHasSource ==
    row /\ intact /\ ~lost /\ (\A p \in Busy : op[p] \notin {"upload", "delete"}) =>
        place["source"] # 0

\* At rest the points that searches find are one whole generation, or none,
\* through every failure that is compensated.
OneGeneration ==
    Busy = {} /\ intact /\ ~lost /\ overlapped = "none" =>
        Visible = {} \/ \E v \in Versions : Whole(v)

=============================================================================
