----------------------------- MODULE IndexProofs -----------------------------
(***************************************************************************)
(* Theorems about the two indexes that replace the entries of a document   *)
(* by generations.                                                         *)
(*                                                                         *)
(* SparseIndex, for any documents, versions, writers and readers: a write  *)
(* takes effect in one step and loses nothing of others (DocumentMap), and *)
(* what readers answer was true while they read, however connections are   *)
(* shared, for every read that met no other on its connection.             *)
(*                                                                         *)
(* VisualIndex, for any set of images and every number of replacements,    *)
(* deaths of the writer, failing calls and searches: what is visible is    *)
(* never a generation that may lack points, a search never mixes two       *)
(* states, and the writer implements GenerationIndex.                      *)
(***************************************************************************)
EXTENDS SparseIndex, VisualIndex, TLAPS

-----------------------------------------------------------------------------
(* The sparse index *)

\* The steps of one writer and of one reader.
WriterStep(w) == Lock(w) \/ Read(w) \/ Commit(w) \/ Clean(w) \/ Fail(w)
ReaderStep(r) ==
    \/ (\E o \in Requests : Ask(r, o)) \/ BeginSearch(r) \/ ReadPointer(r) \/ ReadRow(r)
    \/ ReadPostings(r) \/ ReadStats(r) \/ ReadChunks(r) \/ Count(r)
    \/ AuditPointer(r) \/ AuditRow(r) \/ Audit(r) \/ Return(r)

\* What a committed state of the file is: the active generation has its rows.
Sound(base) ==
    /\ base \in [rows : SUBSET Contents, active : Contents \cup {NoGeneration}]
    /\ IF base.active = NoGeneration THEN base.rows = {} ELSE base.active \in base.rows

\* The tables of the processes keep their domains.
ShapeInv ==
    /\ DOMAIN wpc = Writers /\ DOMAIN doing = Writers /\ DOMAIN next = Writers /\ DOMAIN replaced = Writers
    /\ DOMAIN rpc = Readers /\ DOMAIN asked = Readers /\ DOMAIN got = Readers /\ DOMAIN seen = Readers
    /\ DOMAIN txn = Connections /\ faults \in Nat
    /\ \A r \in Readers : DOMAIN got[r] = {"active", "rows", "answer"}
    /\ \A c \in Connections : DOMAIN txn[c] = {"open", "taken", "view"}

\* The writer that is at work holds the lock, so that what it has read is still there when
\* it commits, and what it has committed when it cleans.
WriterInv ==
    \A w \in Writers :
        /\ wpc[w] \in {"idle", "read", "commit", "clean"}
        /\ IF wpc[w] = "idle" THEN doing[w] = Idle ELSE doing[w] \in Operations /\ holder = w
        /\ wpc[w] = "commit" =>
             /\ next[w] = Corpus(doing[w]) /\ next[w] \in Contents
             /\ replaced[w] = (db.active # NoGeneration)
        /\ wpc[w] = "clean" =>
             /\ next[w] \in Contents /\ db.active = next[w] /\ Applied(doing[w], db)
             /\ ~replaced[w] => db.rows = {next[w]}

FileInv == ShapeInv /\ Sound(db) /\ WriterInv
-----------------------------------------------------------------------------
(* What readers rely on *)

Inside == {"row", "postings", "stats", "chunks"}
Auditing == {"pointer2", "row2", "records"}

\* Where an operation may be.
Control(r) ==
    /\ asked[r] \in Requests \cup {Idle}
    /\ rpc[r] = "idle" <=> asked[r] = Idle
    /\ asked[r].kind = "search" => rpc[r] \in {"begin", "pointer", "done"} \cup Inside
    /\ asked[r].kind = "count" => rpc[r] \in {"pointer", "row", "count", "done"}
    /\ asked[r].kind = "audit" => rpc[r] \in {"pointer", "row", "done"} \cup Auditing

\* A search reads in a transaction whose snapshot was committed while the search ran.
SearchInv(r) ==
    asked[r].kind = "search" =>
        /\ rpc[r] = "pointer" => Txn(r).open /\ ~Txn(r).taken
        /\ rpc[r] \in Inside =>
             /\ Txn(r).open /\ Txn(r).taken /\ Sound(Txn(r).view)
             /\ got[r].active = Txn(r).view.active /\ got[r].active # NoGeneration
             /\ got[r].active \in seen[r]
        /\ rpc[r] \in {"stats", "chunks"} => got[r].rows = got[r].active /\ got[r].rows # Nothing
        /\ rpc[r] = "done" =>
             /\ got[r].answer \in {"hits", "empty"}
             /\ got[r].answer = "hits" => got[r].rows \in seen[r]
             /\ got[r].answer = "empty" => Nothing \in seen[r]

\* An audit reads without a transaction; both generations it has read were active.
AuditInv(r) ==
    asked[r].kind = "audit" =>
        /\ rpc[r] \in {"row"} \cup Auditing =>
             got[r].active \in seen[r] /\ db.active # NoGeneration
        /\ rpc[r] \in {"row2", "records"} => got[r].rows \in seen[r]
        /\ rpc[r] = "done" =>
             /\ got[r].answer \in {"ready", "stale", "empty", "corrupt"}
             /\ got[r].answer = "ready" => asked[r].expected \in seen[r]
             /\ got[r].answer = "stale" => \E g \in seen[r] : g # asked[r].expected
             /\ got[r].answer = "empty" => Nothing \in seen[r]

\* Whoever reads has seen what is active.
SeenInv(r) == rpc[r] # "idle" => Active(db) \in seen[r]

\* What holds of a reader that met no other one.
LocalInv(r) == Control(r) /\ SeenInv(r) /\ SearchInv(r) /\ AuditInv(r)

\* An open transaction belongs to a search that is under way on its connection ...
TxnInv ==
    \A c \in Connections : txn[c].open \/ txn[c].taken =>
        \E r \in Readers : /\ Connection[r] = c /\ asked[r].kind = "search"
                           /\ rpc[r] \in {"pointer"} \cup Inside
\* ... which is this one, for a reader that met no other one.
Lone(r) == Busy(r) /\ (Txn(r).open \/ Txn(r).taken) =>
             asked[r].kind = "search" /\ rpc[r] \in {"pointer"} \cup Inside

ReaderInv ==
    /\ \A r \in Readers : Control(r) /\ SeenInv(r) /\ (r \notin crossed => SearchInv(r) /\ AuditInv(r))
    /\ TxnInv
    /\ \A r \in Readers : Meets(r) => r \in crossed
-----------------------------------------------------------------------------
(* The file and its writers *)

\* Operations are records of their kinds, and none is the idle one.
LEMMA OperationFields ==
    ASSUME NEW o \in Operations
    PROVE  /\ o.kind \in {"replace", "delete", "build"} /\ o # Idle
           /\ o.kind = "replace" => o.doc \in Docs /\ o.version \in Versions
           /\ o.kind = "delete" => o.doc \in Docs
           /\ o.kind = "build" => o.corpus \in Contents
  BY DEF Operations, Idle

\* What is active, and what an operation makes of it, is a content.
LEMMA Corpora ==
    ASSUME Sound(db)
    PROVE  /\ Active(db) \in Contents /\ Nothing \in Contents /\ NoGeneration \notin Contents
           /\ \A o \in Operations : Corpus(o) \in Contents
<1>1. Nothing \in Contents /\ NoGeneration \notin Contents
  BY SparseAssumption DEF Nothing, Contents
<1>2. Active(db) \in Contents
  BY <1>1 DEF Active, Sound
<1>3. ASSUME NEW o \in Operations PROVE Corpus(o) \in Contents
  <2>1. CASE o.kind = "replace"
    <3>1. Corpus(o) = [Active(db) EXCEPT ![o.doc] = o.version]
      BY <2>1 DEF Corpus
    <3> QED BY <1>2, <2>1, <3>1, OperationFields DEF Contents
  <2>2. CASE o.kind = "delete"
    <3>1. Corpus(o) = [Active(db) EXCEPT ![o.doc] = Absent]
      BY <2>2 DEF Corpus
    <3> QED BY <1>2, <2>2, <3>1, OperationFields DEF Contents
  <2>3. CASE o.kind = "build"
    BY <2>3, OperationFields DEF Corpus
  <2> QED BY <2>1, <2>2, <2>3, OperationFields
<1> QED BY <1>1, <1>2, <1>3

\* A file in which the corpus of an operation is active has it applied.
LEMMA CorpusIsApplied ==
    ASSUME Sound(db), NEW o \in Operations, NEW base, Active(base) = Corpus(o)
    PROVE  Applied(o, base)
<1>1. Active(db) \in Contents
  BY Corpora
<1>2. CASE o.kind = "replace"
  <2>1. Corpus(o) = [Active(db) EXCEPT ![o.doc] = o.version]
    BY <1>2 DEF Corpus
  <2> QED BY <1>1, <1>2, <2>1, OperationFields DEF Applied, Contents
<1>3. CASE o.kind = "delete"
  <2>1. Corpus(o) = [Active(db) EXCEPT ![o.doc] = Absent]
    BY <1>3 DEF Corpus
  <2> QED BY <1>1, <1>3, <2>1, OperationFields DEF Applied, Contents
<1>4. CASE o.kind = "build"
  BY <1>4 DEF Applied, Corpus
<1> QED BY <1>2, <1>3, <1>4, OperationFields

\* Readers leave the file and its writers alone.
LEMMA ReadersRead ==
    ASSUME NEW r \in Readers, ReaderStep(r)
    PROVE  UNCHANGED <<db, writerVars, writes, faults>>
<1> USE DEF ReaderStep
<1>1. ASSUME NEW o, Ask(r, o) PROVE UNCHANGED <<db, writerVars, writes, faults>>
  BY <1>1 DEF Ask
<1> QED BY <1>1 DEF BeginSearch, ReadPointer, ReadRow, ReadPostings, ReadStats, ReadChunks, Count,
                   AuditPointer, AuditRow, Audit, Return

\* Writers leave the readers alone.
LEMMA WritersWrite ==
    ASSUME NEW w \in Writers, WriterStep(w)
    PROVE  UNCHANGED readerVars
  BY DEF WriterStep, Lock, Read, Commit, Clean, Fail

\* One writer at a time is at work.
LEMMA Alone ==
    ASSUME WriterInv, NEW w \in Writers, wpc[w] # "idle" \/ holder = "none", NEW v \in Writers, v # w
    PROVE  wpc[v] = "idle" /\ doing[v] = Idle
  BY SparseAssumption DEF WriterInv

\* A step of a writer leaves the others where they are.
LEMMA OthersStay ==
    ASSUME ShapeInv, WriterInv, NEW w \in Writers, WriterStep(w), NEW v \in Writers, v # w
    PROVE  wpc'[v] = "idle" /\ doing'[v] = Idle
<1>1. wpc[v] = "idle" /\ doing[v] = Idle
  BY Alone DEF WriterStep, Lock, Read, Commit, Clean, Fail
<1>2. wpc'[v] = wpc[v] /\ doing'[v] = doing[v]
  BY DEF ShapeInv, WriterStep, Lock, Read, Commit, Clean, Fail, Release
<1> QED BY <1>1, <1>2

\* What a step of a writer does: it takes the lock, it gives it back, it reads, or it commits.
LEMMA WriterMoves ==
    ASSUME FileInv, NEW w \in Writers, WriterStep(w)
    PROVE  \/ /\ Lock(w) /\ wpc[w] = "idle" /\ wpc'[w] = "read" /\ db' = db
              /\ doing'[w] \in Operations /\ doing[w] = Idle /\ holder' = w /\ faults' = faults
           \/ /\ wpc[w] # "idle" /\ wpc'[w] = "idle" /\ doing'[w] = Idle
              /\ \/ Fail(w) /\ db' = db
                 \/ Read(w) /\ Unneeded(doing[w]) /\ db' = db /\ wpc[w] = "read" /\ faults' = faults
                 \/ /\ Clean(w) /\ db' = [rows |-> {next[w]}, active |-> next[w]] /\ wpc[w] = "clean"
                    /\ db.active = next[w] /\ faults' = faults
           \/ /\ Read(w) /\ wpc[w] = "read" /\ wpc'[w] = "commit" /\ db' = db /\ doing'[w] = doing[w]
              /\ holder' = holder /\ next'[w] = Corpus(doing[w]) /\ replaced'[w] = (db.active # NoGeneration)
              /\ faults' = faults
           \/ /\ Commit(w) /\ wpc[w] = "commit" /\ wpc'[w] = "clean" /\ UNCHANGED <<doing, holder, next, replaced>>
              /\ db' = [rows |-> db.rows \cup {next[w]}, active |-> next[w]] /\ faults' = faults
<1> USE DEF FileInv, ShapeInv
<1>1. CASE Lock(w)
  <2>1. PICK o \in Operations : doing' = [doing EXCEPT ![w] = o]
    BY <1>1 DEF Lock
  <2>2. wpc[w] = "idle" /\ doing[w] = Idle
    BY <1>1 DEF Lock, WriterInv
  <2>3. doing'[w] = o /\ wpc'[w] = "read"
    BY <1>1, <2>1 DEF Lock
  <2> QED BY <1>1, <2>2, <2>3 DEF Lock
<1>2. CASE Read(w)
  <2>1. wpc[w] = "read" /\ db' = db /\ faults' = faults
    BY <1>2 DEF Read
  <2>2. CASE Unneeded(doing[w])
    <3>1. Release(w)
      BY <1>2, <2>2 DEF Read
    <3>2. wpc'[w] = "idle" /\ doing'[w] = Idle
      BY <3>1 DEF Release
    <3> QED BY <1>2, <2>1, <2>2, <3>2
  <2>3. CASE ~Unneeded(doing[w])
    <3>1. /\ next' = [next EXCEPT ![w] = Corpus(doing[w])]
          /\ replaced' = [replaced EXCEPT ![w] = db.active # NoGeneration]
          /\ wpc' = [wpc EXCEPT ![w] = "commit"]
          /\ UNCHANGED <<holder, doing>>
      BY <1>2, <2>3 DEF Read
    <3> QED BY <1>2, <2>1, <3>1
  <2> QED BY <2>2, <2>3
<1>3. CASE Commit(w)
  BY <1>3 DEF Commit
<1>4. CASE Clean(w)
  <2>1. wpc[w] = "clean" /\ wpc'[w] = "idle" /\ doing'[w] = Idle
    BY <1>4 DEF Clean, Release
  <2>2. db.active = next[w] /\ next[w] \in Contents /\ (~replaced[w] => db.rows = {next[w]})
    BY <2>1 DEF WriterInv
  <2>3. db = [rows |-> db.rows, active |-> db.active] /\ next[w] \in db.rows
    BY <2>2, Corpora DEF Sound
  <2>4. db' = IF replaced[w] THEN [db EXCEPT !.rows = @ \cap {next[w]}] ELSE db
    BY <1>4 DEF Clean
  <2>5. db' = [rows |-> {next[w]}, active |-> next[w]]
    <3>1. CASE replaced[w]
      <4>1. db' = [db EXCEPT !.rows = @ \cap {next[w]}] /\ db.rows \cap {next[w]} = {next[w]}
        BY <2>3, <2>4, <3>1
      <4> QED BY <2>2, <2>3, <4>1
    <3>2. CASE ~replaced[w]
      BY <2>2, <2>3, <2>4, <3>2
    <3> QED BY <3>1, <3>2
  <2> QED BY <1>4, <2>1, <2>2, <2>5 DEF Clean
<1>5. CASE Fail(w)
  <2>1. wpc[w] # "idle" /\ db' = db /\ wpc'[w] = "idle" /\ doing'[w] = Idle
    BY <1>5 DEF Fail, Release
  <2> QED BY <1>5, <2>1
<1> QED BY <1>1, <1>2, <1>3, <1>4, <1>5 DEF WriterStep

\* The file stays sound, and each writer's reading stays true.
LEMMA SoundStep ==
    ASSUME FileInv, NEW w \in Writers, WriterStep(w)
    PROVE  Sound(db)'
<1>1. CASE db' = db
  BY <1>1 DEF FileInv, Sound
<1>2. CASE wpc[w] = "clean" /\ db' = [rows |-> {next[w]}, active |-> next[w]]
  <2>1. next[w] \in Contents
    BY <1>2 DEF FileInv, WriterInv
  <2> QED BY <1>2, <2>1, Corpora DEF FileInv, Sound
<1>3. CASE wpc[w] = "commit" /\ db' = [rows |-> db.rows \cup {next[w]}, active |-> next[w]]
  <2>1. next[w] \in Contents
    BY <1>3 DEF FileInv, WriterInv
  <2> QED BY <1>3, <2>1, Corpora DEF FileInv, Sound
<1> QED BY <1>1, <1>2, <1>3, WriterMoves DEF Clean

\* Each writer keeps what it has read, and applied, as long as it holds the lock.
LEMMA WriterStepInv ==
    ASSUME FileInv, NEW w \in Writers, WriterStep(w)
    PROVE  WriterInv'
<1>1. ASSUME NEW v \in Writers, v # w PROVE wpc'[v] = "idle" /\ doing'[v] = Idle
  BY <1>1, OthersStay DEF FileInv
<1> USE DEF FileInv
<1>2. CASE wpc'[w] = "read" /\ doing'[w] \in Operations /\ holder' = w
  BY <1>1, <1>2 DEF WriterInv
<1>3. CASE wpc'[w] = "idle" /\ doing'[w] = Idle
  BY <1>1, <1>3 DEF WriterInv
<1>4. CASE /\ wpc[w] = "read" /\ wpc'[w] = "commit" /\ db' = db /\ doing'[w] = doing[w]
           /\ holder' = holder /\ next'[w] = Corpus(doing[w]) /\ replaced'[w] = (db.active # NoGeneration)
  <2>1. doing[w] \in Operations /\ holder = w
    BY <1>4 DEF WriterInv
  <2>2. Corpus(doing[w]) \in Contents
    BY <2>1, Corpora
  <2>3. Corpus(doing[w])' = Corpus(doing[w])
    BY <1>4 DEF Corpus, Active
  <2>4. /\ next'[w] = Corpus(doing[w])' /\ next'[w] \in Contents
        /\ replaced'[w] = (db'.active # NoGeneration) /\ doing'[w] \in Operations /\ holder' = w
    BY <1>4, <2>1, <2>2, <2>3
  <2> QED BY <1>1, <1>4, <2>4 DEF WriterInv
<1>5. CASE /\ wpc[w] = "commit" /\ wpc'[w] = "clean" /\ UNCHANGED <<doing, holder, next, replaced>>
           /\ db' = [rows |-> db.rows \cup {next[w]}, active |-> next[w]]
  <2>1. /\ doing[w] \in Operations /\ holder = w /\ next[w] \in Contents /\ next[w] = Corpus(doing[w])
        /\ replaced[w] = (db.active # NoGeneration)
    BY <1>5 DEF WriterInv
  <2>2. Active(db') = Corpus(doing[w]) /\ db'.active = next[w]
    BY <1>5, <2>1, Corpora DEF Active
  <2>3. Applied(doing[w], db')
    BY <2>1, <2>2, CorpusIsApplied
  <2>4. ~replaced[w] => db'.rows = {next[w]}
    BY <1>5, <2>1 DEF Sound
  <2> QED BY <1>1, <1>5, <2>1, <2>2, <2>3, <2>4 DEF WriterInv
<1> QED BY <1>2, <1>3, <1>4, <1>5, WriterMoves
-----------------------------------------------------------------------------
(* The file invariant *)

\* A reader changes its own entries and the transaction of its connection.
LEMMA ReaderTouches ==
    ASSUME ShapeInv, NEW r \in Readers, ReaderStep(r)
    PROVE  /\ DOMAIN rpc' = Readers /\ DOMAIN asked' = Readers /\ DOMAIN got' = Readers /\ DOMAIN txn' = Connections
           /\ \A s \in Readers : s # r => rpc'[s] = rpc[s] /\ asked'[s] = asked[s] /\ got'[s] = got[s]
           /\ \A c \in Connections : c # Connection[r] => txn'[c] = txn[c]
           /\ \A s \in Readers : DOMAIN got'[s] = {"active", "rows", "answer"}
           /\ \A c \in Connections : DOMAIN txn'[c] = {"open", "taken", "view"}
<1> DEFINE Kept == /\ DOMAIN rpc' = Readers /\ DOMAIN asked' = Readers
                   /\ \A s \in Readers : s # r => rpc'[s] = rpc[s] /\ asked'[s] = asked[s]
<1> DEFINE GotKept == /\ DOMAIN got' = Readers
                      /\ \A s \in Readers : (s # r => got'[s] = got[s]) /\ DOMAIN got'[s] = {"active", "rows", "answer"}
<1> DEFINE TxnKept == /\ DOMAIN txn' = Connections
                      /\ \A c \in Connections : /\ c # Connection[r] => txn'[c] = txn[c]
                                                /\ DOMAIN txn'[c] = {"open", "taken", "view"}
<1> USE DEF ShapeInv
<1>1. ASSUME got' = got PROVE GotKept
  BY <1>1
<1>2. ASSUME txn' = txn PROVE TxnKept
  BY <1>2
<1>3. ASSUME NEW a, Answer(r, a) PROVE GotKept
  BY <1>3 DEF Answer
<1>4. ASSUME NEW g, got' = [got EXCEPT ![r].active = g] \/ got' = [got EXCEPT ![r].rows = g]
      PROVE GotKept
  BY <1>4
<1>5. ASSUME Select(r) PROVE TxnKept
  BY <1>5 DEF Select
<1>6. ASSUME NEW a, Finish(r, a) PROVE GotKept /\ TxnKept
  <2>1. GotKept
    BY <1>3, <1>6 DEF Finish
  <2>2. TxnKept
    BY <1>6 DEF Finish, Closed
  <2> QED BY <2>1, <2>2
<1>7. ASSUME NEW l, Goto(r, l), asked' = asked PROVE Kept
  BY <1>7 DEF Goto
<1>8. ASSUME NEW a, Finish(r, a), asked' = asked PROVE Kept
  BY <1>7, <1>8 DEF Finish
<1> HIDE DEF ShapeInv, Kept, GotKept, TxnKept
<1>9. Kept /\ GotKept /\ TxnKept
  <2>1. ASSUME NEW o, Ask(r, o) PROVE Kept /\ GotKept /\ TxnKept
    BY <1>1, <1>2, <2>1 DEF Ask, Goto, Kept, ShapeInv
  <2>2. CASE BeginSearch(r)
    <3>1. Kept
      BY <1>7, <2>2 DEF BeginSearch
    <3>2. GotKept
      BY <1>1, <1>3, <2>2 DEF BeginSearch
    <3>3. TxnKept
      BY <2>2 DEF BeginSearch, TxnKept, ShapeInv, Closed
    <3> QED BY <3>1, <3>2, <3>3
  <2>3. CASE ReadPointer(r)
    BY <1>4, <1>5, <1>6, <1>7, <1>8, <2>3 DEF ReadPointer
  <2>4. CASE ReadRow(r)
    BY <1>1, <1>5, <1>6, <1>7, <1>8, <2>4 DEF ReadRow
  <2>5. CASE ReadPostings(r)
    BY <1>4, <1>5, <1>6, <1>7, <1>8, <2>5 DEF ReadPostings
  <2>6. CASE ReadStats(r)
    BY <1>1, <1>5, <1>6, <1>7, <1>8, <2>6 DEF ReadStats
  <2>7. CASE ReadChunks(r)
    BY <1>6, <1>8, <2>7 DEF ReadChunks
  <2>8. CASE Count(r)
    <3>1. Kept /\ TxnKept
      BY <1>2, <1>7, <2>8 DEF Count
    <3>2. GotKept
      BY <2>8 DEF Count, GotKept, ShapeInv
    <3> QED BY <3>1, <3>2
  <2>9. CASE AuditPointer(r)
    BY <1>2, <1>4, <1>7, <2>9 DEF AuditPointer
  <2>10. CASE AuditRow(r)
    BY <1>1, <1>2, <1>3, <1>7, <2>10 DEF AuditRow
  <2>11. CASE Audit(r)
    BY <1>2, <1>3, <1>7, <2>11 DEF Audit
  <2>12. CASE Return(r)
    <3>1. Kept /\ TxnKept
      BY <1>2, <2>12 DEF Return, Goto, Kept, ShapeInv
    <3>2. GotKept
      BY <2>12 DEF Return, GotKept, ShapeInv
    <3> QED BY <3>1, <3>2
  <2> QED BY <2>1, <2>2, <2>3, <2>4, <2>5, <2>6, <2>7, <2>8, <2>9, <2>10, <2>11, <2>12 DEF ReaderStep
<1> QED BY <1>9 DEF Kept, GotKept, TxnKept

\* Every step is a step of one writer or of one reader.
LEMMA NextIsAStep ==
    ASSUME Next
    PROVE  (\E w \in Writers : WriterStep(w)) \/ (\E r \in Readers : ReaderStep(r))
<1>1. CASE WriterNext
  BY <1>1 DEF WriterNext, WriterStep
<1>2. CASE ReaderNext
  BY <1>2 DEF ReaderNext, ReaderStep
<1> QED BY <1>1, <1>2 DEF Next

\* The empty file, no lock held.
LEMMA InitFile == Init => FileInv
<1> SUFFICES ASSUME Init PROVE FileInv
  OBVIOUS
<1>1. ShapeInv
  BY DEF Init, ShapeInv, Closed
<1>2. Sound(db)
  BY SparseAssumption DEF Init, Sound, Contents
<1>3. WriterInv
  BY DEF Init, WriterInv
<1> QED BY <1>1, <1>2, <1>3 DEF FileInv

\* Steps that change neither the file nor the writers keep the invariant of both.
LEMMA FileStays ==
    ASSUME Sound(db), WriterInv, db' = db, UNCHANGED writerVars
    PROVE  Sound(db)' /\ WriterInv'
<1>1. Sound(db)'
  BY DEF Sound
<1>2. ASSUME NEW o PROVE Corpus(o)' = Corpus(o) /\ Applied(o, db') = Applied(o, db)
  BY DEF Corpus, Active
<1>3. WriterInv'
  BY <1>2 DEF WriterInv, writerVars
<1> QED BY <1>1, <1>3

\* Every step keeps the file invariant.
LEMMA StepFile == FileInv /\ [Next]_vars => FileInv'
<1> SUFFICES ASSUME FileInv, [Next]_vars PROVE FileInv'
  OBVIOUS
<1>1. CASE UNCHANGED vars
  <2>1. Sound(db)' /\ WriterInv'
    BY <1>1, FileStays DEF vars, FileInv
  <2>2. ShapeInv'
    BY <1>1 DEF vars, writerVars, readerVars, ShapeInv, FileInv
  <2> QED BY <2>1, <2>2 DEF FileInv
<1>2. ASSUME Next, NEW w \in Writers, WriterStep(w) PROVE FileInv'
  <2>1. Sound(db)' /\ WriterInv'
    BY <1>2, SoundStep, WriterStepInv
  <2>2. UNCHANGED readerVars /\ DOMAIN seen' = Readers
    BY <1>2, WritersWrite DEF Next
  <2>3. /\ DOMAIN wpc' = Writers /\ DOMAIN doing' = Writers /\ DOMAIN next' = Writers /\ DOMAIN replaced' = Writers
        /\ faults' \in Nat
    BY <1>2 DEF FileInv, ShapeInv, WriterStep, Lock, Read, Commit, Clean, Fail, Release
  <2>4. ShapeInv'
    BY <2>2, <2>3 DEF FileInv, ShapeInv, readerVars
  <2> QED BY <2>1, <2>4 DEF FileInv
<1>3. ASSUME Next, NEW r \in Readers, ReaderStep(r) PROVE FileInv'
  <2>1. UNCHANGED <<db, writerVars, writes, faults>> /\ DOMAIN seen' = Readers
    BY <1>3, ReadersRead DEF Next
  <2>2. Sound(db)' /\ WriterInv'
    BY <2>1, FileStays DEF FileInv
  <2>3. ShapeInv'
    BY <1>3, <2>1, ReaderTouches DEF FileInv, ShapeInv, writerVars
  <2> QED BY <2>2, <2>3 DEF FileInv
<1> QED BY <1>1, <1>2, <1>3, NextIsAStep
-----------------------------------------------------------------------------
(* Theorems about the writers *)

\* The file is sound and each writer's reading of it stays true while it holds the lock.
THEOREM FileInvariance == Spec => []FileInv
<1> QED BY InitFile, StepFile, PTL DEF Spec

\* A replace, delete or build that returns without error has taken effect and has removed
\* what earlier failed cleanups left, whatever fails in between (_commit_generation).
THEOREM WritesTakeEffect == Spec => WriteTakesEffect
<1>1. ASSUME FileInv, NEW w \in Writers, WriterStep(w),
             NEW v \in Writers, wpc[v] # "idle", wpc'[v] = "idle", faults' = faults
      PROVE  Applied(doing[v], db') /\ (wpc[v] = "clean" => db'.rows = {db'.active})
  <2>1. v = w
    BY <1>1, Alone DEF FileInv, WriterStep, Lock, Read, Commit, Clean, Fail
  <2>2. ~Fail(w)
    BY <1>1 DEF Fail, FileInv, ShapeInv
  <2>3. doing[w] \in Operations
    BY <1>1, <2>1 DEF FileInv, WriterInv
  <2>4. CASE Unneeded(doing[w]) /\ db' = db /\ wpc[w] = "read"
    BY <2>1, <2>4 DEF Unneeded, Applied
  <2>5. CASE /\ db' = [rows |-> {next[w]}, active |-> next[w]] /\ wpc[w] = "clean" /\ db.active = next[w]
    <3>1. Applied(doing[w], db) /\ next[w] \in Contents
      BY <1>1, <2>5 DEF FileInv, WriterInv
    <3>2. Active(db') = Active(db) /\ db'.rows = {db'.active}
      BY <2>5 DEF Active
    <3>3. Applied(doing[w], db')
      <4>1. CASE doing[w].kind = "replace"
        BY <3>1, <3>2, <4>1 DEF Applied
      <4>2. CASE doing[w].kind = "delete"
        BY <3>1, <3>2, <4>2 DEF Applied
      <4>3. CASE doing[w].kind = "build"
        BY <3>1, <3>2, <4>3 DEF Applied
      <4> QED BY <2>3, <4>1, <4>2, <4>3, OperationFields
    <3> QED BY <2>1, <3>2, <3>3
  <2> QED BY <1>1, <2>1, <2>2, <2>4, <2>5, WriterMoves
<1>2. ASSUME FileInv, NEW r \in Readers, ReaderStep(r) PROVE wpc' = wpc
  BY <1>2, ReadersRead DEF writerVars
<1>3. FileInv /\ [Next]_vars =>
        [\A w \in Writers : wpc[w] # "idle" /\ wpc'[w] = "idle" /\ faults' = faults
                => /\ Applied(doing[w], db')
                   /\ wpc[w] = "clean" => db'.rows = {db'.active}]_vars
  BY <1>1, <1>2, NextIsAStep
<1> QED BY <1>3, FileInvariance, PTL DEF Spec, WriteTakesEffect

\* A commit is what the operation makes of the map, and no other step changes the map.
LEMMA WriterRefines ==
    ASSUME FileInv, NEW w \in Writers, WriterStep(w)
    PROVE  Map!Begin(w) \/ Map!TakeEffect(w) \/ Map!End(w) \/ UNCHANGED <<Active(db), doing>>
<1> USE DEF FileInv, ShapeInv
<1>0. Map!Idle = Idle /\ Operations \subseteq Map!Operations
  BY DEF Map!Idle, Idle, Map!Operations, Map!Maps, Operations, Contents
<1>1. CASE Lock(w) /\ db' = db /\ doing[w] = Idle
  <2>1. PICK o \in Operations : doing' = [doing EXCEPT ![w] = o]
    BY <1>1 DEF Lock
  <2>2. Active(db)' = Active(db)
    BY <1>1 DEF Active
  <2> QED BY <1>0, <1>1, <2>1, <2>2 DEF Map!Begin
<1>2. CASE db' = db /\ (Fail(w) \/ (Read(w) /\ Unneeded(doing[w])))
  <2>1. Release(w)
    BY <1>2 DEF Fail, Read
  <2>2. Active(db)' = Active(db)
    BY <1>2 DEF Active
  <2> QED BY <1>0, <2>1, <2>2 DEF Map!End, Release
<1>3. CASE Clean(w) /\ db' = [rows |-> {next[w]}, active |-> next[w]] /\ db.active = next[w]
  <2>1. Release(w)
    BY <1>3 DEF Clean
  <2>2. Active(db)' = Active(db)
    BY <1>3 DEF Active
  <2> QED BY <1>0, <2>1, <2>2 DEF Map!End, Release
<1>4. CASE Read(w) /\ db' = db /\ wpc'[w] = "commit"
  <2>1. doing' = doing
    BY <1>4 DEF Read, Release
  <2>2. Active(db)' = Active(db)
    BY <1>4 DEF Active
  <2> QED BY <2>1, <2>2
<1>5. CASE Commit(w) /\ wpc[w] = "commit" /\ doing' = doing
           /\ db' = [rows |-> db.rows \cup {next[w]}, active |-> next[w]]
  <2>1. next[w] = Corpus(doing[w]) /\ next[w] \in Contents /\ doing[w] \in Operations
    BY <1>5 DEF WriterInv
  <2>2. Active(db)' = Corpus(doing[w])
    BY <1>5, <2>1, Corpora DEF Active
  <2>3. Corpus(doing[w]) = Map!Effect(doing[w])
    <3>1. CASE doing[w].kind = "replace"
      BY <3>1 DEF Corpus, Map!Effect
    <3>2. CASE doing[w].kind = "delete"
      BY <3>2 DEF Corpus, Map!Effect
    <3>3. CASE doing[w].kind = "build"
      BY <3>3 DEF Corpus, Map!Effect
    <3> QED BY <2>1, <3>1, <3>2, <3>3, OperationFields
  <2> QED BY <1>5, <2>2, <2>3 DEF Map!TakeEffect
<1> QED BY <1>1, <1>2, <1>3, <1>4, <1>5, WriterMoves

\* Every write takes effect in one step on the documents it names and keeps what other
\* processes have committed of the others: no update is lost (replace_document).
THEOREM Implementation == Spec => ImplementsDocumentMap
<1>1. Init => Map!DInit
  BY DEF Init, Map!DInit, Map!Idle, Idle, Active, Nothing
<1>2. FileInv /\ [Next]_vars => [Map!DNext]_<<Active(db), doing>>
  <2> SUFFICES ASSUME FileInv, [Next]_vars PROVE [Map!DNext]_<<Active(db), doing>>
    OBVIOUS
  <2>1. CASE UNCHANGED vars
    BY <2>1 DEF vars, writerVars, Active
  <2>2. ASSUME NEW w \in Writers, WriterStep(w) PROVE [Map!DNext]_<<Active(db), doing>>
    BY <2>2, WriterRefines DEF Map!DNext
  <2>3. ASSUME NEW r \in Readers, ReaderStep(r) PROVE [Map!DNext]_<<Active(db), doing>>
    BY <2>3, ReadersRead DEF writerVars, Active
  <2> QED BY <2>1, <2>2, <2>3, NextIsAStep
<1> QED BY <1>1, <1>2, FileInvariance, PTL DEF Spec, ImplementsDocumentMap, Map!DSpec
-----------------------------------------------------------------------------
(* Readers *)

\* Requests are records of their kinds, and none is the idle one.
LEMMA RequestFields ==
    ASSUME NEW o \in Requests
    PROVE  o.kind \in {"search", "count", "audit"} /\ o # Idle /\ Idle.kind = "none"
  BY SparseAssumption DEF Requests, Idle

\* A reader that does not move keeps its invariant, whatever becomes active meanwhile.
LEMMA Unmoved ==
    ASSUME NEW r \in Readers, LocalInv(r),
           rpc'[r] = rpc[r], asked'[r] = asked[r], got'[r] = got[r], Busy(r) => Txn(r)' = Txn(r),
           rpc[r] # "idle" => seen'[r] = seen[r] \cup {Active(db')},
           db.active # NoGeneration => db'.active # NoGeneration
    PROVE  LocalInv(r)'
<1>0. ASSUME asked[r].kind \in {"search", "audit"} PROVE seen[r] \subseteq seen'[r]
  BY <1>0 DEF LocalInv, Control, Idle
<1>1. SearchInv(r)'
  <2> SUFFICES ASSUME asked[r].kind = "search" PROVE SearchInv(r)'
    BY DEF SearchInv
  <2>1. SearchInv(r) /\ seen[r] \subseteq seen'[r]
    BY <1>0 DEF LocalInv
  <2>2. Txn(r)' = Txn(r) => Sound(Txn(r).view)' = Sound(Txn(r).view)
    BY DEF Sound
  <2>3. rpc[r] \in {"pointer"} \cup Inside => Txn(r)' = Txn(r)
    BY DEF Busy, Inside
  <2> QED BY <2>1, <2>2, <2>3 DEF SearchInv, Inside
<1>2. AuditInv(r)'
  <2> SUFFICES ASSUME asked[r].kind = "audit" PROVE AuditInv(r)'
    BY DEF AuditInv
  <2>1. AuditInv(r) /\ seen[r] \subseteq seen'[r]
    BY <1>0 DEF LocalInv
  <2> QED BY <2>1 DEF AuditInv
<1>3. SeenInv(r)' /\ Control(r)'
  BY DEF Active, SeenInv, LocalInv, Control
<1> QED BY <1>1, <1>2, <1>3 DEF LocalInv

\* Once a generation is active, one always is.
LEMMA ActiveStays ==
    ASSUME FileInv, NEW w \in Writers, WriterStep(w), db.active # NoGeneration
    PROVE  db'.active # NoGeneration
<1>1. ASSUME wpc[w] = "commit" PROVE next[w] # NoGeneration
  BY <1>1, Corpora DEF FileInv, WriterInv
<1> QED BY <1>1, WriterMoves

\* What the parts of a reader's step do to its entries.
LEMMA GotMoves ==
    ASSUME ShapeInv, NEW r \in Readers
    PROVE  /\ \A a : Answer(r, a) => /\ got'[r].answer = a
                                     /\ got'[r].active = got[r].active /\ got'[r].rows = got[r].rows
           /\ \A g : got' = [got EXCEPT ![r].active = g] => got'[r].active = g
           /\ \A g : got' = [got EXCEPT ![r].rows = g] => got'[r].rows = g /\ got'[r].active = got[r].active
           /\ \A l : Goto(r, l) => rpc'[r] = l
  BY DEF ShapeInv, Answer, Goto

\* What the parts of a reader's step do to its transaction.
LEMMA TxnMoves ==
    ASSUME ShapeInv, NEW r \in Readers
    PROVE  /\ Select(r) => Txn(r)' = IF Txn(r).open /\ ~Txn(r).taken
                                     THEN [open |-> TRUE, taken |-> TRUE, view |-> db] ELSE Txn(r)
           /\ \A a : Finish(r, a) => Txn(r)' = IF asked[r].kind = "search" THEN Closed ELSE Txn(r)
           /\ txn' = [txn EXCEPT ![Connection[r]].open = TRUE] =>
                Txn(r)'.open /\ Txn(r)'.taken = Txn(r).taken
           /\ txn' = txn => Txn(r)' = Txn(r)
<1>1. Connection[r] \in DOMAIN txn
  BY DEF ShapeInv, Connections
<1> QED BY <1>1 DEF ShapeInv, Select, Finish, Txn

\* A finished reader whose answer is right keeps the invariant.
LEMMA Finished ==
    ASSUME ShapeInv, NEW r \in Readers, Control(r), rpc[r] # "idle", asked' = asked, rpc'[r] = "done",
           Active(db)' \in seen'[r],
           asked[r].kind = "search" =>
             \/ got'[r].answer = "hits" /\ got'[r].rows \in seen'[r]
             \/ got'[r].answer = "empty" /\ Nothing \in seen'[r],
           asked[r].kind = "audit" =>
             \/ got'[r].answer = "ready" /\ asked[r].expected \in seen'[r]
             \/ got'[r].answer = "stale" /\ \E g \in seen'[r] : g # asked[r].expected
             \/ got'[r].answer = "empty" /\ Nothing \in seen'[r]
             \/ got'[r].answer = "corrupt"
    PROVE  LocalInv(r)'
<1>1. SearchInv(r)'
  BY DEF SearchInv, Inside
<1>2. AuditInv(r)'
  BY DEF AuditInv, Auditing
<1> QED BY <1>1, <1>2 DEF LocalInv, SeenInv, Control

\* A reader that goes on with its search keeps the invariant: inside of its transaction it
\* has the snapshot in which it found the generation.
LEMMA Searching ==
    ASSUME NEW r \in Readers, LocalInv(r), rpc[r] # "idle", asked[r].kind = "search", asked' = asked,
           Active(db)' \in seen'[r], rpc'[r] \in Inside,
           Txn(r)'.open, Txn(r)'.taken, Sound(Txn(r).view)', got'[r].active = Txn(r)'.view.active,
           got'[r].active # NoGeneration, got'[r].active \in seen'[r],
           rpc'[r] \in {"stats", "chunks"} => got'[r].rows = got'[r].active /\ got'[r].rows # Nothing
    PROVE  LocalInv(r)'
<1>1. SearchInv(r)'
  BY DEF SearchInv, Inside
<1> QED BY <1>1 DEF LocalInv, SeenInv, Control, AuditInv, Inside

\* One that goes on without a transaction keeps it, if it audits with generations it has seen.
LEMMA Unprotected ==
    ASSUME NEW r \in Readers, LocalInv(r), rpc[r] # "idle", asked[r].kind # "search", asked' = asked,
           Active(db)' \in seen'[r],
           asked[r].kind = "count" => rpc'[r] \in {"pointer", "row", "count", "done"},
           asked[r].kind = "audit" =>
             /\ rpc'[r] \in {"row"} \cup Auditing /\ got'[r].active \in seen'[r] /\ db'.active # NoGeneration
             /\ rpc'[r] \in {"row2", "records"} => got'[r].rows \in seen'[r],
           rpc'[r] # "idle"
    PROVE  LocalInv(r)'
<1>1. AuditInv(r)'
  BY DEF AuditInv, Auditing
<1> QED BY <1>1 DEF LocalInv, SeenInv, Control, SearchInv, Auditing

\* A step of a reader keeps its invariant.
LEMMA OwnStep ==
    ASSUME ShapeInv, Sound(db), NEW r \in Readers, LocalInv(r), Lone(r), ReaderStep(r), db' = db,
           seen'[r] = IF rpc'[r] = "idle" THEN {} ELSE seen[r] \cup {Active(db')}
    PROVE  LocalInv(r)'
<1>0. /\ asked[r] \in Requests \cup {Idle} /\ (rpc[r] = "idle" <=> asked[r] = Idle)
      /\ rpc[r] # "idle" => asked[r].kind \in {"search", "count", "audit"}
      /\ Idle.kind = "none"
  BY RequestFields DEF LocalInv, Control, Idle
<1>1. rpc'[r] # "idle" => /\ seen[r] \subseteq seen'[r] /\ Active(db) \in seen'[r] /\ Active(db)' \in seen'[r]
                          /\ Active(db)' = Active(db)
  BY DEF Active
<1>2. asked[r].kind # "search" /\ Busy(r) => View(r) = db /\ ~Txn(r).open /\ ~Txn(r).taken
  BY DEF Lone, View
<1>3. /\ db.active # NoGeneration => db.active \in db.rows /\ Active(db) = db.active
      /\ db.active = NoGeneration => Active(db) = Nothing
  BY DEF Sound, Active
<1>4. ASSUME NEW a, Finish(r, a), asked' = asked, rpc[r] # "idle",
             asked[r].kind = "search" =>
               \/ a = "hits" /\ got[r].rows \in seen'[r]
               \/ a = "empty" /\ Nothing \in seen'[r],
             asked[r].kind = "audit" =>
               \/ a = "ready" /\ asked[r].expected \in seen'[r]
               \/ a = "stale" /\ \E g \in seen'[r] : g # asked[r].expected
               \/ a = "empty" /\ Nothing \in seen'[r]
               \/ a = "corrupt"
      PROVE  LocalInv(r)'
  <2>1. got'[r].answer = a /\ got'[r].rows = got[r].rows /\ rpc'[r] = "done"
    BY <1>4, GotMoves DEF Finish
  <2> QED BY <1>1, <1>4, <2>1, Finished DEF LocalInv
<1>5. ASSUME NEW o \in Requests, Ask(r, o) PROVE LocalInv(r)'
  <2>1. /\ asked'[r] = o /\ rpc'[r] = IF o.kind = "search" THEN "begin" ELSE "pointer"
    BY <1>5, GotMoves DEF Ask, ShapeInv
  <2>2. o.kind \in {"search", "count", "audit"} /\ o # Idle
    BY RequestFields
  <2>3. SearchInv(r)' /\ AuditInv(r)'
    BY <2>1, <2>2 DEF SearchInv, AuditInv, Inside, Auditing
  <2>4. Control(r)'
    BY <2>1, <2>2 DEF Control
  <2> QED BY <1>1, <2>1, <2>2, <2>3, <2>4 DEF LocalInv, SeenInv
<1>6. CASE BeginSearch(r)
  <2>1. rpc[r] = "begin" /\ asked' = asked
    BY <1>6 DEF BeginSearch
  <2>2. asked[r].kind = "search" /\ ~Txn(r).open /\ ~Txn(r).taken
    BY <1>0, <2>1 DEF LocalInv, Control, Auditing, Lone, Busy, Inside
  <2>3. rpc'[r] = "pointer" /\ Txn(r)'.open /\ ~Txn(r)'.taken
    BY <1>6, <2>2, GotMoves, TxnMoves DEF BeginSearch
  <2>4. SearchInv(r)' /\ AuditInv(r)'
    BY <2>1, <2>2, <2>3 DEF SearchInv, AuditInv, Inside
  <2> QED BY <1>0, <1>1, <2>1, <2>2, <2>3, <2>4 DEF LocalInv, SeenInv, Control
<1>7. CASE ReadPointer(r)
  <2>1. rpc[r] = "pointer" /\ asked' = asked
    BY <1>7 DEF ReadPointer
  <2>2. View(r) = db /\ (asked[r].kind = "search" => Txn(r).open /\ ~Txn(r).taken)
    BY <1>2, <2>1 DEF LocalInv, SearchInv, View, Busy
  <2>3. CASE db.active = NoGeneration
    <3>1. Finish(r, "empty") /\ rpc'[r] = "done"
      BY <1>7, <2>2, <2>3 DEF ReadPointer, Finish, Goto, ShapeInv
    <3> QED BY <1>1, <1>3, <1>4, <2>1, <2>3, <3>1
  <2>4. CASE db.active # NoGeneration
    <3>1. got' = [got EXCEPT ![r].active = db.active] /\ Goto(r, "row") /\ Select(r)
      BY <1>7, <2>2, <2>4 DEF ReadPointer
    <3>2. got'[r].active = db.active /\ rpc'[r] = "row"
      BY <3>1, GotMoves
    <3>3. got'[r].active \in seen'[r]
      BY <1>1, <1>3, <2>4, <3>2
    <3>4. CASE asked[r].kind = "search"
      <4>1. Txn(r)' = [open |-> TRUE, taken |-> TRUE, view |-> db]
        BY <2>2, <3>1, <3>4, TxnMoves
      <4>2. Txn(r)'.open /\ Txn(r)'.taken /\ Txn(r)'.view = db
        BY <4>1
      <4>3. Sound(Txn(r).view)'
        BY <4>2 DEF Sound
      <4> QED BY <1>1, <2>1, <2>4, <3>2, <3>3, <3>4, <4>2, <4>3, Searching DEF Inside
    <3>5. CASE asked[r].kind # "search"
      BY <1>1, <2>1, <2>4, <3>2, <3>3, <3>5, Unprotected DEF Auditing
    <3> QED BY <3>4, <3>5
  <2> QED BY <2>3, <2>4
<1>8. ASSUME asked[r].kind = "search", rpc[r] \in Inside
      PROVE  /\ View(r) = Txn(r).view /\ Txn(r).open /\ Txn(r).taken /\ Sound(Txn(r).view)
             /\ got[r].active = Txn(r).view.active /\ got[r].active # NoGeneration
             /\ got[r].active \in Txn(r).view.rows /\ Rows(View(r), got[r].active) = got[r].active
             /\ got[r].active \in seen[r] /\ rpc[r] # "idle"
  <2>1. /\ View(r) = Txn(r).view /\ Txn(r).open /\ Txn(r).taken /\ Sound(Txn(r).view)
        /\ got[r].active = Txn(r).view.active /\ got[r].active # NoGeneration
        /\ got[r].active \in seen[r]
    BY <1>8 DEF LocalInv, SearchInv, View
  <2>2. got[r].active \in Txn(r).view.rows
    BY <2>1 DEF Sound
  <2> QED BY <1>8, <2>1, <2>2 DEF Rows, Inside
<1>9. ASSUME asked[r].kind = "search", rpc[r] \in Inside, asked' = asked, Select(r), rpc'[r] \in Inside,
             got'[r].active = got[r].active,
             rpc'[r] \in {"stats", "chunks"} => got'[r].rows = got'[r].active /\ got'[r].rows # Nothing
      PROVE  LocalInv(r)'
  <2>1. Txn(r)' = Txn(r)
    BY <1>8, <1>9, TxnMoves
  <2>2. Sound(Txn(r).view)'
    BY <1>8, <1>9, <2>1 DEF Sound
  <2>3. got'[r].active \in seen'[r] /\ Active(db)' \in seen'[r]
    BY <1>1, <1>8, <1>9 DEF Inside
  <2> QED BY <1>8, <1>9, <2>1, <2>2, <2>3, Searching
<1>10. CASE ReadRow(r)
  <2>1. rpc[r] = "row" /\ asked' = asked
    BY <1>10 DEF ReadRow
  <2>2. CASE got[r].active \notin View(r).rows
    <3>1. Finish(r, "corrupt") /\ asked[r].kind # "search"
      BY <1>8, <1>10, <2>1, <2>2 DEF ReadRow, Inside
    <3> QED BY <1>4, <2>1, <3>1
  <2>3. CASE got[r].active \in View(r).rows
    <3>1. /\ Select(r) /\ got' = got
          /\ Goto(r, CASE asked[r].kind = "search" -> "postings"
                       [] asked[r].kind = "count"  -> "count"
                       [] asked[r].kind = "audit"  -> "pointer2")
      BY <1>10, <2>3 DEF ReadRow
    <3>2. CASE asked[r].kind = "search"
      <4>1. rpc'[r] = "postings"
        BY <3>1, <3>2, GotMoves
      <4> QED BY <1>9, <2>1, <3>1, <3>2, <4>1 DEF Inside
    <3>3. CASE asked[r].kind = "count"
      <4>1. rpc'[r] = "count"
        BY <3>1, <3>3, GotMoves
      <4> QED BY <1>1, <2>1, <3>1, <3>3, <4>1, Unprotected
    <3>4. CASE asked[r].kind = "audit"
      <4>1. rpc'[r] = "pointer2"
        BY <3>1, <3>4, GotMoves
      <4>2. got'[r].active \in seen'[r] /\ db'.active # NoGeneration
        BY <1>1, <2>1, <3>1, <3>4, <4>1 DEF LocalInv, AuditInv, Auditing
      <4> QED BY <1>1, <2>1, <3>1, <3>4, <4>1, <4>2, Unprotected DEF Auditing
    <3> QED BY <1>0, <2>1, <3>2, <3>3, <3>4
  <2> QED BY <2>2, <2>3
<1>11. rpc[r] \in {"postings", "stats", "chunks"} => asked[r].kind = "search" /\ rpc[r] \in Inside
  BY <1>0 DEF LocalInv, Control, Auditing, Inside
<1>12. CASE ReadPostings(r)
  <2>1. rpc[r] = "postings" /\ asked' = asked
    BY <1>12 DEF ReadPostings
  <2>2. Rows(View(r), got[r].active) = got[r].active
    BY <1>8, <1>11, <2>1
  <2>3. CASE got[r].active = Nothing
    <3>1. Finish(r, "empty") /\ rpc'[r] = "done"
      BY <1>12, <2>2, <2>3 DEF ReadPostings, Finish, Goto, ShapeInv
    <3>2. Nothing \in seen'[r]
      BY <1>1, <1>8, <1>11, <2>1, <2>3, <3>1
    <3> QED BY <1>4, <1>11, <2>1, <3>1, <3>2
  <2>4. CASE got[r].active # Nothing
    <3>1. got' = [got EXCEPT ![r].rows = got[r].active] /\ Goto(r, "stats") /\ Select(r)
      BY <1>12, <2>2, <2>4 DEF ReadPostings
    <3>2. got'[r].rows = got[r].active /\ got'[r].active = got[r].active /\ rpc'[r] = "stats"
      BY <3>1, GotMoves
    <3> QED BY <1>9, <1>11, <2>1, <2>4, <3>1, <3>2 DEF Inside
  <2> QED BY <2>3, <2>4
<1>13. ASSUME rpc[r] \in {"stats", "chunks"} PROVE got[r].rows = got[r].active /\ got[r].active # Nothing
  BY <1>11, <1>13 DEF LocalInv, SearchInv
<1>14. CASE ReadStats(r)
  <2>1. rpc[r] = "stats" /\ asked' = asked
    BY <1>14 DEF ReadStats
  <2>2. Rows(View(r), got[r].active) # Nothing
    BY <1>8, <1>11, <1>13, <2>1
  <2>3. Goto(r, "chunks") /\ Select(r) /\ got' = got
    BY <1>14, <2>2 DEF ReadStats
  <2>4. rpc'[r] = "chunks"
    BY <2>3, GotMoves
  <2> QED BY <1>9, <1>11, <1>13, <2>1, <2>3, <2>4 DEF Inside
<1>15. CASE ReadChunks(r)
  <2>1. rpc[r] = "chunks" /\ asked' = asked
    BY <1>15 DEF ReadChunks
  <2>2. Rows(View(r), got[r].active) # Nothing /\ got[r].rows \in seen[r]
    BY <1>8, <1>11, <1>13, <2>1
  <2>3. Finish(r, "hits") /\ rpc'[r] = "done"
    BY <1>15, <2>2 DEF ReadChunks, Finish, Goto, ShapeInv
  <2> QED BY <1>1, <1>4, <1>11, <2>1, <2>2, <2>3
<1>16. CASE Count(r)
  <2>1. rpc[r] = "count" /\ asked' = asked /\ rpc'[r] = "done" /\ Txn(r)' = Txn(r)
    BY <1>16, GotMoves, TxnMoves DEF Count
  <2>2. asked[r].kind = "count"
    BY <1>0, <2>1 DEF LocalInv, Control, Inside, Auditing
  <2> QED BY <1>1, <2>1, <2>2, Unprotected
<1>17. ASSUME rpc[r] \in Auditing
       PROVE  /\ asked[r].kind = "audit" /\ rpc[r] # "idle" /\ got[r].active \in seen[r]
              /\ db.active # NoGeneration /\ View(r) = db
              /\ rpc[r] \in {"row2", "records"} => got[r].rows \in seen[r]
  <2>1. asked[r].kind = "audit" /\ rpc[r] # "idle" /\ Busy(r)
    BY <1>0, <1>17 DEF LocalInv, Control, Inside, Auditing, Busy
  <2> QED BY <1>2, <1>17, <2>1 DEF LocalInv, AuditInv
<1>18. CASE AuditPointer(r)
  <2>1. /\ rpc[r] = "pointer2" /\ asked' = asked /\ rpc'[r] = "row2" /\ Txn(r)' = Txn(r)
        /\ got' = [got EXCEPT ![r].rows = View(r).active]
    BY <1>18, GotMoves, TxnMoves DEF AuditPointer
  <2>2. got'[r].rows = db.active /\ got'[r].active = got[r].active
    BY <1>17, <2>1, GotMoves DEF Auditing
  <2>3. got'[r].rows \in seen'[r] /\ got'[r].active \in seen'[r]
    BY <1>1, <1>3, <1>17, <2>1, <2>2 DEF Auditing
  <2> QED BY <1>1, <1>17, <2>1, <2>3, Unprotected DEF Auditing
<1>19. ASSUME asked[r].kind = "audit", rpc[r] # "idle", asked' = asked, Txn(r)' = Txn(r), rpc'[r] = "done",
              \/ got'[r].answer = "ready" /\ asked[r].expected \in seen'[r]
              \/ got'[r].answer = "stale" /\ \E g \in seen'[r] : g # asked[r].expected
              \/ got'[r].answer = "corrupt"
       PROVE  LocalInv(r)'
  BY <1>1, <1>2, <1>19, Finished DEF LocalInv
<1>20. CASE AuditRow(r)
  <2>1. rpc[r] = "row2" /\ asked' = asked /\ Txn(r)' = Txn(r)
    BY <1>20, TxnMoves DEF AuditRow
  <2>2. CASE got[r].rows \notin View(r).rows
    <3>1. got'[r].answer = "corrupt" /\ rpc'[r] = "done"
      BY <1>20, <2>2, GotMoves DEF AuditRow
    <3> QED BY <1>17, <1>19, <2>1, <3>1 DEF Auditing
  <2>3. CASE got[r].rows \in View(r).rows
    <3>1. got' = got /\ rpc'[r] = "records"
      BY <1>20, <2>3, GotMoves DEF AuditRow
    <3>2. got'[r].rows \in seen'[r] /\ got'[r].active \in seen'[r]
      BY <1>1, <1>17, <2>1, <3>1 DEF Auditing
    <3> QED BY <1>1, <1>17, <2>1, <3>1, <3>2, Unprotected DEF Auditing
  <2> QED BY <2>2, <2>3
<1>21. CASE Audit(r)
  <2>1. /\ rpc[r] = "records" /\ asked' = asked /\ Txn(r)' = Txn(r) /\ rpc'[r] = "done"
        /\ Answer(r, IF /\ got[r].active = asked[r].expected
                        /\ Rows(View(r), got[r].rows) = asked[r].expected
                     THEN "ready" ELSE "stale")
    BY <1>21, GotMoves, TxnMoves DEF Audit
  <2>2. /\ got[r].active \in seen'[r] /\ got[r].rows \in seen'[r] /\ View(r) = db
        /\ db.active \in seen'[r] /\ db.active \in db.rows
    BY <1>1, <1>3, <1>17, <2>1 DEF Auditing
  <2>3. CASE got[r].active = asked[r].expected /\ Rows(View(r), got[r].rows) = asked[r].expected
    <3>1. got'[r].answer = "ready"
      BY <2>1, <2>3, GotMoves
    <3> QED BY <1>17, <1>19, <2>1, <2>2, <2>3, <3>1 DEF Auditing
  <2>4. CASE ~(got[r].active = asked[r].expected /\ Rows(View(r), got[r].rows) = asked[r].expected)
    <3>1. got'[r].answer = "stale"
      BY <2>1, <2>4, GotMoves
    <3>2. \E g \in seen'[r] : g # asked[r].expected
      <4>1. CASE got[r].rows \in db.rows
        BY <2>2, <2>4, <4>1 DEF Rows
      <4>2. CASE got[r].rows \notin db.rows
        BY <2>2, <4>2
      <4> QED BY <4>1, <4>2
    <3> QED BY <1>17, <1>19, <2>1, <3>1, <3>2 DEF Auditing
  <2> QED BY <2>3, <2>4
<1>22. CASE Return(r)
  <2>1. rpc[r] = "done" /\ rpc'[r] = "idle" /\ asked'[r] = Idle
    BY <1>22, GotMoves DEF Return, ShapeInv
  <2>2. SearchInv(r)' /\ AuditInv(r)'
    BY <1>0, <2>1 DEF SearchInv, AuditInv
  <2> QED BY <1>0, <2>1, <2>2 DEF LocalInv, SeenInv, Control
<1> QED BY <1>5, <1>6, <1>7, <1>10, <1>12, <1>14, <1>15, <1>16, <1>18, <1>20, <1>21, <1>22 DEF ReaderStep

\* An operation goes from one of its positions to the next one, or ends.
LEMMA ControlStep ==
    ASSUME ShapeInv, NEW r \in Readers, Control(r), ReaderStep(r)
    PROVE  Control(r)'
<1>0. rpc[r] # "idle" => asked[r].kind \in {"search", "count", "audit"} /\ asked[r] # Idle
  BY RequestFields DEF Control
<1>1. ASSUME asked' = asked, rpc[r] # "idle", rpc'[r] # "idle",
             asked[r].kind = "search" => rpc'[r] \in {"begin", "pointer", "done"} \cup Inside,
             asked[r].kind = "count" => rpc'[r] \in {"pointer", "row", "count", "done"},
             asked[r].kind = "audit" => rpc'[r] \in {"pointer", "row", "done"} \cup Auditing
      PROVE  Control(r)'
  BY <1>1 DEF Control
<1>2. \A a : Finish(r, a) => rpc'[r] = "done"
  BY GotMoves DEF Finish
<1>3. ASSUME NEW o \in Requests, Ask(r, o) PROVE Control(r)'
  <2>1. asked'[r] = o /\ rpc'[r] = IF o.kind = "search" THEN "begin" ELSE "pointer"
    BY <1>3, GotMoves DEF Ask, ShapeInv
  <2>2. o.kind \in {"search", "count", "audit"} /\ o # Idle
    BY RequestFields
  <2> QED BY <2>1, <2>2 DEF Control
<1>4. CASE BeginSearch(r)
  <2>1. rpc[r] = "begin" /\ asked' = asked /\ rpc'[r] \in {"done", "pointer"}
    BY <1>4, GotMoves DEF BeginSearch
  <2> QED BY <1>1, <2>1
<1>5. CASE ReadPointer(r)
  <2>1. rpc[r] = "pointer" /\ asked' = asked /\ rpc'[r] \in {"done", "row"}
    BY <1>2, <1>5, GotMoves DEF ReadPointer
  <2> QED BY <1>1, <2>1 DEF Inside
<1>6. CASE ReadRow(r)
  <2>1. /\ rpc[r] = "row" /\ asked' = asked
        /\ \/ rpc'[r] = "done"
           \/ rpc'[r] = CASE asked[r].kind = "search" -> "postings"
                          [] asked[r].kind = "count"  -> "count"
                          [] asked[r].kind = "audit"  -> "pointer2"
    BY <1>2, <1>6, GotMoves DEF ReadRow
  <2> QED BY <1>0, <1>1, <2>1 DEF Inside, Auditing
<1>7. CASE ReadPostings(r) \/ ReadStats(r) \/ ReadChunks(r)
  <2>1. /\ rpc[r] \in {"postings", "stats", "chunks"} /\ asked' = asked
        /\ rpc'[r] \in {"stats", "chunks", "done"}
    BY <1>2, <1>7, GotMoves DEF ReadPostings, ReadStats, ReadChunks
  <2> QED BY <1>1, <2>1 DEF Control, Inside, Auditing
<1>8. CASE Count(r)
  <2>1. rpc[r] = "count" /\ asked' = asked /\ rpc'[r] = "done"
    BY <1>8, GotMoves DEF Count
  <2> QED BY <1>1, <2>1
<1>9. CASE AuditPointer(r) \/ AuditRow(r) \/ Audit(r)
  <2>1. /\ rpc[r] \in {"pointer2", "row2", "records"} /\ asked' = asked
        /\ rpc'[r] \in {"row2", "records", "done"}
    BY <1>9, GotMoves DEF AuditPointer, AuditRow, Audit
  <2> QED BY <1>1, <2>1 DEF Control, Inside, Auditing
<1>10. CASE Return(r)
  <2>1. rpc'[r] = "idle" /\ asked'[r] = Idle /\ Idle.kind = "none"
    BY <1>10, GotMoves DEF Return, ShapeInv, Idle
  <2> QED BY <2>1 DEF Control
<1> QED BY <1>3, <1>4, <1>5, <1>6, <1>7, <1>8, <1>9, <1>10 DEF ReaderStep

\* What a step of a reader makes of the transaction of its connection: it closes it, opens
\* it for its search, or keeps it, and does not leave a search that has it open.
LEMMA TxnEffect ==
    ASSUME ShapeInv, NEW r \in Readers, Control(r), ReaderStep(r)
    PROVE  \/ ~Txn(r)'.open /\ ~Txn(r)'.taken
           \/ rpc'[r] = "pointer" /\ asked'[r].kind = "search"
           \/ /\ Txn(r)'.open \/ Txn(r)'.taken => Txn(r).open \/ Txn(r).taken
              /\ asked[r].kind = "search" /\ rpc[r] \in {"pointer"} \cup Inside =>
                   asked'[r] = asked[r] /\ rpc'[r] \in {"pointer"} \cup Inside
<1>1. ~Closed.open /\ ~Closed.taken
  BY DEF Closed
<1>2. \A a : Finish(r, a) => \/ Txn(r)' = Closed
                             \/ asked[r].kind # "search" /\ Txn(r)' = Txn(r)
  BY TxnMoves
<1>3. Select(r) => (Txn(r)'.open \/ Txn(r)'.taken => Txn(r).open \/ Txn(r).taken)
  BY TxnMoves
<1>4. txn' = txn => Txn(r)' = Txn(r)
  BY TxnMoves
<1>5. ASSUME NEW o \in Requests, Ask(r, o)
      PROVE  Txn(r)' = Txn(r) /\ rpc[r] = "idle"
  BY <1>4, <1>5 DEF Ask
<1>6. CASE BeginSearch(r)
  <2>1. rpc[r] = "begin" /\ asked' = asked
    BY <1>6 DEF BeginSearch
  <2>2. asked[r].kind = "search"
    BY <2>1, RequestFields DEF Control, Auditing
  <2>3. CASE Txn(r).open
    <3>1. txn' = [txn EXCEPT ![Connection[r]] = Closed]
      BY <1>6, <2>3 DEF BeginSearch
    <3>2. Txn(r)' = Closed
      BY <3>1 DEF Txn, ShapeInv, Connections
    <3> QED BY <1>1, <3>2
  <2>4. CASE ~Txn(r).open
    <3>1. rpc'[r] = "pointer"
      BY <1>6, <2>4, GotMoves DEF BeginSearch
    <3> QED BY <2>1, <2>2, <3>1
  <2> QED BY <2>3, <2>4
<1>7. CASE ReadPointer(r) \/ ReadRow(r) \/ ReadPostings(r) \/ ReadStats(r) \/ ReadChunks(r)
  <2>1. /\ asked' = asked
        /\ (\E a : Finish(r, a)) \/ (Select(r) /\ \E l : Goto(r, l) /\ (asked[r].kind = "search" => l \in Inside))
    BY <1>7 DEF ReadPointer, ReadRow, ReadPostings, ReadStats, ReadChunks, Inside
  <2>2. CASE \E a : Finish(r, a)
    BY <1>1, <1>2, <2>2
  <2>3. CASE Select(r) /\ \E l : Goto(r, l) /\ (asked[r].kind = "search" => l \in Inside)
    BY <1>3, <2>1, <2>3, GotMoves
  <2> QED BY <2>1, <2>2, <2>3
<1>8. CASE Count(r) \/ AuditPointer(r) \/ AuditRow(r) \/ Audit(r) \/ Return(r)
  <2>1. Txn(r)' = Txn(r) /\ rpc[r] \in {"count", "pointer2", "row2", "records", "done"}
    BY <1>4, <1>8 DEF Count, AuditPointer, AuditRow, Audit, Return
  <2> QED BY <2>1 DEF Inside
<1> QED BY <1>5, <1>6, <1>7, <1>8 DEF ReaderStep, Inside

\* A transaction stays open only for a search that is under way.
LEMMA TxnStep ==
    ASSUME ShapeInv, NEW s \in Readers, Control(s), ReaderStep(s), TxnInv
    PROVE  TxnInv'
<1> SUFFICES ASSUME NEW c \in Connections, txn'[c].open \/ txn'[c].taken
             PROVE  \E r \in Readers : /\ Connection[r] = c /\ asked'[r].kind = "search"
                                       /\ rpc'[r] \in {"pointer"} \cup Inside
  BY DEF TxnInv
<1>1. ASSUME txn[c].open \/ txn[c].taken
      PROVE  \E r \in Readers : /\ Connection[r] = c /\ asked[r].kind = "search"
                                /\ rpc[r] \in {"pointer"} \cup Inside
  BY <1>1 DEF TxnInv
<1>2. \A r \in Readers : r # s => rpc'[r] = rpc[r] /\ asked'[r] = asked[r]
  BY ReaderTouches
<1>3. CASE c # Connection[s]
  <2>1. txn'[c] = txn[c]
    BY <1>3, ReaderTouches
  <2> QED BY <1>1, <1>2, <1>3, <2>1
<1>4. CASE c = Connection[s]
  <2>1. Txn(s)' = txn'[c] /\ Txn(s) = txn[c]
    BY <1>4 DEF Txn
  <2>2. CASE rpc'[s] = "pointer" /\ asked'[s].kind = "search"
    BY <1>4, <2>2
  <2>3. CASE /\ Txn(s)'.open \/ Txn(s)'.taken => Txn(s).open \/ Txn(s).taken
             /\ asked[s].kind = "search" /\ rpc[s] \in {"pointer"} \cup Inside =>
                  asked'[s] = asked[s] /\ rpc'[s] \in {"pointer"} \cup Inside
    <3>1. PICK r \in Readers : /\ Connection[r] = c /\ asked[r].kind = "search"
                               /\ rpc[r] \in {"pointer"} \cup Inside
      BY <1>1, <2>1, <2>3
    <3>2. CASE r = s
      BY <2>3, <3>1, <3>2
    <3>3. CASE r # s
      BY <1>2, <3>1, <3>3
    <3> QED BY <3>2, <3>3
  <2> QED BY <2>1, <2>2, <2>3, TxnEffect
<1> QED BY <1>3, <1>4

\* The search that has a transaction open on the connection of a reader that met no other
\* one is the reader's own.
LEMMA Undisturbed ==
    ASSUME ReaderInv, NEW r \in Readers, r \notin crossed
    PROVE  Lone(r)
<1> SUFFICES ASSUME Busy(r), Txn(r).open \/ Txn(r).taken
             PROVE  asked[r].kind = "search" /\ rpc[r] \in {"pointer"} \cup Inside
  BY DEF Lone
<1>1. PICK s \in Readers : /\ Connection[s] = Connection[r] /\ asked[s].kind = "search"
                           /\ rpc[s] \in {"pointer"} \cup Inside
  BY DEF ReaderInv, TxnInv, Txn, Connections
<1>2. Busy(s)
  BY <1>1 DEF Busy, Inside
<1>3. ~Meets(r)
  BY DEF ReaderInv
<1>4. s = r
  BY <1>1, <1>2, <1>3 DEF Meets
<1> QED BY <1>1, <1>4

\* Every step keeps what holds of a reader that has met no other one and does not meet one:
\* nobody else touches its connection while it is busy.
LEMMA StepLocal ==
    ASSUME FileInv, ReaderInv, Next, NEW r \in Readers, r \notin crossed, r \notin crossed'
    PROVE  LocalInv(r)'
<1>0. LocalInv(r) /\ ShapeInv /\ Sound(db) /\ Lone(r)
  BY Undisturbed DEF ReaderInv, FileInv, LocalInv
<1>1. seen'[r] = IF rpc'[r] = "idle" THEN {} ELSE seen[r] \cup {Active(db')}
  BY DEF Next
<1>2. ASSUME NEW w \in Writers, WriterStep(w) PROVE LocalInv(r)'
  <2>1. UNCHANGED <<rpc, asked, got, txn>>
    BY <1>2, WritersWrite DEF readerVars
  <2>2. db.active # NoGeneration => db'.active # NoGeneration
    BY <1>2, ActiveStays
  <2> QED BY <1>0, <1>1, <2>1, <2>2, Unmoved DEF Txn
<1>3. ASSUME NEW s \in Readers, ReaderStep(s) PROVE LocalInv(r)'
  <2>1. db' = db
    BY <1>3, ReadersRead
  <2>2. CASE s = r
    BY <1>0, <1>1, <1>3, <2>1, <2>2, OwnStep
  <2>3. CASE s # r
    <3>1. rpc'[r] = rpc[r] /\ asked'[r] = asked[r] /\ got'[r] = got[r]
      BY <1>0, <1>3, <2>3, ReaderTouches
    <3>2. ASSUME Busy(r) PROVE Txn(r)' = Txn(r)
      <4>1. CASE Connection[s] # Connection[r]
        <5>1. Connection[r] \in Connections
          BY DEF Connections
        <5>2. txn'[Connection[r]] = txn[Connection[r]]
          BY <1>0, <1>3, <4>1, <5>1, ReaderTouches
        <5> QED BY <5>2 DEF Txn
      <4>2. CASE Connection[s] = Connection[r]
        <5>1. ~Busy(s)
          BY <2>3, <3>2, <4>2 DEF ReaderInv, Meets
        <5>2. ~Meets(r)' /\ Busy(r)' /\ rpc'[r] # "idle"
          BY <3>1, <3>2 DEF Next, Busy
        <5>3. ~Busy(s)'
          BY <2>3, <4>2, <5>2 DEF Meets
        <5>4. Return(s)
          <6>1. ~\E o \in Requests : Ask(s, o)
            BY <1>0, <5>3, GotMoves DEF Ask, Busy
          <6> QED BY <1>3, <5>1, <6>1 DEF ReaderStep, Busy, BeginSearch, ReadPointer, ReadRow,
                  ReadPostings, ReadStats, ReadChunks, Count, AuditPointer, AuditRow, Audit
        <5> QED BY <5>4 DEF Return, Txn
      <4> QED BY <4>1, <4>2
    <3> QED BY <1>0, <1>1, <2>1, <3>1, <3>2, Unmoved
  <2> QED BY <2>2, <2>3
<1> QED BY <1>2, <1>3, NextIsAStep

\* Every step keeps what readers rely on.
LEMMA StepReaders == FileInv /\ ReaderInv /\ [Next]_vars => ReaderInv'
<1> SUFFICES ASSUME FileInv, ReaderInv, [Next]_vars PROVE ReaderInv'
  OBVIOUS
<1>1. CASE UNCHANGED vars
  <2>1. UNCHANGED <<rpc, asked, got, txn, db, seen, crossed>>
    BY <1>1 DEF vars, readerVars
  <2>2. \A r \in Readers : Txn(r)' = Txn(r) /\ (Sound(Txn(r).view)' <=> Sound(Txn(r).view))
    BY <2>1 DEF Txn, Sound
  <2>3. ASSUME NEW r \in Readers
        PROVE  /\ Control(r)' /\ SeenInv(r)' /\ (r \notin crossed' => SearchInv(r)' /\ AuditInv(r)')
               /\ Meets(r)' => r \in crossed'
    BY <2>1, <2>2 DEF ReaderInv, Control, SeenInv, SearchInv, AuditInv, Meets, Busy, Active
  <2>4. TxnInv'
    BY <2>1 DEF ReaderInv, TxnInv
  <2> QED BY <2>3, <2>4 DEF ReaderInv
<1>2. CASE Next
  <2>1. ASSUME NEW r \in Readers PROVE Control(r)'
    <3>1. ASSUME NEW w \in Writers, WriterStep(w) PROVE Control(r)'
      BY <3>1, WritersWrite DEF readerVars, ReaderInv, Control
    <3>2. ASSUME NEW s \in Readers, ReaderStep(s) PROVE Control(r)'
      <4>1. CASE s = r
        BY <3>2, <4>1, ControlStep DEF ReaderInv, FileInv
      <4>2. CASE s # r
        BY <3>2, <4>2, ReaderTouches DEF ReaderInv, FileInv, Control
      <4> QED BY <4>1, <4>2
    <3> QED BY <1>2, <3>1, <3>2, NextIsAStep
  <2>2. ASSUME NEW r \in Readers PROVE SeenInv(r)'
    <3>1. seen'[r] = IF rpc'[r] = "idle" THEN {} ELSE seen[r] \cup {Active(db')}
      BY <1>2 DEF Next
    <3> QED BY <3>1 DEF SeenInv, Active
  <2>3. ASSUME NEW r \in Readers, r \notin crossed' PROVE SearchInv(r)' /\ AuditInv(r)'
    <3>1. rpc'[r] = "idle" \/ r \notin crossed
      BY <1>2, <2>3 DEF Next
    <3>2. CASE rpc'[r] = "idle"
      <4>1. asked'[r] = Idle /\ Idle.kind = "none"
        BY <2>1, <3>2 DEF Control, Idle
      <4> QED BY <4>1 DEF SearchInv, AuditInv
    <3>3. CASE r \notin crossed
      BY <1>2, <2>3, <3>3, StepLocal DEF LocalInv
    <3> QED BY <3>1, <3>2, <3>3
  <2>4. TxnInv'
    <3>1. ASSUME NEW w \in Writers, WriterStep(w) PROVE TxnInv'
      BY <3>1, WritersWrite DEF readerVars, ReaderInv, TxnInv
    <3>2. ASSUME NEW s \in Readers, ReaderStep(s) PROVE TxnInv'
      BY <3>2, TxnStep DEF ReaderInv, FileInv
    <3> QED BY <1>2, <3>1, <3>2, NextIsAStep
  <2>5. ASSUME NEW r \in Readers, Meets(r)' PROVE r \in crossed'
    <3>1. rpc'[r] # "idle"
      BY <2>5 DEF Meets, Busy
    <3> QED BY <1>2, <2>5, <3>1 DEF Next
  <2> QED BY <2>1, <2>2, <2>3, <2>4, <2>5 DEF ReaderInv
<1> QED BY <1>1, <1>2

\* Nobody reads yet.
LEMMA InitReaders == Init => ReaderInv
<1> SUFFICES ASSUME Init PROVE ReaderInv
  OBVIOUS
<1>1. ASSUME NEW r \in Readers
      PROVE  Control(r) /\ SeenInv(r) /\ SearchInv(r) /\ AuditInv(r) /\ ~Meets(r)
  <2>1. asked[r] = Idle /\ rpc[r] = "idle" /\ Idle.kind = "none"
    BY DEF Init, Idle
  <2> QED BY <2>1 DEF Control, SeenInv, SearchInv, AuditInv, Meets, Busy
<1>2. TxnInv
  BY DEF Init, TxnInv, Closed
<1> QED BY <1>1, <1>2 DEF ReaderInv
-----------------------------------------------------------------------------
(* Theorems about the readers *)

\* Readers keep their invariant while writers commit and clean, however they share connections.
THEOREM ReaderInvariance == Spec => [](FileInv /\ ReaderInv)
<1>1. Init => FileInv /\ ReaderInv
  BY InitFile, InitReaders
<1>2. FileInv /\ ReaderInv /\ [Next]_vars => (FileInv /\ ReaderInv)'
  BY StepFile, StepReaders
<1> QED BY <1>1, <1>2, PTL DEF Spec

\* A search that met no other read on its connection answers from one generation that was
\* active while it ran and is never refused, however many generations writers commit and
\* remove meanwhile and whatever refused and interrupted searches came before on the
\* connection (_reader_snapshot).
THEOREM SearchesAreSnapshots == Spec => []SearchIsSnapshot
<1>1. FileInv /\ ReaderInv => SearchIsSnapshot
  <2> SUFFICES ASSUME ReaderInv, NEW r \in Readers, r \notin crossed, Searched(r)
               PROVE  FromSnapshot(r) /\ got[r].answer # "refused"
    BY DEF SearchIsSnapshot
  <2>1. /\ got[r].answer \in {"hits", "empty"}
        /\ got[r].answer = "hits" => got[r].rows \in seen[r]
        /\ got[r].answer = "empty" => Nothing \in seen[r]
    BY DEF ReaderInv, SearchInv, Searched
  <2> QED BY <2>1 DEF FromSnapshot
<1> QED BY <1>1, ReaderInvariance, PTL

\* What an audit that met no search on its connection reports was true at some moment while
\* it ran, although it reads the generation twice and without a snapshot (audit,
\* _active_records).
THEOREM AuditsAreTruthful == Spec => []AuditIsTruthful
<1>1. FileInv /\ ReaderInv => AuditIsTruthful
  <2> SUFFICES ASSUME ReaderInv, NEW r \in Readers, r \notin crossed, rpc[r] = "done", asked[r].kind = "audit"
               PROVE  CASE got[r].answer = "ready" -> asked[r].expected \in seen[r]
                        [] got[r].answer = "stale" -> seen[r] # {asked[r].expected}
                        [] got[r].answer = "empty" -> Nothing \in seen[r]
                        [] OTHER                   -> TRUE
    BY DEF AuditIsTruthful
  <2>1. /\ got[r].answer = "ready" => asked[r].expected \in seen[r]
        /\ got[r].answer = "stale" => \E g \in seen[r] : g # asked[r].expected
        /\ got[r].answer = "empty" => Nothing \in seen[r]
    BY DEF ReaderInv, AuditInv
  <2>2. got[r].answer = "stale" => seen[r] # {asked[r].expected}
    BY <2>1
  <2> QED BY <2>1, <2>2
<1> QED BY <1>1, ReaderInvariance, PTL
-----------------------------------------------------------------------------
(* The visual index *)

\* The steps of a replacement that hold a generation of their own.
Switching == {"upsert", "unstage", "switch", "flag", "clean", "undo", "unpoint", "unflag"}
Recovering == {"scan", "sweep", "repoint", "reflag", "drop", "recovered"}
\* The steps that only a failing call leads to.
Compensating == {"unstage", "undo", "unpoint", "unflag"}

\* Generations are numbered as they are taken; nothing is stored of one that is not taken.
IndexInv ==
    /\ lastGen \in 0..MaxGenerations /\ failures \in 0..MaxFailures
    /\ points \subseteq (1..lastGen) \X Images /\ active \subseteq 1..lastGen
    /\ pointer \in 0..lastGen /\ prev \in 0..lastGen /\ gen \in 0..lastGen
    /\ torn \subseteq 1..lastGen

\* Where the writer stands tells what it was asked.
StageInv ==
    /\ pc \in {"idle", "purge"} \cup Recovering \cup Switching
    /\ op \in {"none", "replace", "clear", "delete"}
    /\ pc = "idle" <=> op = "none"
    /\ pc \in Recovering => op \in {"replace", "clear"}
    /\ pc \in Recovering /\ op = "replace" => lastGen < MaxGenerations
    /\ pc = "purge" => op \in {"clear", "delete"}
    /\ pc \in Switching => op = "replace" /\ gen # None
    /\ pc \in Compensating => failures # 0
    /\ pc \in {"repoint", "reflag", "drop", "unflag"} => prev # None

\* A torn generation is neither visible nor flagged, nor one that the writer will make
\* so: not the one it keeps, nor its own unless it is about to give that up.
TornInv ==
    /\ pointer \notin torn /\ active \cap torn = {} /\ prev \notin torn
    /\ pc \in Switching \ {"unstage"} => gen \notin torn
    /\ pc \in {"upsert", "switch"} => gen # pointer /\ gen # prev /\ gen \notin active

\* What the recovery has established of the generation it keeps.
RecoveryInv ==
    /\ pc \in {"repoint", "reflag", "drop"} => prev \in Present
    /\ pc \in {"reflag", "drop"} => pointer = prev
    /\ pc = "drop" => prev \in active
    /\ pc = "recovered" => \/ points = {} /\ pointer = None
                           \/ points # {} /\ Present = {pointer} /\ pointer \in active

\* Until a call fails, what is visible is whole, nothing that is flagged waits to be
\* found without a pointer, and a recovery keeps what is visible.
WholeInv ==
    /\ pc = "switch" => PointsOf(gen) = NewPoints(gen)
    /\ failures = 0 =>
         /\ pointer # None => Visible = NewPoints(pointer)
         /\ pointer = None => Committed = {}
         /\ pc \in {"repoint", "reflag", "drop"} => prev = pointer
         /\ pc \in {"flag", "clean"} => pointer = gen
         /\ pc = "sweep" => pointer = None

\* A search has seen what is visible, and, whole, the generation whose pointer it has read.
FoundInv ==
    /\ sc \in {"idle", "point", "filter", "done", "widen"}
    /\ hits \subseteq Generations \X Images
    /\ sc = "idle" => cached = Unread
    /\ sc = "done" => result = {x \in hits : x[1] = cached}
    /\ sc # "idle" => Visible \in observed
    /\ failures = 0 /\ cached \in Generations => NewPoints(cached) \in observed

VisualInv == IndexInv /\ StageInv /\ TornInv /\ RecoveryInv /\ WholeInv /\ FoundInv
-----------------------------------------------------------------------------
(* The writer keeps the invariant *)

\* What a step of the writer does to the collection and to what it holds.
VisualMoves ==
    /\ failures' \in {failures, failures + 1} /\ failures' <= MaxFailures
    /\ points' \subseteq points \/ (pc = "upsert" /\ points' \subseteq points \cup NewPoints(gen))
    /\ \/ active' = active
       \/ pc \in {"reflag", "unflag"} /\ active' = active \cup {prev}
       \/ pc = "flag" /\ active' = active \cup {gen}
    /\ \/ pointer' \in {pointer, None}
       \/ pc \in {"repoint", "unpoint"} /\ pointer' = prev
       \/ pc = "switch" /\ pointer' = gen
    /\ torn' = torn \/ (pc = "upsert" /\ torn' = torn \cup {gen} /\ pc' \in {"unstage"})
    /\ prev' \in {prev, None, pointer} \/ (pc = "scan" /\ prev' \in Keep)
    /\ \/ lastGen' = lastGen /\ gen' \in {gen, None}
       \/ pc = "recovered" /\ op # "clear" /\ lastGen' = lastGen + 1 /\ gen' = lastGen'

\* The writer's steps and its death keep it on the moves of its program.
LEMMA VisualWriterMoves ==
    ASSUME IndexInv, StageInv, Write \/ Crash
    PROVE  VisualMoves
<1> USE VisualAssumption DEF VisualMoves, IndexInv, None, Advance, Done, Fault, NoFault, SetPointer,
                             SetActive, Delete, DeleteAll, NoWrite, collection
<1>1. CASE \E o \in {"replace", "clear", "delete"} : Start(o)
  BY <1>1 DEF Start
<1>2. CASE Scan
  BY <1>2 DEF Scan
<1>3. CASE Sweep
  BY <1>3 DEF Sweep
<1>4. CASE Repoint
  BY <1>4 DEF Repoint
<1>5. CASE Reflag
  BY <1>5 DEF Reflag
<1>6. CASE Drop
  BY <1>6 DEF Drop
<1>7. CASE Prepare
  BY <1>7 DEF Prepare
<1>8. CASE Purge
  BY <1>8 DEF Purge
<1>9. CASE Upsert
  BY <1>9 DEF Upsert
<1>10. CASE Unstage
  BY <1>10 DEF Unstage
<1>11. CASE Switch
  BY <1>11 DEF Switch
<1>12. CASE Flag
  BY <1>12 DEF Flag
<1>13. CASE DeleteOthers
  BY <1>13 DEF DeleteOthers
<1>14. CASE Undo
  BY <1>14 DEF Undo
<1>15. CASE Unpoint
  BY <1>15 DEF Unpoint
<1>16. CASE Unflag
  BY <1>16 DEF Unflag
<1>17. CASE Crash
  BY <1>17 DEF Crash
<1> QED BY <1>1, <1>2, <1>3, <1>4, <1>5, <1>6, <1>7, <1>8, <1>9,
           <1>10, <1>11, <1>12, <1>13, <1>14, <1>15, <1>16, <1>17 DEF Write, Recovery, Replacement

\* What a recovery may keep are stored generations, pointed at or flagged.
LEMMA KeepIndex == ASSUME IndexInv PROVE Keep \subseteq 1..lastGen /\ Keep \subseteq Present
<1>1. Present \subseteq 1..lastGen
  BY DEF Present, IndexInv
<1> QED BY <1>1 DEF Keep, Committed

\* The domains of the stores.
LEMMA IndexStep ==
    ASSUME IndexInv, StageInv, Write \/ Crash
    PROVE  IndexInv'
<1> USE VisualAssumption DEF None
<1>1. VisualMoves
  BY VisualWriterMoves
<1>2. /\ lastGen' \in 0..MaxGenerations /\ lastGen <= lastGen' /\ gen' \in 0..lastGen'
      /\ failures' \in 0..MaxFailures
  BY <1>1 DEF VisualMoves, IndexInv, StageInv, Recovering
<1>3. \A x : (x \in 0..lastGen => x \in 0..lastGen') /\ (x \in 1..lastGen => x \in 1..lastGen')
  BY <1>2 DEF IndexInv
<1>4. pc = "upsert" => gen \in 1..lastGen
  BY DEF IndexInv, StageInv, Switching
<1>5. points' \subseteq (1..lastGen') \X Images
  <2>1. points \subseteq (1..lastGen') \X Images
    BY <1>3 DEF IndexInv
  <2>2. pc = "upsert" => NewPoints(gen) \subseteq (1..lastGen') \X Images
    BY <1>3, <1>4 DEF NewPoints
  <2> QED BY <1>1, <2>1, <2>2 DEF VisualMoves
<1>6. active' \subseteq 1..lastGen'
  <2>1. pc \in {"reflag", "unflag"} => prev \in 1..lastGen
    BY DEF IndexInv, StageInv
  <2>2. pc = "flag" => gen \in 1..lastGen
    BY DEF IndexInv, StageInv, Switching
  <2>3. \A x \in active' : x \in active \/ x \in 1..lastGen
    BY <1>1, <2>1, <2>2 DEF VisualMoves
  <2>4. \A x \in active' : x \in 1..lastGen
    BY <2>3 DEF IndexInv
  <2> QED BY <1>3, <2>4
<1>7. pointer' \in 0..lastGen'
  BY <1>1, <1>3 DEF VisualMoves, IndexInv
<1>8. prev' \in 0..lastGen'
  <2>1. prev' \in 0..lastGen
    BY <1>1, KeepIndex DEF VisualMoves, IndexInv
  <2> QED BY <1>3, <2>1
<1>9. torn' \subseteq 1..lastGen'
  <2>1. \A x \in torn' : x \in torn \/ x \in 1..lastGen
    BY <1>1, <1>4 DEF VisualMoves
  <2>2. \A x \in torn' : x \in 1..lastGen
    BY <2>1 DEF IndexInv
  <2> QED BY <1>3, <2>2
<1> QED BY <1>2, <1>5, <1>6, <1>7, <1>8, <1>9 DEF IndexInv

\* The control of the writer.
LEMMA StageStep ==
    ASSUME IndexInv, StageInv, Write \/ Crash
    PROVE  StageInv'
<1> USE VisualAssumption DEF IndexInv, StageInv, Switching, Recovering, Compensating, None, Advance,
                             Done, Fault, NoFault, SetPointer, SetActive, Delete, DeleteAll, NoWrite,
                             collection
<1>1. CASE \E o \in {"replace", "clear", "delete"} : Start(o)
  BY <1>1 DEF Start
<1>2. CASE Scan
  BY <1>2, KeepIndex DEF Scan
<1>3. CASE Sweep
  BY <1>3 DEF Sweep
<1>4. CASE Repoint
  BY <1>4 DEF Repoint
<1>5. CASE Reflag
  BY <1>5 DEF Reflag
<1>6. CASE Drop
  BY <1>6 DEF Drop
<1>7. CASE Prepare
  BY <1>7 DEF Prepare
<1>8. CASE Purge
  BY <1>8 DEF Purge
<1>9. CASE Upsert
  BY <1>9 DEF Upsert
<1>10. CASE Unstage
  BY <1>10 DEF Unstage
<1>11. CASE Switch
  BY <1>11 DEF Switch
<1>12. CASE Flag
  BY <1>12 DEF Flag
<1>13. CASE DeleteOthers
  BY <1>13 DEF DeleteOthers
<1>14. CASE Undo
  BY <1>14 DEF Undo
<1>15. CASE Unpoint
  BY <1>15 DEF Unpoint
<1>16. CASE Unflag
  BY <1>16 DEF Unflag
<1>17. CASE Crash
  BY <1>17 DEF Crash
<1> QED BY <1>1, <1>2, <1>3, <1>4, <1>5, <1>6, <1>7, <1>8, <1>9,
           <1>10, <1>11, <1>12, <1>13, <1>14, <1>15, <1>16, <1>17 DEF Write, Recovery, Replacement

\* A torn generation stays out of sight.
LEMMA TornStep ==
    ASSUME IndexInv, StageInv, TornInv, Write \/ Crash
    PROVE  TornInv'
<1> USE DEF None
<1>1. VisualMoves
  BY VisualWriterMoves
<1>2. None \notin torn /\ lastGen + 1 \notin torn
  BY DEF IndexInv
<1>3. Keep \cap torn = {}
  BY DEF Keep, Committed, TornInv
<1>4. pointer' \notin torn /\ active' \cap torn = {} /\ prev' \notin torn
  BY <1>1, <1>2, <1>3 DEF VisualMoves, TornInv, Switching
<1>5. ASSUME torn' # torn
      PROVE  /\ pc' = "unstage" /\ torn' = torn \cup {gen}
             /\ gen \notin active' /\ gen # pointer' /\ gen # prev'
  <2>1. pc = "upsert" /\ torn' = torn \cup {gen} /\ pc' = "unstage"
    BY <1>1, <1>5 DEF VisualMoves
  <2>2. gen # pointer /\ gen # prev /\ gen \notin active /\ gen # None
    BY <2>1 DEF TornInv, StageInv, Switching
  <2> QED BY <1>1, <2>1, <2>2 DEF VisualMoves
<1>6. pointer' \notin torn' /\ active' \cap torn' = {} /\ prev' \notin torn'
  BY <1>4, <1>5
<1>7. pc' \in Switching \ {"unstage"} => gen' \notin torn'
  <2>1. ASSUME pc' \in Switching \ {"unstage"}
        PROVE  \/ gen' = gen /\ pc \in Switching \ {"unstage"}
               \/ gen' = lastGen + 1
    <3> USE <2>1 DEF Switching, Advance, Done, Fault, NoFault
    <3>1. CASE \E o \in {"replace", "clear", "delete"} : Start(o)
      BY <3>1 DEF Start
    <3>2. CASE Scan
      BY <3>2 DEF Scan
    <3>3. CASE Sweep
      BY <3>3 DEF Sweep
    <3>4. CASE Repoint
      BY <3>4 DEF Repoint
    <3>5. CASE Reflag
      BY <3>5 DEF Reflag
    <3>6. CASE Drop
      BY <3>6 DEF Drop
    <3>7. CASE Prepare
      BY <3>7 DEF Prepare
    <3>8. CASE Purge
      BY <3>8 DEF Purge
    <3>9. CASE Upsert
      BY <3>9 DEF Upsert
    <3>10. CASE Unstage
      BY <3>10 DEF Unstage
    <3>11. CASE Switch
      BY <3>11 DEF Switch
    <3>12. CASE Flag
      BY <3>12 DEF Flag
    <3>13. CASE DeleteOthers
      BY <3>13 DEF DeleteOthers
    <3>14. CASE Undo
      BY <3>14 DEF Undo
    <3>15. CASE Unpoint
      BY <3>15 DEF Unpoint
    <3>16. CASE Unflag
      BY <3>16 DEF Unflag
    <3>17. CASE Crash
      BY <3>17 DEF Crash
    <3> QED BY <3>1, <3>2, <3>3, <3>4, <3>5, <3>6, <3>7, <3>8, <3>9,
               <3>10, <3>11, <3>12, <3>13, <3>14, <3>15, <3>16, <3>17 DEF Write, Recovery, Replacement
  <2> QED BY <1>1, <1>2, <1>5, <2>1 DEF TornInv
<1>8. pc' \in {"upsert", "switch"} => gen' # pointer' /\ gen' # prev' /\ gen' \notin active'
  <2>1. CASE Prepare
    BY <2>1 DEF Prepare, Advance, Done, Fault, NoFault, NoWrite, collection, IndexInv
  <2>2. CASE Upsert
    BY <2>2 DEF Upsert, Advance, TornInv
  <2>3. ASSUME pc' \in {"upsert", "switch"} PROVE Prepare \/ Upsert
    <3> USE <2>3 DEF Advance, Done, Fault, NoFault
    <3>1. CASE \E o \in {"replace", "clear", "delete"} : Start(o)
      BY <3>1 DEF Start
    <3>2. CASE Scan
      BY <3>2 DEF Scan
    <3>3. CASE Sweep
      BY <3>3 DEF Sweep
    <3>4. CASE Repoint
      BY <3>4 DEF Repoint
    <3>5. CASE Reflag
      BY <3>5 DEF Reflag
    <3>6. CASE Drop
      BY <3>6 DEF Drop
    <3>7. CASE Prepare
      BY <3>7 DEF Prepare
    <3>8. CASE Purge
      BY <3>8 DEF Purge
    <3>9. CASE Upsert
      BY <3>9 DEF Upsert
    <3>10. CASE Unstage
      BY <3>10 DEF Unstage
    <3>11. CASE Switch
      BY <3>11 DEF Switch
    <3>12. CASE Flag
      BY <3>12 DEF Flag
    <3>13. CASE DeleteOthers
      BY <3>13 DEF DeleteOthers
    <3>14. CASE Undo
      BY <3>14 DEF Undo
    <3>15. CASE Unpoint
      BY <3>15 DEF Unpoint
    <3>16. CASE Unflag
      BY <3>16 DEF Unflag
    <3>17. CASE Crash
      BY <3>17 DEF Crash
    <3> QED BY <3>1, <3>2, <3>3, <3>4, <3>5, <3>6, <3>7, <3>8, <3>9,
               <3>10, <3>11, <3>12, <3>13, <3>14, <3>15, <3>16, <3>17 DEF Write, Recovery, Replacement
  <2> QED BY <2>1, <2>2, <2>3
<1> QED BY <1>6, <1>7, <1>8 DEF TornInv

\* The generation a recovery keeps has points.
LEMMA RecoveryStep ==
    ASSUME IndexInv, StageInv, RecoveryInv, Write \/ Crash
    PROVE  RecoveryInv'
<1> USE VisualAssumption DEF IndexInv, RecoveryInv, Present, PointsOf, Keep, Committed, None, Advance,
                             Done, Fault, NoFault, SetPointer, SetActive, Delete, DeleteAll, NoWrite,
                             collection
<1>1. CASE \E o \in {"replace", "clear", "delete"} : Start(o)
  BY <1>1 DEF Start
<1>2. CASE Scan
  BY <1>2 DEF Scan
<1>3. CASE Sweep
  BY <1>3 DEF Sweep
<1>4. CASE Repoint
  BY <1>4 DEF Repoint
<1>5. CASE Reflag
  BY <1>5 DEF Reflag
<1>6. CASE Drop
  BY <1>6 DEF Drop
<1>7. CASE Prepare
  BY <1>7 DEF Prepare
<1>8. CASE Purge
  BY <1>8 DEF Purge
<1>9. CASE Upsert
  BY <1>9 DEF Upsert
<1>10. CASE Unstage
  BY <1>10 DEF Unstage
<1>11. CASE Switch
  BY <1>11 DEF Switch
<1>12. CASE Flag
  BY <1>12 DEF Flag
<1>13. CASE DeleteOthers
  BY <1>13 DEF DeleteOthers
<1>14. CASE Undo
  BY <1>14 DEF Undo
<1>15. CASE Unpoint
  BY <1>15 DEF Unpoint
<1>16. CASE Unflag
  BY <1>16 DEF Unflag
<1>17. CASE Crash
  BY <1>17 DEF Crash
<1> QED BY <1>1, <1>2, <1>3, <1>4, <1>5, <1>6, <1>7, <1>8, <1>9,
           <1>10, <1>11, <1>12, <1>13, <1>14, <1>15, <1>16, <1>17 DEF Write, Recovery, Replacement

\* Without a failing call, what is visible stays whole.
LEMMA WholeStep ==
    ASSUME IndexInv, StageInv, TornInv, RecoveryInv, WholeInv, Write \/ Crash
    PROVE  WholeInv'
<1> USE VisualAssumption DEF IndexInv, StageInv, TornInv, RecoveryInv, WholeInv, Switching, Recovering,
                             Compensating, Present, PointsOf, NewPoints, Visible, Keep, Committed, None,
                             Advance, Done, Fault, NoFault, SetPointer, SetActive, Delete, DeleteAll,
                             NoWrite, collection
<1>1. CASE \E o \in {"replace", "clear", "delete"} : Start(o)
  BY <1>1 DEF Start
<1>2. CASE Scan
  <2>1. UNCHANGED <<points, active, pointer>> /\ pc' \in {"idle", "sweep", "repoint"}
    BY <1>2 DEF Scan
  <2>2. UNCHANGED <<Visible, Committed>>
    BY <2>1
  <2>3. failures' = 0 => failures = 0
    BY <1>2 DEF Scan
  <2>4. ASSUME failures = 0, pointer # None PROVE Keep = {pointer}
    <3>1. PICK i : i \in Images
      OBVIOUS
    <3>2. <<pointer, i>> \in points
      BY <2>4, <3>1
    <3>3. pointer \in Present
      BY <3>2
    <3> QED BY <3>3
  <2>5. ASSUME failures' = 0, pc' = "repoint" PROVE prev' = pointer
    <3>1. prev' \in Keep /\ failures = 0
      BY <1>2, <2>3, <2>5 DEF Scan
    <3> QED BY <2>4, <3>1
  <2>6. ASSUME failures' = 0, pc' = "sweep" PROVE pointer = None
    <3>1. Keep = {} /\ failures = 0
      BY <1>2, <2>3, <2>6 DEF Scan
    <3> QED BY <2>4, <3>1
  <2> QED BY <2>1, <2>2, <2>3, <2>5, <2>6
<1>3. CASE Sweep
  BY <1>3 DEF Sweep
<1>4. CASE Repoint
  BY <1>4 DEF Repoint
<1>5. CASE Reflag
  BY <1>5 DEF Reflag
<1>6. CASE Drop
  BY <1>6 DEF Drop
<1>7. CASE Prepare
  BY <1>7 DEF Prepare
<1>8. CASE Purge
  BY <1>8 DEF Purge
<1>9. CASE Upsert
  BY <1>9 DEF Upsert
<1>10. CASE Unstage
  BY <1>10 DEF Unstage
<1>11. CASE Switch
  BY <1>11 DEF Switch
<1>12. CASE Flag
  BY <1>12 DEF Flag
<1>13. CASE DeleteOthers
  BY <1>13 DEF DeleteOthers
<1>14. CASE Undo
  BY <1>14 DEF Undo
<1>15. CASE Unpoint
  BY <1>15 DEF Unpoint
<1>16. CASE Unflag
  BY <1>16 DEF Unflag
<1>17. CASE Crash
  BY <1>17 DEF Crash
<1> QED BY <1>1, <1>2, <1>3, <1>4, <1>5, <1>6, <1>7, <1>8, <1>9,
           <1>10, <1>11, <1>12, <1>13, <1>14, <1>15, <1>16, <1>17 DEF Write, Recovery, Replacement
-----------------------------------------------------------------------------
(* Searches *)

\* Failing calls are counted, and a writer goes on with its operation or ends it.
LEMMA VisualMoving ==
    ASSUME IndexInv, StageInv, Write \/ Crash
    PROVE  /\ failures' \in Nat /\ failures' = 0 => failures = 0
           /\ pc # "idle" => op' = op \/ op' = "none"
<1>1. failures' \in Nat /\ failures' = 0 => failures = 0
  BY VisualWriterMoves DEF VisualMoves, IndexInv
<1>2. ASSUME pc # "idle" PROVE op' = op \/ op' = "none"
  <2> USE <1>2 DEF Advance, Done
  <2>1. CASE \E o \in {"replace", "clear", "delete"} : Start(o)
    BY <2>1 DEF Start
  <2>2. CASE Scan
    BY <2>2 DEF Scan
  <2>3. CASE Sweep
    BY <2>3 DEF Sweep
  <2>4. CASE Repoint
    BY <2>4 DEF Repoint
  <2>5. CASE Reflag
    BY <2>5 DEF Reflag
  <2>6. CASE Drop
    BY <2>6 DEF Drop
  <2>7. CASE Prepare
    BY <2>7 DEF Prepare
  <2>8. CASE Purge
    BY <2>8 DEF Purge
  <2>9. CASE Upsert
    BY <2>9 DEF Upsert
  <2>10. CASE Unstage
    BY <2>10 DEF Unstage
  <2>11. CASE Switch
    BY <2>11 DEF Switch
  <2>12. CASE Flag
    BY <2>12 DEF Flag
  <2>13. CASE DeleteOthers
    BY <2>13 DEF DeleteOthers
  <2>14. CASE Undo
    BY <2>14 DEF Undo
  <2>15. CASE Unpoint
    BY <2>15 DEF Unpoint
  <2>16. CASE Unflag
    BY <2>16 DEF Unflag
  <2>17. CASE Crash
    BY <2>17 DEF Crash
  <2> QED BY <2>1, <2>2, <2>3, <2>4, <2>5, <2>6, <2>7, <2>8, <2>9,
             <2>10, <2>11, <2>12, <2>13, <2>14, <2>15, <2>16, <2>17 DEF Write, Recovery, Replacement
<1> QED BY <1>1, <1>2

\* A search keeps what it has seen, and what it has read was visible.
LEMMA FoundStep ==
    ASSUME IndexInv, StageInv, WholeInv, FoundInv, VisualNext, IndexInv'
    PROVE  FoundInv'
<1>1. observed' = IF sc' = "idle" THEN {} ELSE observed \cup {Visible'}
  BY DEF VisualNext
<1>2. Unread \notin Generations
  BY VisualAssumption DEF Unread, Generations
<1>3. points \subseteq Generations \X Images
  BY VisualAssumption DEF IndexInv, Generations
<1>4. CASE (Write \/ Crash) /\ UNCHANGED search
  <2>1. failures' = 0 => failures = 0
    BY <1>4, VisualMoving
  <2> QED BY <1>1, <1>2, <1>4, <2>1 DEF FoundInv, search
<1>5. CASE Query
  <2>1. hits' \subseteq Generations \X Images
    BY <1>3, <1>5 DEF Query
  <2>2. /\ UNCHANGED <<points, pointer, failures, cached>> /\ sc \in {"idle", "widen"}
        /\ sc' \in {"point", "filter"}
    BY <1>5 DEF Query, collection
  <2> QED BY <1>1, <1>2, <2>1, <2>2 DEF FoundInv
<1>6. CASE CachePointer
  <2>1. /\ UNCHANGED <<points, pointer, failures, hits>>
        /\ sc = "point" /\ sc' = "filter" /\ cached' = pointer
    BY <1>6 DEF CachePointer, collection
  <2>2. failures = 0 /\ pointer \in Generations => Visible = NewPoints(pointer)
    BY DEF WholeInv, Generations, None
  <2>3. Visible' = Visible
    BY <2>1 DEF Visible, PointsOf
  <2>4. NewPoints(cached') \in observed' \/ ~(failures' = 0 /\ cached' \in Generations)
    BY <1>1, <2>1, <2>2, <2>3
  <2> QED BY <1>1, <2>1, <2>4 DEF FoundInv, NewPoints
<1>7. CASE Filter
  <2>1. /\ UNCHANGED <<points, pointer, failures, hits, cached>>
        /\ sc = "filter" /\ sc' \in {"done", "widen"}
    BY <1>7 DEF Filter, collection
  <2>2. result' = {x \in hits : x[1] = cached}
    BY <1>7 DEF Filter
  <2> QED BY <1>1, <2>1, <2>2 DEF FoundInv
<1>8. CASE EndSearch
  BY <1>1, <1>2, <1>8 DEF EndSearch, FoundInv
<1> QED BY <1>4, <1>5, <1>6, <1>7, <1>8 DEF VisualNext, Search

\* The empty index is whole, and no writer is at work.
LEMMA InitVisual == ASSUME VisualInit PROVE VisualInv
<1> USE VisualAssumption DEF VisualInit, None
<1>1. IndexInv /\ StageInv
  BY DEF IndexInv, StageInv, Recovering, Switching, Compensating
<1>2. TornInv /\ RecoveryInv
  BY DEF TornInv, RecoveryInv, Switching
<1>3. WholeInv
  BY DEF WholeInv, Committed
<1>4. FoundInv
  BY DEF FoundInv, Unread, Generations
<1> QED BY <1>1, <1>2, <1>3, <1>4 DEF VisualInv

\* A search reads and leaves the writer and the collection alone.
LEMMA SearchReads ==
    ASSUME Search
    PROVE  UNCHANGED <<collection, writer, failures>>
  BY DEF Search, Query, CachePointer, Filter, EndSearch

\* Every step of the writer, the storage and the searches keeps the invariant.
LEMMA StepVisual ==
    ASSUME VisualInv, [VisualNext]_visualVars
    PROVE  VisualInv'
<1>1. CASE VisualNext
  <2>1. IndexInv' /\ StageInv' /\ TornInv' /\ RecoveryInv' /\ WholeInv'
    <3>1. CASE Write \/ Crash
      BY <3>1, IndexStep, StageStep, TornStep, RecoveryStep, WholeStep DEF VisualInv
    <3>2. CASE Search
      <4> USE <3>2, SearchReads DEF collection, writer, VisualInv
      <4>1. IndexInv' /\ StageInv' /\ TornInv'
        BY DEF IndexInv, StageInv, TornInv
      <4>2. RecoveryInv' /\ WholeInv'
        BY DEF RecoveryInv, WholeInv, Present, PointsOf, Visible, Committed
      <4> QED BY <4>1, <4>2
    <3> QED BY <1>1, <3>1, <3>2 DEF VisualNext
  <2> QED BY <1>1, <2>1, FoundStep DEF VisualInv
<1>2. CASE UNCHANGED visualVars
  <2> USE <1>2 DEF visualVars, collection, writer, search, VisualInv
  <2>1. IndexInv' /\ StageInv' /\ TornInv'
    BY DEF IndexInv, StageInv, TornInv
  <2>2. RecoveryInv' /\ WholeInv'
    BY DEF RecoveryInv, WholeInv, Present, PointsOf, Visible, Committed
  <2>3. FoundInv'
    BY DEF FoundInv, Visible, PointsOf
  <2> QED BY <2>1, <2>2, <2>3
<1> QED BY <1>1, <1>2
-----------------------------------------------------------------------------
(* GenerationIndex *)

\* What is visible is a generation or nothing.
LEMMA WholePointerType == ASSUME IndexInv PROVE WholePointer \in {None} \cup Generations
  BY VisualAssumption DEF WholePointer, IndexInv, Generations, None

\* What is visible as a whole, and the operation, after a step that leaves them alone.
LEMMA VisibleStays ==
    ASSUME pointer' = pointer, PointsOf(pointer)' = PointsOf(pointer)
    PROVE  WholePointer' = WholePointer
  BY DEF WholePointer, Visible, NewPoints

\* A step of the writer before any call has failed: it asks, publishes, removes, finishes, or
\* changes nothing that readers see.
LEMMA VisualQuiet ==
    ASSUME VisualInv, VisualInv', Write \/ Crash, pc # "idle", failures' = 0
    PROVE  \/ Asked' \in {Asked, "none"} /\ WholePointer' = WholePointer
           \/ Asked = "replace" /\ Asked' = Asked /\ WholePointer' \in Generations \ {WholePointer}
           \/ Asked = "remove" /\ Asked' \in {Asked, "none"} /\ WholePointer' = None
<1> USE DEF VisualInv, None
<1>1. failures = 0 /\ Asked' \in {Asked, "none"}
  BY VisualMoving DEF Asked
<1>2. ASSUME Recovery \/ Prepare \/ Flag \/ DeleteOthers \/ Upsert \/ Crash
      PROVE  WholePointer' = WholePointer
  <2> USE DEF Advance, Done, Fault, NoFault, SetPointer, SetActive, Delete, DeleteAll, NoWrite,
              collection, PointsOf, Visible
  <2>1. CASE Scan \/ Prepare \/ Crash \/ Flag
    BY <2>1, VisibleStays DEF Scan, Prepare, Crash, Flag
  <2>2. CASE Sweep
    BY <1>1, <2>2 DEF Sweep, WholeInv, WholePointer
  <2>3. CASE Repoint \/ Reflag
    BY <1>1, <2>3, VisibleStays DEF Repoint, Reflag, WholeInv
  <2>4. CASE Drop
    <3>1. pointer' = pointer /\ prev = pointer
      BY <1>1, <2>4 DEF Drop, WholeInv
    <3>2. PointsOf(pointer)' = PointsOf(pointer)
      BY <2>4, <3>1 DEF Drop
    <3> QED BY <3>1, <3>2, VisibleStays
  <2>5. CASE DeleteOthers
    <3>1. pointer' = pointer /\ gen = pointer
      BY <1>1, <2>5 DEF DeleteOthers, WholeInv
    <3>2. PointsOf(pointer)' = PointsOf(pointer)
      BY <2>5, <3>1 DEF DeleteOthers
    <3> QED BY <3>1, <3>2, VisibleStays
  <2>6. CASE Upsert
    <3>1. pointer' = pointer /\ gen # pointer
      BY <2>6 DEF Upsert, TornInv
    <3>2. \E S \in SUBSET NewPoints(gen) : points' = points \cup S
      BY <2>6 DEF Upsert
    <3>3. PointsOf(pointer)' = PointsOf(pointer)
      BY <3>1, <3>2 DEF NewPoints
    <3> QED BY <3>1, <3>3, VisibleStays
  <2> QED BY <1>2, <2>1, <2>2, <2>3, <2>4, <2>5, <2>6 DEF Recovery
<1>3. CASE Switch
  <2>1. op' = op /\ pc = "switch" /\ op = "replace" /\ gen \in Generations
    BY <1>3, VisualAssumption DEF Switch, StageInv, Switching, IndexInv, Generations
  <2>2. pointer' = gen /\ points' = points
    BY <1>1, <1>3 DEF Switch, SetPointer, Fault, IndexInv
  <2>3. WholePointer' = gen
    BY <2>1, <2>2 DEF WholePointer, WholeInv, Visible, PointsOf, NewPoints, Generations
  <2>4. WholePointer # gen
    BY <2>1 DEF WholePointer, TornInv, Generations
  <2> QED BY <2>1, <2>3, <2>4 DEF Asked
<1>4. CASE Purge
  <2>1. Asked = "remove"
    BY <1>4 DEF Purge, StageInv, Asked
  <2>2. pointer' = None
    BY <1>1, <1>4 DEF Purge, DeleteAll, Fault, IndexInv
  <2> QED BY <1>1, <2>1, <2>2 DEF WholePointer
<1>5. ~Unstage /\ ~Undo /\ ~Unpoint /\ ~Unflag
  BY <1>1 DEF Unstage, Undo, Unpoint, Unflag, StageInv, Compensating
<1>6. ~\E o \in {"replace", "clear", "delete"} : Start(o)
  BY DEF Start
<1> QED BY <1>1, <1>2, <1>3, <1>4, <1>5, <1>6 DEF Write, Replacement

\* Every step is one of GenerationIndex, or readers see nothing of it.
LEMMA VisualSimulation ==
    ASSUME VisualInv, VisualInv', [VisualNext]_visualVars
    PROVE  [Abstract!GNext]_<<WholePointer, Asked, failures > 0>>
<1>1. WholePointer' \in {None} \cup Generations
  BY VisualAssumption DEF VisualInv, None, Generations, WholePointer, IndexInv
<1>2. CASE UNCHANGED visualVars \/ Search
  <2>1. UNCHANGED <<collection, op, failures>>
    BY <1>2, SearchReads DEF visualVars, writer, collection
  <2> QED BY <2>1 DEF collection, WholePointer, Visible, PointsOf, Asked
<1>3. CASE pc = "idle" /\ (Write \/ Crash)
  <2>1. PICK o \in {"replace", "clear", "delete"} : Start(o)
    BY <1>3 DEF Write, Crash, Recovery, Replacement, Scan, Sweep, Repoint, Reflag, Drop, Prepare, Purge,
                Upsert, Unstage, Switch, Flag, DeleteOthers, Undo, Unpoint, Unflag
  <2>2. Asked = "none" /\ Asked' \in {"replace", "remove"} /\ UNCHANGED <<collection, failures>>
    BY <1>3, <2>1 DEF Start, Asked, VisualInv, StageInv, NoFault
  <2>3. WholePointer' = WholePointer
    BY <2>2 DEF collection, WholePointer, Visible, PointsOf
  <2> QED BY <2>2, <2>3 DEF Abstract!GNext, Abstract!Ask
<1>4. CASE pc # "idle" /\ (Write \/ Crash)
  <2>1. Asked # "none" /\ Asked' \in {Asked, "none"}
    BY <1>4, VisualMoving DEF VisualInv, StageInv, Asked
  <2>2. failures' \in Nat /\ failures \in Nat /\ (failures' = 0 => failures = 0)
    BY <1>4, VisualMoving DEF VisualInv, IndexInv
  <2>3. CASE failures' # 0
    <3>1. (failures' > 0) = TRUE
      BY <2>2, <2>3
    <3> QED BY <1>1, <2>1, <3>1 DEF Abstract!GNext, Abstract!Falter, Abstract!Generations,
                                    Abstract!None, Generations, None
  <2>4. CASE failures' = 0
    <3>1. (failures' > 0) = (failures > 0)
      BY <2>2, <2>4
    <3>2. \/ Asked' \in {Asked, "none"} /\ WholePointer' = WholePointer
          \/ Asked = "replace" /\ Asked' = Asked /\ WholePointer' \in Generations \ {WholePointer}
          \/ Asked = "remove" /\ Asked' \in {Asked, "none"} /\ WholePointer' = None
      BY <1>4, <2>4, VisualQuiet
    <3> QED BY <2>1, <3>1, <3>2 DEF Abstract!GNext, Abstract!Publish, Abstract!Remove, Abstract!Finish,
                                    Abstract!Generations, Abstract!None, Generations, None
  <2> QED BY <2>3, <2>4
<1> QED BY <1>2, <1>3, <1>4 DEF VisualNext
-----------------------------------------------------------------------------
(* Theorems *)

\* The invariant of the writer and of the search holds.
THEOREM VisualInvariance == VisualSpec => []VisualInv
<1> QED BY InitVisual, StepVisual, PTL DEF VisualSpec

\* Neither the switch nor the rollback nor a recovery ever makes visible or flags a
\* generation whose upsert failed, whatever calls fail and whenever the process dies, and a
\* recovery ends in one valid state (recover_document, replace_document_vectors).
THEOREM PendingStaysHidden == VisualSpec => []NoPendingVisible
<1>1. VisualInv => NoPendingVisible
  BY DEF VisualInv, TornInv, RecoveryInv, NoPendingVisible
<1> QED BY <1>1, VisualInvariance, PTL

\* Until a call fails, what a search returns is of one state that the index had while it
\* ran, however often the document is replaced meanwhile (search, _filter_active).
THEOREM SearchesConsistent == VisualSpec => []SearchConsistent
<1>1. ASSUME VisualInv, sc = "done", failures = 0 PROVE \E v \in observed : result \subseteq v
  <2>1. /\ result = {x \in hits : x[1] = cached} /\ hits \subseteq Generations \X Images
        /\ Visible \in observed
    BY <1>1 DEF VisualInv, FoundInv
  <2>2. CASE cached \in Generations
    <3>1. NewPoints(cached) \in observed
      BY <1>1, <2>2 DEF VisualInv, FoundInv
    <3>2. result \subseteq NewPoints(cached)
      BY <2>1 DEF NewPoints
    <3> QED BY <3>1, <3>2
  <2>3. CASE cached \notin Generations
    <3>1. result = {}
      BY <2>1, <2>3
    <3> QED BY <2>1, <3>1
  <2> QED BY <2>2, <2>3
<1>2. VisualInv => SearchConsistent
  BY <1>1 DEF SearchConsistent
<1> QED BY <1>2, VisualInvariance, PTL

\* The writer, its deaths and its failing calls implement the abstract index: readers move
\* from a generation to the next in one step (replace_document_vectors).
THEOREM VisualImplementation == VisualSpec => ImplementsGenerationIndex
<1>1. VisualInit => Abstract!GInit
  <2> SUFFICES ASSUME VisualInit PROVE Abstract!GInit
    OBVIOUS
  <2>1. WholePointer = None /\ Asked = "none" /\ (failures > 0) = FALSE
    BY DEF VisualInit, WholePointer, Asked
  <2> QED BY <2>1 DEF Abstract!GInit, Abstract!None, None
<1> QED BY <1>1, VisualInvariance, VisualSimulation, PTL
        DEF VisualSpec, ImplementsGenerationIndex, Abstract!GSpec
=============================================================================
