----------------------- MODULE DocumentLifecycleProofs -----------------------
(***************************************************************************)
(* Theorems about DocumentLifecycle, for any number of processes and every *)
(* value of the bounds: the state is typed, a deleted document is hidden   *)
(* unless something overlapped its deletion, a row keeps its source, an    *)
(* operation that nothing overlaps does all it is for or puts back what it *)
(* found, and operations that follow one another leave one generation of   *)
(* points.                                                                 *)
(***************************************************************************)
EXTENDS DocumentLifecycle, SequenceTheorems, TLAPS

-----------------------------------------------------------------------------
(* The inductive invariant *)

\* s is what is left of the sequence F.
Suffix(s, F) ==
    /\ Len(s) <= Len(F)
    /\ \A i \in 1..Len(s) : s[i] = F[Len(F) - Len(s) + i]

Compensations == {"unbackup", "unpromote", "undo", "unstore", "restore", "repoint", "unwrite",
                  "untext", "unpoint", "remove", "unsparse", "unvisual", "unhide", "show"}
UndoSteps(o) == IF o = "upload" THEN {"unplace"} ELSE Compensations

\* A process goes through its flow, or through compensating steps.
ControlInv ==
    \A p \in Procs : todo[p] # <<>> =>
        /\ op[p] \in Operations
        /\ Forward(p) => Suffix(todo[p], Flow(op[p]))
        /\ ~Forward(p) => todo[p] \in Seq(UndoSteps(op[p]))

\* Only p is at work.
Alone(p) == \A q \in Procs : todo[q] # <<>> => q = p

\* The steps of a deletion are counted from its end: with five left it commits.
Deleting(p) == todo[p] # <<>> /\ op[p] = "delete"
Committed(p) == Deleting(p) /\ Forward(p) /\ Len(todo[p]) <= 4

DeletionInv(p) ==
    Deleting(p) =>
        /\ Alone(p)
        /\ Forward(p) =>
             /\ Len(todo[p]) <= 9 => place["parsing"] = 0
             /\ Len(todo[p]) = 6 => had[p].at = points /\ had[p].hidden \subseteq hidden
             /\ Len(todo[p]) <= 5 => Visible = {}

\* Without a row there is nothing to find and nothing to make something from.
NoRowInv ==
    ~row => /\ Visible = {} /\ place["parsing"] = 0
            /\ \A p \in Procs : todo[p] # <<>> => op[p] = "upload" \/ Committed(p)

HiddenInv == ~lost /\ overlapped # "delete" => NoRowInv /\ \A p \in Procs : DeletionInv(p)

\* An upload that has not reached its insert is alone: there is nothing else to work on.
Early(p) == todo[p] # <<>> /\ op[p] = "upload" /\ (Forward(p) => Len(todo[p]) >= 2)
UploadInv ==
    /\ started = 0 => ~row /\ place["parsing"] = 0 /\ \A p \in Procs : todo[p] = <<>>
    /\ \A p \in Procs : Early(p) =>
         /\ ~row /\ place["parsing"] = 0 /\ Alone(p)
         /\ Forward(p) /\ Len(todo[p]) = 2 => place["source"] # 0

\* One deletion at most holds the source file, until it commits or puts it back.
Holds(p) == todo[p] # <<>> /\ trash[p]["source"] # 0
HolderInv ==
    \A p \in Procs :
        /\ Committed(p) => ~row
        /\ Holds(p) =>
             /\ op[p] = "delete" /\ place["source"] = 0
             /\ \A q \in Procs : Holds(q) => q = p
             /\ ~Forward(p) => \E i \in 1..Len(todo[p]) : todo[p][i] = "undo"

RowInv == row => place["source"] # 0 \/ \E p \in Procs : Holds(p)

SourceInv == intact /\ ~lost => UploadInv /\ HolderInv /\ RowInv
-----------------------------------------------------------------------------
(* Flows and compensations *)

\* Every flow is a sequence of steps, of the length that its definition shows.
LEMMA FlowType ==
    ASSUME NEW o \in Operations
    PROVE  Flow(o) \in Seq(Steps)
<1>1. o \in {"upload", "parse", "reparse", "build", "chunk", "publish", "extract", "delete"}
  BY LifecycleAssumption
<1>2. CASE o = "reparse"
  BY <1>2 DEF Flow, Reparse, Replace, Steps
<1>3. CASE o = "build"
  BY <1>3 DEF Flow, Build, Replace, Steps
<1>4. CASE o = "publish"
  BY <1>4 DEF Flow, Publish, Replace, Steps
<1>5. CASE o = "delete"
  BY <1>5 DEF Flow, Delete, Steps
<1>6. CASE o = "upload"
  BY <1>6 DEF Flow, Upload, Steps
<1>7. CASE o = "parse"
  BY <1>7 DEF Flow, Parse, Steps
<1>8. CASE o = "chunk"
  BY <1>8 DEF Flow, Chunk, Steps
<1>9. CASE o = "extract"
  BY <1>9 DEF Flow, Extract, Steps
<1> QED BY <1>1, <1>2, <1>3, <1>4, <1>5, <1>6, <1>7, <1>8, <1>9

\* What is left of a flow begins with one of its steps and goes on with what follows.
LEMMA SuffixSteps ==
    ASSUME NEW F \in Seq(Steps), NEW s \in Seq(Steps), s # <<>>, Suffix(s, F)
    PROVE  /\ Len(F) - Len(s) + 1 \in 1..Len(F)
           /\ Head(s) = F[Len(F) - Len(s) + 1]
           /\ Suffix(Tail(s), F)
           /\ Len(Tail(s)) = Len(s) - 1
<1>1. Len(s) \in Nat \ {0} /\ Len(F) \in Nat
  BY EmptySeq, LenProperties
<1>2. Head(s) = s[1]
  BY <1>1
<1>3. /\ Len(Tail(s)) = Len(s) - 1
      /\ \A i \in 1..Len(Tail(s)) : Tail(s)[i] = s[i + 1]
  BY HeadTailProperties
<1>4. Suffix(Tail(s), F)
  BY <1>1, <1>3 DEF Suffix
<1> QED BY <1>1, <1>2, <1>3, <1>4 DEF Suffix

\* The compensation of a step consists of compensating steps.
LEMMA CompensationSequences ==
    /\ <<>> \in Seq(Compensations) /\ UndoReplace \in Seq(Compensations)
    /\ <<"unbackup">> \in Seq(Compensations)
    /\ UndoPromote \o <<"undo">> \in Seq(Compensations)
    /\ <<"repoint", "unwrite">> \in Seq(Compensations)
    /\ <<"unbackup", "repoint", "unwrite">> \in Seq(Compensations)
    /\ <<"repoint", "unwrite">> \o UndoPromote \in Seq(Compensations)
    /\ <<"unwrite">> \in Seq(Compensations)
    /\ UndoReplace \o <<"unwrite">> \in Seq(Compensations)
    /\ <<"untext", "remove">> \in Seq(Compensations)
    /\ <<"untext", "unpoint", "remove">> \in Seq(Compensations)
    /\ UndoReplace \o <<"untext", "unpoint", "remove">> \in Seq(Compensations)
    /\ <<"untext", "unpoint", "unsparse", "remove">> \in Seq(Compensations)
    /\ <<"untext", "unpoint", "unsparse", "unvisual", "remove">> \in Seq(Compensations)
    /\ <<"undo">> \in Seq(Compensations)
    /\ <<"unhide", "undo">> \in Seq(Compensations) /\ <<"undo", "show">> \in Seq(Compensations)
  BY DEF Compensations, UndoReplace, UndoPromote

\* What compensates a step of an operation are steps that the operation may undo with.
LEMMA UndoType ==
    ASSUME NEW o \in Operations, NEW i \in 1..Len(Flow(o))
    PROVE  Undo(o, Flow(o)[i]) \in Seq(UndoSteps(o))
<1>1. o \in {"upload", "parse", "reparse", "build", "chunk", "publish", "extract", "delete"}
  BY LifecycleAssumption
<1>2. CASE o = "reparse"
  BY <1>2, CompensationSequences DEF Undo, UndoReparse, UndoSteps
<1>3. CASE o = "build"
  BY <1>3, CompensationSequences DEF Undo, UndoBuild, UndoSteps
<1>4. CASE o = "publish"
  <2>1. Flow(o)[i] \in {"write", "text", "scan", "upsert", "stale", "sparse", "visual"}
    BY <1>4 DEF Flow, Publish, Replace
  <2> QED BY <1>4, <2>1, CompensationSequences DEF Undo, UndoPublish, UndoSteps
<1>5. CASE o = "delete"
  BY <1>5, CompensationSequences DEF Undo, UndoDelete, UndoSteps
<1>6. CASE o = "upload"
  <2>1. <<>> \in Seq({"unplace"}) /\ <<"unplace">> \in Seq({"unplace"})
    OBVIOUS
  <2> QED BY <1>6, <2>1 DEF Undo, UndoUpload, UndoSteps
<1>7. CASE o = "parse" \/ o = "chunk"
  BY <1>7, CompensationSequences DEF Undo, UndoParse, UndoSteps
<1>8. CASE o = "extract"
  BY <1>8, CompensationSequences DEF Undo, UndoSteps
<1> QED BY <1>1, <1>2, <1>3, <1>4, <1>5, <1>6, <1>7, <1>8

LEMMA UndoStepsAreSteps ==
    ASSUME NEW o \in Operations, NEW s \in Seq(UndoSteps(o))
    PROVE  s \in Seq(Steps)
<1>1. UndoSteps(o) \subseteq Steps
  BY DEF UndoSteps, Compensations, Steps
<1> QED BY <1>1, SeqMonotonic

\* What is left of a deletion tells its next step.
LEMMA DeletionSteps ==
    ASSUME NEW s \in Seq(Steps), s # <<>>, Suffix(s, Delete)
    PROVE  /\ Len(s) \in Nat /\ 1 <= Len(s) /\ Len(s) <= 11
           /\ Head(s) = "source" <=> Len(s) = 11
           /\ Head(s) = "parsing" <=> Len(s) = 10
           /\ Head(s) = "chunking" <=> Len(s) = 9
           /\ Head(s) = "evidence" <=> Len(s) = 8
           /\ Head(s) = "snapshot" <=> Len(s) = 7
           /\ Head(s) = "hide" <=> Len(s) = 6
           /\ Head(s) = "commit" <=> Len(s) = 5
           /\ Head(s) \in {"ungraph", "unpoint", "purge", "untext"} <=> Len(s) <= 4
           /\ Head(s) \in Paths \cup {"snapshot", "hide", "commit", "ungraph", "unpoint", "purge",
                                      "untext"}
<1>1. Delete \in Seq(Steps) /\ Len(Delete) = 11
  BY DEF Delete, Steps
<1>2. Len(s) \in Nat /\ Len(s) # 0
  BY EmptySeq, LenProperties
<1>3. 1 <= Len(s) /\ Len(s) <= 11
  BY <1>1, <1>2 DEF Suffix
<1>4. PICK n \in 1..11 : n = 12 - Len(s)
  BY <1>2, <1>3
<1>5. Head(s) = Delete[Len(Delete) - Len(s) + 1]
  BY <1>1, SuffixSteps
<1>6. Head(s) = Delete[n]
  BY <1>1, <1>2, <1>4, <1>5
<1>7. /\ Delete[n] = "source" <=> n = 1
      /\ Delete[n] = "parsing" <=> n = 2
      /\ Delete[n] = "chunking" <=> n = 3
      /\ Delete[n] = "evidence" <=> n = 4
      /\ Delete[n] = "snapshot" <=> n = 5
      /\ Delete[n] = "hide" <=> n = 6
      /\ Delete[n] = "commit" <=> n = 7
      /\ Delete[n] \in {"ungraph", "unpoint", "purge", "untext"} <=> n >= 8
  BY DEF Delete
<1>8. Len(s) = 12 - n
  BY <1>2, <1>4
<1>9. Delete[n] \in Paths \cup {"snapshot", "hide", "commit", "ungraph", "unpoint", "purge", "untext"}
  BY DEF Delete, Paths
<1> QED BY <1>2, <1>3, <1>6, <1>7, <1>8, <1>9

\* What is left of an upload tells its next step.
LEMMA UploadSteps ==
    ASSUME NEW s \in Seq(Steps), s # <<>>, Suffix(s, Upload)
    PROVE  /\ Len(s) \in Nat /\ 1 <= Len(s) /\ Len(s) <= 4
           /\ Head(s) = "lookup" <=> Len(s) = 4
           /\ Head(s) = "store" <=> Len(s) = 3
           /\ Head(s) = "insert" <=> Len(s) = 2
           /\ Head(s) = "refresh" <=> Len(s) = 1
           /\ Head(s) \in {"lookup", "store", "insert", "refresh"}
<1>1. Upload \in Seq(Steps) /\ Len(Upload) = 4
  BY DEF Upload, Steps
<1>2. Len(s) \in Nat /\ Len(s) # 0
  BY EmptySeq, LenProperties
<1>3. 1 <= Len(s) /\ Len(s) <= 4
  BY <1>1, <1>2 DEF Suffix
<1>4. PICK n \in 1..4 : n = 5 - Len(s)
  BY <1>2, <1>3
<1>5. Head(s) = Upload[Len(Upload) - Len(s) + 1]
  BY <1>1, SuffixSteps
<1>6. Head(s) = Upload[n]
  BY <1>1, <1>2, <1>4, <1>5
<1>7. /\ Upload[n] = "lookup" <=> n = 1
      /\ Upload[n] = "store" <=> n = 2
      /\ Upload[n] = "insert" <=> n = 3
      /\ Upload[n] = "refresh" <=> n = 4
  BY DEF Upload
<1>8. Len(s) = 5 - n
  BY <1>2, <1>4
<1>9. Upload[n] \in {"lookup", "store", "insert", "refresh"}
  BY DEF Upload
<1> QED BY <1>2, <1>3, <1>6, <1>7, <1>8, <1>9
-----------------------------------------------------------------------------
(* What a step does to the control of its process *)

\* A step stays, goes on, raises, or drops compensating steps, and counts its fault.
Moves(p) == /\ todo[p] # <<>>
            /\ Stay \/ Succeed(p) \/ Raise(p) \/ \E n \in Nat : Miss(p, n)
            /\ UNCHANGED faults \/ Fault

\* Every action of a step moves the control of its process in one of these ways.
LEMMA StepMoves ==
    ASSUME TypeOK, NEW p \in Procs, Step(p)
    PROVE  Moves(p)
<1> USE DEF Moves, At, Refuse, Fail, Slip
<1>0. Len(todo[p]) \in Nat
  BY LenProperties DEF TypeOK
<1>1. CASE FileStep(p)
  <2>1. CASE StoreSource(p)
    BY <1>0, <2>1 DEF StoreSource, Succeed
  <2>2. CASE Unplace(p)
    BY <1>0, <2>2 DEF Unplace, Succeed
  <2>3. CASE \E r \in Paths : MoveToTrash(p, r)
    BY <1>0, <2>3 DEF MoveToTrash, Succeed
  <2>4. CASE RestoreFromTrash(p)
    BY <1>0, <2>4 DEF RestoreFromTrash, Stay, Succeed, control
  <2>5. CASE RemoveTrash(p)
    BY <1>0, <2>5 DEF RemoveTrash, Succeed
  <2>6. CASE RunParser(p)
    BY <1>0, <2>6 DEF RunParser, Succeed
  <2>7. CASE Backup(p)
    BY <1>0, <2>7 DEF Backup, Succeed
  <2>8. CASE Promote(p)
    BY <1>0, <2>8 DEF Promote, Succeed
  <2>9. CASE Unpromote(p)
    BY <1>0, <2>9 DEF Unpromote, Succeed
  <2>10. CASE Unbackup(p)
    BY <1>0, <2>10 DEF Unbackup, Stay, Succeed, control
  <2>11. CASE WriteEvidence(p)
    BY <1>0, <2>11 DEF WriteEvidence, Succeed
  <2>12. CASE RestoreEvidence(p)
    BY <1>0, <2>12 DEF RestoreEvidence, Succeed
  <2> QED BY <1>1, <2>1, <2>2, <2>3, <2>4, <2>5, <2>6, <2>7, <2>8, <2>9, <2>10, <2>11, <2>12 DEF FileStep
<1>2. CASE IndexStep(p)
  <2>1. CASE Upsert(p)
    BY <1>0, <2>1 DEF Upsert, Stay, Succeed, control
  <2>2. CASE DeleteStale(p)
    BY <1>0, <2>2 DEF DeleteStale, Call, Succeed
  <2>3. CASE Unstore(p)
    BY <1>0, <2>3 DEF Unstore, Succeed
  <2>4. CASE RestorePoints(p)
    BY <1>0, <2>4 DEF RestorePoints, Succeed
  <2>5. CASE Repoint(p)
    BY <1>0, <2>5 DEF Repoint, Succeed
  <2>6. CASE Quarantine(p)
    BY <1>0, <2>6 DEF Quarantine, Stay, Succeed, control
  <2>7. CASE RestoreVisibility(p)
    BY <1>0, <2>7 DEF RestoreVisibility, Stay, Succeed, control
  <2>8. CASE DeletePoints(p)
    BY <1>0, <2>8 DEF DeletePoints, Call, Succeed
  <2> QED BY <1>2, <2>1, <2>2, <2>3, <2>4, <2>5, <2>6, <2>7, <2>8 DEF IndexStep
<1>3. CASE Scan(p)
  BY <1>0, <1>3 DEF Scan, Succeed
<1>4. CASE Check(p)
  BY <1>0, <1>4 DEF Check, Succeed
<1>5. CASE WriteStore(p)
  BY <1>0, <1>5 DEF WriteStore, Succeed
<1>6. CASE ClearStore(p)
  BY <1>0, <1>6 DEF ClearStore, Succeed
<1>7. CASE Lookup(p)
  BY <1>0, <1>7 DEF Lookup, Succeed
<1>8. CASE Insert(p)
  BY <1>0, <1>8 DEF Insert, Succeed
<1>9. CASE Refresh(p)
  BY <1>0, <1>9 DEF Refresh, Succeed
<1>10. CASE DeleteRow(p)
  BY <1>0, <1>10 DEF DeleteRow, Succeed
<1> QED BY <1>1, <1>2, <1>3, <1>4, <1>5, <1>6, <1>7, <1>8, <1>9, <1>10 DEF Step, RowStep

\* A forward process is at a step of its flow.
LEMMA ForwardStep ==
    ASSUME TypeOK, ControlInv, NEW p \in Procs, todo[p] # <<>>, Forward(p)
    PROVE  \E i \in 1..Len(Flow(op[p])) : Head(todo[p]) = Flow(op[p])[i]
  BY FlowType, SuffixSteps DEF TypeOK, ControlInv

\* The control of a process in its new state, from that of the old one.
ControlOf(p) ==
    todo[p] # <<>> =>
        /\ op[p] \in Operations
        /\ Forward(p) => Suffix(todo[p], Flow(op[p]))
        /\ ~Forward(p) => todo[p] \in Seq(UndoSteps(op[p]))

\* Moving keeps the control typed, and leaves the other processes where they are.
LEMMA MovesKeepControl ==
    ASSUME TypeOK, ControlInv, NEW p \in Procs, Moves(p), op' = op
    PROVE  /\ todo' \in [Procs -> Seq(Steps)]
           /\ outcome' \in [Procs -> {"none", "ok", "failed", "partial"}]
           /\ intact' \in BOOLEAN /\ faults' \in 0..MaxFaults
           /\ \A q \in Procs \ {p} : todo'[q] = todo[q] /\ outcome'[q] = outcome[q]
           /\ ControlInv'
<1>1. todo[p] \in Seq(Steps) /\ todo[p] # <<>> /\ op[p] \in Operations
  BY DEF TypeOK, Moves, ControlInv
<1>2. faults' \in 0..MaxFaults
  BY LifecycleAssumption DEF TypeOK, Moves, Fault
<1>3. SUFFICES /\ todo' \in [Procs -> Seq(Steps)]
               /\ outcome' \in [Procs -> {"none", "ok", "failed", "partial"}]
               /\ intact' \in BOOLEAN
               /\ \A q \in Procs \ {p} : todo'[q] = todo[q] /\ outcome'[q] = outcome[q]
               /\ ControlOf(p)'
  BY <1>2 DEF ControlInv, ControlOf, Forward
<1>4. CASE Stay
  BY <1>4 DEF Stay, control, TypeOK, ControlInv, ControlOf, Forward
<1>5. CASE Succeed(p)
  <2>1. /\ todo' = [todo EXCEPT ![p] = Tail(todo[p])]
        /\ outcome' = outcome /\ intact' = intact /\ Tail(todo[p]) \in Seq(Steps)
    BY <1>1, <1>5, HeadTailProperties DEF Succeed
  <2>2. Forward(p) => Suffix(Tail(todo[p]), Flow(op[p]))
    BY <1>1, FlowType, SuffixSteps DEF ControlInv
  <2>3. ~Forward(p) => Tail(todo[p]) \in Seq(UndoSteps(op[p]))
    BY <1>1, HeadTailProperties DEF ControlInv
  <2> QED BY <1>1, <2>1, <2>2, <2>3 DEF TypeOK, ControlOf, Forward
<1>6. CASE Raise(p)
  <2>1. PICK i \in 1..Len(Flow(op[p])) : Head(todo[p]) = Flow(op[p])[i]
    BY <1>1, <1>6, ForwardStep DEF Raise
  <2> DEFINE u == Undo(op[p], Head(todo[p]))
  <2>2. u \in Seq(UndoSteps(op[p])) /\ u \in Seq(Steps)
    BY <1>1, <2>1, UndoType, UndoStepsAreSteps
  <2>3. /\ todo' = [todo EXCEPT ![p] = u] /\ intact' = intact
        /\ outcome' = [outcome EXCEPT ![p] =
                         IF Head(todo[p]) \in Settled THEN "partial" ELSE "failed"]
    BY <1>6 DEF Raise
  <2> HIDE DEF u
  <2> QED BY <1>1, <2>2, <2>3 DEF TypeOK, ControlOf, Forward
<1>7. CASE \E n \in Nat : Miss(p, n)
  <2>1. PICK n \in Nat : Miss(p, n)
    BY <1>7
  <2> DEFINE r == SubSeq(todo[p], n + 1, Len(todo[p]))
  <2>2. /\ todo' = [todo EXCEPT ![p] = r] /\ intact' = FALSE /\ outcome' = outcome
    BY <2>1 DEF Miss
  <2>3. r \in Seq(Steps)
    BY <1>1
  <2>4. ~Forward(p) => r \in Seq(UndoSteps(op[p]))
    BY <1>1 DEF ControlInv
  <2>5. ASSUME Forward(p) PROVE r = <<>> \/ Suffix(r, Flow(op[p]))
    <3>1. Suffix(todo[p], Flow(op[p])) /\ Len(todo[p]) \in Nat /\ Len(Flow(op[p])) \in Nat
      BY <1>1, <2>5, FlowType, LenProperties DEF ControlInv
    <3>2. CASE n < Len(todo[p])
      <4>1. \A i \in (n + 1)..Len(todo[p]) : todo[p][i] \in Steps
        BY <1>1, <3>1
      <4>2. /\ Len(r) = Len(todo[p]) - n
            /\ \A i \in 1..(Len(todo[p]) - n) : r[i] = todo[p][n + i]
        BY <3>1, <3>2, <4>1, SubSeqProperties
      <4> HIDE DEF r
      <4>3. ASSUME NEW i \in 1..Len(r)
            PROVE  r[i] = Flow(op[p])[Len(Flow(op[p])) - Len(r) + i]
        <5>1. i \in 1..(Len(todo[p]) - n) /\ n + i \in 1..Len(todo[p])
          BY <3>1, <3>2, <4>2
        <5>2. todo[p][n + i] = Flow(op[p])[Len(Flow(op[p])) - Len(todo[p]) + (n + i)]
          BY <3>1, <5>1 DEF Suffix
        <5>3. Len(Flow(op[p])) - Len(todo[p]) + (n + i) = Len(Flow(op[p])) - Len(r) + i
          BY <3>1, <3>2, <4>2
        <5> QED BY <4>2, <5>1, <5>2, <5>3
      <4>4. Len(r) <= Len(Flow(op[p]))
        <5>1. Len(todo[p]) <= Len(Flow(op[p]))
          BY <3>1 DEF Suffix
        <5> QED BY <3>1, <4>2, <5>1
      <4> QED BY <4>3, <4>4 DEF Suffix
    <3>3. CASE n >= Len(todo[p])
      BY <3>1, <3>3, SubSeqEmpty
    <3> QED BY <3>1, <3>2, <3>3
  <2> HIDE DEF r
  <2> QED BY <1>1, <2>2, <2>3, <2>4, <2>5 DEF TypeOK, ControlOf, Forward
<1> QED BY <1>4, <1>5, <1>6, <1>7 DEF Moves
-----------------------------------------------------------------------------
(* What a step does to the stores, as far as their types go *)

FilesTyped ==
    /\ place \in [Paths -> Content] /\ made \in [Procs -> Content]
    /\ trash \in [Procs -> [Paths -> Content]] /\ backup \in [Procs -> Content]
    /\ lastVersion \in Content
IndexTyped == points \in [PointIds -> Content] /\ hidden \subseteq Stored
MemoryTyped ==
    /\ had \in [Procs -> [at : [PointIds -> Content], hidden : SUBSET PointIds]]
    /\ kept \in [Procs -> [evidence : Content, at : [PointIds -> Content]]]
StoresTyped ==
    /\ row \in BOOLEAN /\ rival \in BOOLEAN /\ lost \in BOOLEAN
    /\ others \subseteq {"text", "sparse", "visual", "graph"}

\* Each kind of step keeps the types of what it changes: files, points, memory, rows.
LEMMA FileTypes ==
    ASSUME FilesTyped, MemoryTyped, NEW p \in Procs, FileStep(p), memory' = memory
    PROVE  FilesTyped'
<1> USE DEF FilesTyped
<1>1. 0 \in Content /\ 1 \in Content /\ Content \subseteq Nat
  BY LifecycleAssumption DEF Content
<1>2. Target(p) \in {"chunking", "parsing"} /\ "source" \in Paths /\ "evidence" \in Paths
      /\ "chunking" \in Paths /\ "parsing" \in Paths
  BY DEF Target, Paths
<1>3. Nothing \in [Paths -> Content]
  BY <1>1 DEF Nothing
<1>4. CASE StoreSource(p)
  BY <1>1, <1>2, <1>3, <1>4 DEF StoreSource, Put, NoFile
<1>5. CASE Unplace(p)
  BY <1>1, <1>2, <1>3, <1>5 DEF Unplace, Put, NoFile
<1>6. CASE \E r \in Paths : MoveToTrash(p, r)
  <2>1. PICK r \in Paths : MoveToTrash(p, r)
    BY <1>6
  <2>2. CASE Move(p, r)
    <3>1. [trash[p] EXCEPT ![r] = place[r]] \in [Paths -> Content]
      OBVIOUS
    <3>2. trash' = [trash EXCEPT ![p] = [trash[p] EXCEPT ![r] = place[r]]]
      BY <2>2 DEF Move
    <3>3. trash' \in [Procs -> [Paths -> Content]]
      BY <3>1, <3>2
    <3>4. place' \in [Paths -> Content]
      BY <1>1, <2>2 DEF Move
    <3> QED BY <2>1, <2>2, <3>3, <3>4 DEF Move, MoveToTrash
  <2>3. CASE NoFile
    BY <2>1, <2>3 DEF NoFile, MoveToTrash
  <2> QED BY <2>1, <2>2, <2>3 DEF MoveToTrash
<1>7. CASE RestoreFromTrash(p)
  <2>1. Latest(p) \in Paths
    BY DEF Latest, Paths
  <2> DEFINE r == Latest(p)
  <2>2. /\ place' \in {place, [place EXCEPT ![r] = trash[p][r]]}
        /\ trash' \in {trash, [trash EXCEPT ![p] = [trash[p] EXCEPT ![r] = 0]]}
        /\ backup' = backup /\ made' = made /\ lastVersion' = lastVersion
    BY <1>7 DEF RestoreFromTrash, Forget, NoFile
  <2>3. [trash[p] EXCEPT ![r] = 0] \in [Paths -> Content] /\ trash[p][r] \in Content
    BY <1>1, <2>1
  <2> HIDE DEF r
  <2> QED BY <2>2, <2>3
<1>8. CASE RemoveTrash(p)
  BY <1>1, <1>2, <1>3, <1>8 DEF RemoveTrash, NoFile
<1>9. CASE RunParser(p)
  <2>1. lastVersion < MaxVersions => lastVersion + 1 \in Content
    BY LifecycleAssumption DEF Content
  <2> QED BY <1>1, <1>9, <2>1 DEF RunParser, NoFile
<1>10. CASE Backup(p)
  BY <1>1, <1>2, <1>3, <1>10 DEF Backup, NoFile
<1>11. CASE Promote(p)
  BY <1>1, <1>2, <1>3, <1>11 DEF Promote, Put, NoFile
<1>12. CASE Unpromote(p)
  BY <1>1, <1>2, <1>3, <1>12 DEF Unpromote, Put, NoFile
<1>13. CASE Unbackup(p)
  BY <1>1, <1>2, <1>3, <1>13 DEF Unbackup, Put, NoFile
<1>14. CASE WriteEvidence(p)
  BY <1>1, <1>2, <1>3, <1>14 DEF WriteEvidence, Put, NoFile
<1>15. CASE RestoreEvidence(p)
  <2>1. kept[p].evidence \in Content
    BY DEF MemoryTyped
  <2> QED BY <1>1, <1>2, <1>15, <2>1 DEF RestoreEvidence, Put, NoFile
<1> QED BY <1>4, <1>5, <1>6, <1>7, <1>8, <1>9, <1>10, <1>11, <1>12, <1>13, <1>14, <1>15 DEF FileStep

\* A call writes, removes, hides or shows points, or does nothing.
LEMMA PointEffects ==
    ASSUME IndexTyped,
           \/ \E i \in Nat, v \in Content : Write(i, v)
           \/ \E S \in SUBSET Nat : Remove(S) \/ Hide(S) \/ Show(S)
           \/ NoCall
    PROVE  IndexTyped'
<1>1. CASE \E i \in Nat, v \in Content : Write(i, v)
  BY <1>1 DEF IndexTyped, Write, Stored
<1>2. CASE \E S \in SUBSET Nat : Remove(S)
  <2>1. PICK S \in SUBSET Nat : Remove(S)
    BY <1>2
  <2>2. 0 \in Content
    BY LifecycleAssumption DEF Content
  <2> QED BY <2>1, <2>2 DEF IndexTyped, Remove, Stored
<1>3. CASE \E S \in SUBSET Nat : Hide(S) \/ Show(S)
  BY <1>3 DEF IndexTyped, Hide, Show, Stored
<1>4. CASE NoCall
  BY <1>4 DEF IndexTyped, NoCall, Stored
<1> QED BY <1>1, <1>2, <1>3, <1>4

\* Points that are written back as they were are shown or hidden as they were.
LEMMA RewriteEffect ==
    ASSUME IndexTyped, NEW S \in SUBSET PointIds, NEW was,
           was.at \in [PointIds -> Content], \A i \in S : i \in was.hidden => was.at[i] # 0,
           Rewrite(S, was)
    PROVE  IndexTyped'
  BY DEF IndexTyped, Rewrite, Stored

LEMMA IndexTypes ==
    ASSUME IndexTyped, FilesTyped, MemoryTyped, NEW p \in Procs, IndexStep(p)
    PROVE  IndexTyped'
<1>1. PointsOf(made[p]) \subseteq Nat /\ made[p] \in Content /\ PointIds \subseteq Nat
  BY LifecycleAssumption DEF FilesTyped, Content, PointsOf, PointIds
<1>2. had[p].at \in [PointIds -> Content] /\ had[p].hidden \subseteq PointIds
      /\ kept[p].at \in [PointIds -> Content] /\ HadIds(p) \subseteq PointIds
  BY DEF MemoryTyped, HadIds
<1>3. CASE Upsert(p)
  BY <1>1, <1>3, PointEffects DEF Upsert
<1>4. CASE DeleteStale(p)
  BY <1>1, <1>2, <1>4, PointEffects DEF DeleteStale, Call
<1>5. CASE Unstore(p)
  BY <1>1, <1>5, PointEffects DEF Unstore
<1>6. CASE RestorePoints(p)
  BY <1>2, <1>6, RewriteEffect DEF RestorePoints, HadIds
<1>7. CASE Repoint(p)
  BY <1>2, <1>7, RewriteEffect DEF Repoint
<1>8. CASE Quarantine(p)
  BY <1>1, <1>2, <1>8, PointEffects DEF Quarantine
<1>9. CASE RestoreVisibility(p)
  BY <1>1, <1>2, <1>9, PointEffects DEF RestoreVisibility, IndexTyped, Stored
<1>10. CASE DeletePoints(p)
  BY <1>1, <1>10, PointEffects DEF DeletePoints, Call
<1> QED BY <1>3, <1>4, <1>5, <1>6, <1>7, <1>8, <1>9, <1>10 DEF IndexStep

LEMMA MemoryTypes ==
    ASSUME IndexTyped, FilesTyped, MemoryTyped, NEW p \in Procs, Scan(p) \/ Check(p)
    PROVE  MemoryTyped'
<1>1. Stored \subseteq PointIds /\ "evidence" \in Paths
  BY DEF Stored, Paths
<1>2. CASE Scan(p)
  BY <1>1, <1>2 DEF Scan, MemoryTyped, IndexTyped
<1>3. CASE Check(p)
  <2>1. [evidence |-> place["evidence"], at |-> points]
          \in [evidence : Content, at : [PointIds -> Content]]
    BY <1>1 DEF IndexTyped, FilesTyped
  <2> QED BY <1>3, <2>1 DEF Check, MemoryTyped
<1> QED BY <1>2, <1>3

LEMMA StoreTypes ==
    ASSUME StoresTyped, NEW p \in Procs,
           \/ (WriteStore(p) \/ ClearStore(p)) /\ UNCHANGED database
           \/ RowStep(p) /\ UNCHANGED <<rival, others>>
    PROVE  StoresTyped'
  BY DEF StoresTyped, WriteStore, ClearStore, RowStep, Lookup, Insert, Refresh, DeleteRow, database

-----------------------------------------------------------------------------
(* Types and control *)

HistoryTyped ==
    /\ op \in [Procs -> Operations \cup {"none"}]
    /\ alone \in [Procs -> BOOLEAN] /\ overlapped \in {"none", "others", "delete"}
    /\ started \in 0..MaxOperations /\ crashes \in 0..MaxCrashes
ControlTyped ==
    /\ todo \in [Procs -> Seq(Steps)] /\ outcome \in [Procs -> {"none", "ok", "failed", "partial"}]
    /\ intact \in BOOLEAN /\ faults \in 0..MaxFaults

\* The type invariant, by what changes together.
LEMMA TypeParts ==
    TypeOK <=> FilesTyped /\ IndexTyped /\ MemoryTyped /\ StoresTyped /\ HistoryTyped /\ ControlTyped
  BY DEF TypeOK, FilesTyped, IndexTyped, MemoryTyped, StoresTyped, HistoryTyped, ControlTyped

\* What a step leaves alone.
LEMMA StepFrame ==
    ASSUME NEW p \in Procs, Step(p)
    PROVE  /\ UNCHANGED <<rival, op, before, alone, overlapped, started, crashes>>
           /\ \/ FileStep(p) /\ UNCHANGED <<row, lost, points, hidden, others, had, kept>>
              \/ IndexStep(p) /\ UNCHANGED <<row, lost, place, trash, backup, made, lastVersion,
                                             others, had, kept>>
              \/ (Scan(p) \/ Check(p)) /\ UNCHANGED <<row, lost, place, trash, backup, made,
                                                       lastVersion, points, hidden, others>>
              \/ (WriteStore(p) \/ ClearStore(p))
                 /\ UNCHANGED <<row, lost, place, trash, backup, made, lastVersion, points, hidden,
                                had, kept>>
              \/ RowStep(p) /\ UNCHANGED <<place, trash, backup, made, lastVersion, points, hidden,
                                            others, had, kept>>
  BY DEF Step, database, files, index, memory, trace

\* Types and control are kept by every step, by the start and the death of a process.
LEMMA StepKeepsTypes ==
    ASSUME TypeOK, ControlInv, NEW p \in Procs, Step(p)
    PROVE  TypeOK' /\ ControlInv'
<1>1. FilesTyped /\ IndexTyped /\ MemoryTyped /\ StoresTyped /\ HistoryTyped
  BY TypeParts
<1>2. HistoryTyped'
  BY <1>1, StepFrame DEF HistoryTyped
<1>3. ControlTyped' /\ ControlInv'
  BY StepMoves, MovesKeepControl, StepFrame DEF ControlTyped
<1>4. FilesTyped' /\ IndexTyped' /\ MemoryTyped' /\ StoresTyped'
  <2>1. CASE FileStep(p) /\ UNCHANGED <<row, rival, lost, points, hidden, others, had, kept>>
    BY <1>1, <2>1, FileTypes DEF memory, IndexTyped, MemoryTyped, StoresTyped, Stored
  <2>2. CASE IndexStep(p) /\ UNCHANGED <<row, rival, lost, place, trash, backup, made, lastVersion,
                                         others, had, kept>>
    BY <1>1, <2>2, IndexTypes DEF FilesTyped, MemoryTyped, StoresTyped
  <2>3. CASE /\ Scan(p) \/ Check(p)
             /\ UNCHANGED <<row, rival, lost, place, trash, backup, made, lastVersion, points, hidden,
                            others>>
    BY <1>1, <2>3, MemoryTypes DEF FilesTyped, IndexTyped, StoresTyped, Stored
  <2>4. CASE /\ WriteStore(p) \/ ClearStore(p)
             /\ UNCHANGED <<row, rival, lost, place, trash, backup, made, lastVersion, points, hidden,
                            had, kept>>
    BY <1>1, <2>4, StoreTypes DEF database, FilesTyped, IndexTyped, MemoryTyped, Stored
  <2>5. CASE RowStep(p) /\ UNCHANGED <<rival, place, trash, backup, made, lastVersion, points, hidden,
                                       others, had, kept>>
    BY <1>1, <2>5, StoreTypes DEF FilesTyped, IndexTyped, MemoryTyped, Stored
  <2> QED BY <2>1, <2>2, <2>3, <2>4, <2>5, StepFrame
<1> QED
  <2>1. TypeOK' <=> /\ FilesTyped' /\ IndexTyped' /\ MemoryTyped' /\ StoresTyped'
                    /\ HistoryTyped' /\ ControlTyped'
    BY TypeParts, PTL
  <2> QED BY <1>2, <1>3, <1>4, <2>1

LEMMA InitKeepsTypes == Init => TypeOK /\ ControlInv
<1> SUFFICES ASSUME Init PROVE TypeOK /\ ControlInv
  OBVIOUS
<1>1. 0 \in Content /\ 0 \in 0..MaxOperations /\ 0 \in 0..MaxFaults /\ 0 \in 0..MaxCrashes
  BY LifecycleAssumption DEF Content
<1>2. Nothing \in [Paths -> Content] /\ NoPoints \in [PointIds -> Content]
  BY <1>1 DEF Nothing, NoPoints
<1>3. /\ Unread \in [at : [PointIds -> Content], hidden : SUBSET PointIds]
      /\ [evidence |-> 0, at |-> NoPoints] \in [evidence : Content, at : [PointIds -> Content]]
  BY <1>1, <1>2 DEF Unread
<1>4. <<>> \in Seq(Steps)
  OBVIOUS
<1>5. TypeOK
  BY <1>1, <1>2, <1>3, <1>4 DEF Init, TypeOK
<1>6. ControlInv
  BY DEF Init, ControlInv
<1> QED BY <1>5, <1>6

LEMMA StartKeepsTypes ==
    ASSUME TypeOK, ControlInv, NEW p \in Procs, NEW o \in Operations, Start(p, o)
    PROVE  TypeOK' /\ ControlInv'
<1>1. 0 \in Content /\ Nothing \in [Paths -> Content] /\ NoPoints \in [PointIds -> Content]
  BY LifecycleAssumption DEF Content, Nothing, NoPoints
<1>2. /\ Unread \in [at : [PointIds -> Content], hidden : SUBSET PointIds]
      /\ [evidence |-> 0, at |-> NoPoints] \in [evidence : Content, at : [PointIds -> Content]]
  BY <1>1 DEF Unread
<1>3. Flow(o) \in Seq(Steps) /\ Suffix(Flow(o), Flow(o))
  BY FlowType, LenProperties DEF Suffix
<1>4. place["parsing"] \in Content
  BY DEF TypeOK, Paths
<1>5. started + 1 \in 0..MaxOperations
  BY LifecycleAssumption DEF Start, TypeOK
<1>6. FilesTyped' /\ IndexTyped' /\ MemoryTyped' /\ StoresTyped' /\ HistoryTyped' /\ ControlTyped'
  <2>1. FilesTyped'
    BY <1>1, <1>4 DEF Start, TypeOK, FilesTyped
  <2>2. IndexTyped' /\ StoresTyped'
    BY DEF Start, TypeOK, IndexTyped, StoresTyped, Stored, index, database
  <2>3. MemoryTyped'
    BY <1>2 DEF Start, TypeOK, MemoryTyped
  <2>4. HistoryTyped'
    BY <1>5 DEF Start, TypeOK, HistoryTyped
  <2>5. ControlTyped'
    BY <1>3 DEF Start, TypeOK, ControlTyped
  <2> QED BY <2>1, <2>2, <2>3, <2>4, <2>5
<1>7. TypeOK'
  <2>1. TypeOK' <=> /\ FilesTyped' /\ IndexTyped' /\ MemoryTyped' /\ StoresTyped'
                    /\ HistoryTyped' /\ ControlTyped'
    BY TypeParts, PTL
  <2> QED BY <1>6, <2>1
<1>8. ControlInv'
  BY <1>3 DEF Start, TypeOK, ControlInv, Forward
<1> QED BY <1>7, <1>8

LEMMA CrashKeepsTypes ==
    ASSUME TypeOK, ControlInv, NEW p \in Procs, Crash(p)
    PROVE  TypeOK' /\ ControlInv'
<1>1. <<>> \in Seq(Steps) /\ crashes + 1 \in 0..MaxCrashes
  BY LifecycleAssumption DEF TypeOK, Crash
<1>2. TypeOK'
  BY <1>1 DEF Crash, TypeOK, database, files, index, memory, trace, Stored
<1>3. ControlInv'
  BY DEF Crash, TypeOK, ControlInv, Forward, trace
<1> QED BY <1>2, <1>3

LEMMA IdleKeepsTypes ==
    ASSUME TypeOK, ControlInv, Rival \/ UNCHANGED vars
    PROVE  TypeOK' /\ ControlInv'
<1>1. TypeOK'
  BY DEF Rival, TypeOK, vars, database, files, index, memory, control, trace, Stored
<1>2. ControlInv'
  BY DEF Rival, ControlInv, Forward, vars, control, trace
<1> QED BY <1>1, <1>2

LEMMA NextKeepsTypes ==
    ASSUME TypeOK, ControlInv, [Next]_vars
    PROVE  TypeOK' /\ ControlInv'
  BY StepKeepsTypes, StartKeepsTypes, CrashKeepsTypes, IdleKeepsTypes DEF Next

\* The state is always of its type: the steps left to a process are steps, its
\* compensation is one the code has, and no point is hidden that is not stored.
THEOREM TypeCorrect == Spec => []TypeOK
<1>1. Init => TypeOK /\ ControlInv
  BY InitKeepsTypes
<1>2. TypeOK /\ ControlInv /\ [Next]_vars => (TypeOK /\ ControlInv)'
  BY NextKeepsTypes
<1> QED BY <1>1, <1>2, PTL DEF Spec

-----------------------------------------------------------------------------
(* Which action a step label stands for *)

\* Every action takes one label, or one of a few.
LEMMA ActionLabels ==
    ASSUME NEW p \in Procs
    PROVE  /\ StoreSource(p) => Head(todo[p]) = "store"
           /\ Unplace(p) => Head(todo[p]) = "unplace"
           /\ \A r \in Paths : MoveToTrash(p, r) => Head(todo[p]) = r
           /\ RestoreFromTrash(p) => Head(todo[p]) = "undo"
           /\ RemoveTrash(p) => Head(todo[p]) \in {"purge", "discard"}
           /\ RunParser(p) => Head(todo[p]) = "run"
           /\ Backup(p) => Head(todo[p]) = "backup"
           /\ Promote(p) => Head(todo[p]) = "promote"
           /\ Unpromote(p) => Head(todo[p]) = "unpromote"
           /\ Unbackup(p) => Head(todo[p]) = "unbackup"
           /\ WriteEvidence(p) => Head(todo[p]) = "write"
           /\ RestoreEvidence(p) => Head(todo[p]) \in {"unwrite", "remove"}
           /\ Upsert(p) => Head(todo[p]) = "upsert"
           /\ DeleteStale(p) => Head(todo[p]) = "stale"
           /\ Unstore(p) => Head(todo[p]) = "unstore"
           /\ RestorePoints(p) => Head(todo[p]) = "restore"
           /\ Repoint(p) => Head(todo[p]) = "repoint"
           /\ Quarantine(p) => Head(todo[p]) = "hide"
           /\ RestoreVisibility(p) => Head(todo[p]) \in {"unhide", "show"}
           /\ DeletePoints(p) => Head(todo[p]) = "unpoint"
           /\ Scan(p) => Head(todo[p]) \in {"scan", "snapshot"}
           /\ Check(p) => Head(todo[p]) = "check"
           /\ WriteStore(p) => Head(todo[p]) \in {"text", "sparse", "visual", "graph"}
           /\ ClearStore(p) => Head(todo[p]) \in {"untext", "unsparse", "unvisual", "ungraph"}
           /\ Lookup(p) => Head(todo[p]) = "lookup"
           /\ Insert(p) => Head(todo[p]) = "insert"
           /\ Refresh(p) => Head(todo[p]) = "refresh"
           /\ DeleteRow(p) => Head(todo[p]) = "commit"
  BY DEF At, Cleared, StoreSource, Unplace, MoveToTrash, RestoreFromTrash, RemoveTrash,
         RunParser, Backup, Promote, Unpromote, Unbackup, WriteEvidence, RestoreEvidence, Upsert,
         DeleteStale, Unstore, RestorePoints, Repoint, Quarantine, RestoreVisibility,
         DeletePoints, Scan, Check, WriteStore, ClearStore, Lookup, Insert, Refresh, DeleteRow

\* The steps of a deletion, and what they leave alone.
LEMMA DeletionStep ==
    ASSUME NEW p \in Procs, Step(p)
    PROVE  /\ Head(todo[p]) \in Paths => /\ MoveToTrash(p, Head(todo[p]))
                                        /\ UNCHANGED <<row, lost, points, hidden, had>>
           /\ Head(todo[p]) = "snapshot" =>
                Scan(p) /\ UNCHANGED <<row, lost, place, points, hidden, trash>>
           /\ Head(todo[p]) = "hide" => Quarantine(p) /\ UNCHANGED <<row, lost, place, had, trash>>
           /\ Head(todo[p]) = "commit" =>
                DeleteRow(p) /\ UNCHANGED <<place, points, hidden, had, trash>>
           /\ Head(todo[p]) \in {"ungraph", "untext"} =>
                ClearStore(p) /\ UNCHANGED <<row, lost, place, points, hidden, had, trash>>
           /\ Head(todo[p]) = "unpoint" =>
                DeletePoints(p) /\ UNCHANGED <<row, lost, place, had, trash>>
           /\ Head(todo[p]) = "purge" => RemoveTrash(p) /\ UNCHANGED <<row, lost, points, hidden, had>>
           /\ Head(todo[p]) = "undo" =>
                RestoreFromTrash(p) /\ UNCHANGED <<row, lost, points, hidden, had>>
           /\ Head(todo[p]) \in {"unhide", "show"} =>
                RestoreVisibility(p) /\ UNCHANGED <<row, lost, place, had, trash>>
<1> Paths = {"source", "parsing", "chunking", "evidence"}
  BY DEF Paths
<1> QED BY StepFrame, ActionLabels DEF FileStep, IndexStep, RowStep

\* The steps of an upload, and what they leave alone.
LEMMA UploadStep ==
    ASSUME NEW p \in Procs, Step(p)
    PROVE  /\ Head(todo[p]) = "lookup" =>
                Lookup(p) /\ UNCHANGED <<row, lost, place, points, hidden, trash>>
           /\ Head(todo[p]) = "store" => StoreSource(p) /\ UNCHANGED <<row, lost, points, hidden>>
           /\ Head(todo[p]) = "insert" => Insert(p) /\ UNCHANGED <<place, points, hidden, trash>>
           /\ Head(todo[p]) = "refresh" =>
                Refresh(p) /\ UNCHANGED <<row, lost, place, points, hidden, trash>>
           /\ Head(todo[p]) = "unplace" => Unplace(p) /\ UNCHANGED <<row, lost, points, hidden>>
<1> Paths = {"source", "parsing", "chunking", "evidence"}
  BY DEF Paths
<1> QED BY StepFrame, ActionLabels DEF FileStep, IndexStep, RowStep, Lookup, Refresh
-----------------------------------------------------------------------------
(* Deleted documents are hidden *)

\* Some labels tell the operation, and whether it goes forward.
LEMMA FlowLabels ==
    ASSUME NEW o \in Operations, NEW i \in 1..Len(Flow(o))
    PROVE  /\ Flow(o)[i] \in {"lookup", "store", "insert", "refresh"} => o = "upload"
           /\ Flow(o)[i] \in {"source", "commit", "purge"} => o = "delete"
           /\ Flow(o)[i] = "discard" => o # "delete"
           /\ Flow(o)[i] \notin {"undo", "unplace"}
<1>1. o \in {"upload", "parse", "reparse", "build", "chunk", "publish", "extract", "delete"}
  BY LifecycleAssumption
<1>2. CASE o = "reparse"
  BY <1>2 DEF Flow, Reparse, Replace
<1>3. CASE o = "build"
  BY <1>3 DEF Flow, Build, Replace
<1>4. CASE o = "publish"
  BY <1>4 DEF Flow, Publish, Replace
<1>5. CASE o = "delete"
  BY <1>5 DEF Flow, Delete
<1>6. CASE o = "upload"
  BY <1>6 DEF Flow, Upload
<1>7. CASE o \in {"parse", "chunk", "extract"}
  BY <1>7 DEF Flow, Parse, Chunk, Extract
<1> QED BY <1>1, <1>2, <1>3, <1>4, <1>5, <1>6, <1>7

\* The same of the next step of a process, in either direction.
LEMMA Labels ==
    ASSUME TypeOK, ControlInv, NEW p \in Procs, todo[p] # <<>>
    PROVE  /\ Head(todo[p]) \in {"lookup", "store", "insert", "refresh"} =>
                op[p] = "upload" /\ Forward(p)
           /\ Head(todo[p]) = "unplace" => op[p] = "upload" /\ ~Forward(p)
           /\ Head(todo[p]) \in {"source", "commit", "purge"} => op[p] = "delete" /\ Forward(p)
           /\ Head(todo[p]) = "discard" => op[p] # "delete" /\ Forward(p)
           /\ Head(todo[p]) = "undo" => ~Forward(p)
<1>1. todo[p] \in Seq(Steps) /\ op[p] \in Operations
  BY DEF TypeOK, ControlInv
<1>2. CASE Forward(p)
  <2>1. PICK i \in 1..Len(Flow(op[p])) : Head(todo[p]) = Flow(op[p])[i]
    BY <1>2, ForwardStep
  <2> QED BY <1>1, <1>2, <2>1, FlowLabels
<1>3. CASE ~Forward(p)
  <2>1. Head(todo[p]) \in UndoSteps(op[p])
    BY <1>3, HeadTailProperties DEF ControlInv
  <2> QED BY <1>3, <2>1 DEF UndoSteps, Compensations
<1> QED BY <1>2, <1>3

\* What is left of a deletion that goes forward.
LEMMA DeletionLeft ==
    ASSUME TypeOK, ControlInv, NEW p \in Procs, Deleting(p), Forward(p)
    PROVE  todo[p] \in Seq(Steps) /\ todo[p] # <<>> /\ Suffix(todo[p], Delete)
<1>1. Flow("delete") = Delete
  BY DEF Flow
<1> QED BY <1>1 DEF TypeOK, ControlInv, Deleting

\* A deletion that goes forward goes on, stays where it is, or raises; once it has
\* committed it stops when it raises.
LEMMA DeletionMoves ==
    ASSUME TypeOK, ControlInv, NEW p \in Procs, Deleting(p), Forward(p), Step(p)
    PROVE  /\ \/ Head(todo[p]) = "hide" /\ todo' = todo
              \/ todo' = [todo EXCEPT ![p] = Tail(todo[p])] /\ Len(todo'[p]) = Len(todo[p]) - 1
              \/ Raise(p) /\ ~Forward(p)'
           /\ Committed(p) /\ Raise(p) => todo'[p] = <<>>
<1>1. /\ todo[p] \in Seq(Steps) /\ todo[p] # <<>> /\ Suffix(todo[p], Delete)
      /\ outcome[p] = "ok" /\ op[p] = "delete"
  BY DeletionLeft DEF Forward, Deleting
<1>2. Succeed(p) => /\ todo' = [todo EXCEPT ![p] = Tail(todo[p])]
                    /\ Len(todo'[p]) = Len(todo[p]) - 1
  BY <1>1, HeadTailProperties DEF Succeed, TypeOK
<1>3. Raise(p) => ~Forward(p)'
  BY DEF Raise, Forward, TypeOK
<1>4. (Head(todo[p]) = "hide" /\ Stay) \/ Succeed(p) \/ Raise(p)
  <2>1. Head(todo[p]) \in Paths \cup {"snapshot", "hide", "commit", "ungraph", "unpoint", "purge",
                                      "untext"}
    BY <1>1, DeletionSteps
  <2>2. CASE Head(todo[p]) \in Paths
    BY <2>2, DeletionStep DEF MoveToTrash, Refuse, Fail
  <2>3. CASE Head(todo[p]) = "snapshot"
    BY <2>3, DeletionStep DEF Scan, Fail
  <2>4. CASE Head(todo[p]) = "hide"
    BY <2>4, DeletionStep DEF Quarantine, Fail
  <2>5. CASE Head(todo[p]) = "commit"
    BY <2>5, DeletionStep DEF DeleteRow, Fail
  <2>6. CASE Head(todo[p]) \in {"ungraph", "untext"}
    BY <2>6, DeletionStep DEF ClearStore, Fail, Raise
  <2>7. CASE Head(todo[p]) = "unpoint"
    BY <2>7, DeletionStep DEF DeletePoints, Call, Fail, Raise
  <2>8. CASE Head(todo[p]) = "purge"
    BY <2>8, DeletionStep DEF RemoveTrash, Fail
  <2> QED BY <2>1, <2>2, <2>3, <2>4, <2>5, <2>6, <2>7, <2>8
<1>5. Stay => todo' = todo
  BY DEF Stay, control
<1>7. ASSUME Committed(p), Raise(p) PROVE todo'[p] = <<>>
  <2>1. Head(todo[p]) \in {"ungraph", "unpoint", "purge", "untext"}
    BY <1>1, <1>7, DeletionSteps DEF Committed
  <2>2. Undo(op[p], Head(todo[p])) = <<>>
    BY <1>1, <2>1 DEF Undo, UndoDelete
  <2> QED BY <1>7, <2>2 DEF Raise, TypeOK
<1> QED BY <1>2, <1>3, <1>4, <1>5, <1>7

\* A deletion moves the canonical document away, reads the points, hides the ones
\* it read and shows none of them again while it goes forward.
LEMMA DeletionHides ==
    ASSUME TypeOK, ControlInv, NEW p \in Procs, Step(p), DeletionInv(p), Deleting(p),
           Forward(p)'
    PROVE  /\ Len(todo'[p]) <= 9 => place'["parsing"] = 0
           /\ Len(todo'[p]) = 6 => had'[p].at = points' /\ had'[p].hidden \subseteq hidden'
           /\ Len(todo'[p]) <= 5 => Visible' = {}
<1>1. Forward(p)
  BY StepMoves DEF Moves, Stay, Succeed, Raise, Miss, control, Forward, TypeOK
<1>2. /\ todo[p] \in Seq(Steps) /\ todo[p] # <<>> /\ Suffix(todo[p], Delete)
  BY <1>1, DeletionLeft
<1>3. PICK n \in Nat : n = Len(todo[p]) /\ 1 <= n /\ n <= 11
  BY <1>2, DeletionSteps
<1>4. n \in Nat /\ 1 <= n /\ n <= 11
  BY <1>3
<1>5. /\ Head(todo[p]) = "source" <=> n = 11
      /\ Head(todo[p]) = "parsing" <=> n = 10
      /\ Head(todo[p]) = "chunking" <=> n = 9
      /\ Head(todo[p]) = "evidence" <=> n = 8
      /\ Head(todo[p]) = "snapshot" <=> n = 7
      /\ Head(todo[p]) = "hide" <=> n = 6
      /\ Head(todo[p]) = "commit" <=> n = 5
      /\ Head(todo[p]) \in {"ungraph", "unpoint", "purge", "untext"} <=> n <= 4
  BY <1>2, <1>3, DeletionSteps
<1>6. /\ n <= 9 => place["parsing"] = 0
      /\ n = 6 => had[p].at = points /\ had[p].hidden \subseteq hidden
      /\ n <= 5 => Visible = {}
  BY <1>1, <1>3 DEF DeletionInv, Deleting
<1>7. PICK m \in Nat : m = Len(todo'[p]) /\ (m = n - 1 \/ (n = 6 /\ m = 6))
  <2>1. CASE Head(todo[p]) = "hide" /\ todo' = todo
    BY <1>3, <1>5, <2>1
  <2>2. CASE Len(todo'[p]) = Len(todo[p]) - 1
    <3>1. n - 1 \in Nat /\ Len(todo'[p]) = n - 1
      BY <1>3, <2>2
    <3> QED BY <3>1
  <2> QED BY <1>1, <2>1, <2>2, DeletionMoves
<1>8. m \in Nat /\ (m = n - 1 \/ (n = 6 /\ m = 6))
  BY <1>7
<1>9. SUFFICES /\ m <= 9 => place'["parsing"] = 0
               /\ m = 6 => had'[p].at = points' /\ had'[p].hidden \subseteq hidden'
               /\ m <= 5 => Visible' = {}
  BY <1>7
<1>10. /\ place \in [Paths -> Content] /\ "parsing" \in Paths
      /\ had \in [Procs -> [at : [PointIds -> Content], hidden : SUBSET PointIds]]
  BY DEF TypeOK, Paths
<1>11. CASE n \in {11, 10, 9, 8}
  <2>1. /\ MoveToTrash(p, Head(todo[p])) /\ Head(todo[p]) \in Paths
        /\ UNCHANGED <<points, hidden, had>>
    BY <1>5, <1>11, DeletionStep DEF Paths
  <2>2. ~Raise(p)
    BY <1>1 DEF Raise, Forward, TypeOK
  <2>3. /\ n = 10 => place'["parsing"] = 0
        /\ n <= 9 => place'["parsing"] = 0
    BY <1>5, <1>6, <1>10, <2>1, <2>2 DEF MoveToTrash, Move, NoFile, Fail, Refuse
  <2> QED BY <1>4, <1>8, <1>11, <2>3
<1>12. CASE n = 7
  <2>1. Scan(p) /\ UNCHANGED <<place, points, hidden>>
    BY <1>5, <1>12, DeletionStep
  <2>2. ~Raise(p)
    BY <1>1 DEF Raise, Forward, TypeOK
  <2>3. had'[p] = [at |-> points, hidden |-> hidden]
    BY <1>10, <2>1, <2>2 DEF Scan, Fail
  <2> QED BY <1>6, <1>4, <1>8, <1>12, <2>1, <2>3
<1>13. CASE n = 6
  <2>1. Quarantine(p) /\ UNCHANGED <<place, had>>
    BY <1>5, <1>13, DeletionStep
  <2>2. ~Raise(p)
    BY <1>1 DEF Raise, Forward, TypeOK
  <2> DEFINE pending == (HadIds(p) \ had[p].hidden) \cap Visible
  <2>3. pending = Visible
    BY <1>6, <1>13 DEF HadIds, Visible, Stored
  <2>4. CASE pending = {} /\ NoCall
    BY <1>6, <1>4, <1>8, <1>13, <2>1, <2>3, <2>4 DEF NoCall, Visible, Stored
  <2>5. CASE \E i \in pending : Hide({i}) /\ Stay
    <3>1. points' = points /\ hidden \subseteq hidden' /\ todo' = todo
      BY <2>5 DEF Hide, Stay, control
    <3>2. m = n
      BY <1>3, <1>7, <3>1
    <3> QED BY <1>6, <1>13, <2>1, <3>1, <3>2
  <2> QED BY <2>1, <2>2, <2>4, <2>5 DEF Quarantine, Fail
<1>14. CASE n = 5
  <2>1. UNCHANGED <<place, points, hidden>>
    BY <1>5, <1>14, DeletionStep
  <2> QED BY <1>6, <1>4, <1>8, <1>14, <2>1 DEF Visible, Stored
<1>15. CASE n <= 4
  <2>1. Head(todo[p]) \in {"ungraph", "unpoint", "purge", "untext"}
    BY <1>5, <1>15
  <2>2. place' = place
    BY <2>1, DeletionStep DEF RemoveTrash, NoFile
  <2>3. UNCHANGED <<points, hidden>> \/ DeletePoints(p)
    BY <2>1, DeletionStep
  <2>4. UNCHANGED <<points, hidden>> \/ Remove(PointIds)
    BY <2>3 DEF DeletePoints, Call, NoCall
  <2>5. Visible' = {}
    BY <1>6, <1>15, <2>4 DEF Visible, Stored, Remove
  <2> QED BY <1>6, <1>4, <1>8, <1>15, <2>2, <2>5
<1>16. n \in {11, 10, 9, 8} \/ n = 7 \/ n = 6 \/ n = 5 \/ n <= 4
  BY <1>4
<1> QED BY <1>11, <1>12, <1>13, <1>14, <1>15, <1>16

\* Commits that are applied and reported as failed are not forgotten.
LEMMA LostStays ==
    ASSUME NEW p \in Procs, Step(p), ~lost'
    PROVE  ~lost
  BY StepFrame DEF RowStep, Lookup, Insert, Refresh, DeleteRow

\* A step of any other operation than an upload or a deletion leaves the row alone.
LEMMA RowChanges ==
    ASSUME NEW p \in Procs, Step(p), row' # row, ~lost'
    PROVE  \/ Head(todo[p]) = "insert" /\ row'
           \/ /\ Head(todo[p]) = "commit" /\ ~row' /\ Succeed(p)
              /\ UNCHANGED <<place, points, hidden>>
  BY StepFrame, ActionLabels DEF RowStep, Lookup, Insert, Refresh, DeleteRow

\* An upload goes through its steps, or removes the file it has stored.
LEMMA UploadSafe ==
    ASSUME TypeOK, ControlInv, NEW p \in Procs, Step(p), op[p] = "upload"
    PROVE  /\ place'["parsing"] = place["parsing"]
           /\ UNCHANGED <<points, hidden>>
<1>1. todo[p] \in Seq(Steps) /\ todo[p] # <<>>
  BY StepMoves DEF Moves, TypeOK
<1>2. place \in [Paths -> Content] /\ "parsing" \in Paths
  BY DEF TypeOK, Paths
<1>3. CASE Forward(p)
  <2>1. Flow("upload") = Upload
    BY DEF Flow
  <2>2. Head(todo[p]) \in {"lookup", "store", "insert", "refresh"}
    BY <1>1, <1>3, <2>1, UploadSteps DEF ControlInv
  <2> QED BY <1>2, <2>2, UploadStep DEF StoreSource, Put, NoFile
<1>4. CASE ~Forward(p)
  <2>1. todo[p] \in Seq({"unplace"})
    BY <1>1, <1>4 DEF ControlInv, UndoSteps
  <2>2. Head(todo[p]) = "unplace"
    BY <1>1, <2>1, HeadTailProperties
  <2> QED BY <1>2, <2>2, UploadStep DEF Unplace, Put, NoFile
<1> QED BY <1>3, <1>4

\* A step keeps a deletion's progress, and without a row nothing comes back.
LEMMA StepKeepsHidden ==
    ASSUME TypeOK, ControlInv, HiddenInv, NEW p \in Procs, Step(p)
    PROVE  HiddenInv'
<1>1. SUFFICES ASSUME ~lost', overlapped' # "delete"
               PROVE  NoRowInv' /\ \A q \in Procs : DeletionInv(q)'
  BY DEF HiddenInv
<1>2. NoRowInv /\ \A q \in Procs : DeletionInv(q)
  BY <1>1, LostStays, StepFrame DEF HiddenInv
<1>3. /\ op' = op /\ todo[p] # <<>>
      /\ \A q \in Procs \ {p} : todo'[q] = todo[q] /\ outcome'[q] = outcome[q]
  BY StepFrame, StepMoves, MovesKeepControl DEF Moves
<1>4. ASSUME NEW q \in Procs PROVE DeletionInv(q)'
  <2>1. SUFFICES ASSUME Deleting(q)' PROVE DeletionInv(q)'
    BY DEF DeletionInv
  <2>2. Deleting(q) /\ Alone(q)
    BY <1>2, <1>3, <2>1 DEF Deleting, DeletionInv
  <2>3. q = p /\ Alone(q)'
    BY <1>3, <2>2 DEF Alone
  <2> QED BY <1>2, <2>2, <2>3, DeletionHides DEF DeletionInv
<1>5. ASSUME ~row' PROVE NoRowInv'
  <2>1. CASE row
    <3>1. /\ Head(todo[p]) = "commit" /\ Succeed(p)
          /\ UNCHANGED <<place, points, hidden>>
      BY <1>1, <1>5, <2>1, RowChanges
    <3>2. Deleting(p) /\ Forward(p)
      BY <1>3, <3>1, Labels DEF Deleting
    <3>3. Len(todo[p]) \in Nat /\ Len(todo[p]) = 5
      BY <3>1, <3>2, DeletionLeft, DeletionSteps
    <3>4. Visible = {} /\ place["parsing"] = 0 /\ Alone(p)
      <4>1. Len(todo[p]) <= 9 /\ Len(todo[p]) <= 5
        BY <3>3
      <4> QED BY <1>2, <3>2, <4>1 DEF DeletionInv
    <3>5. Len(todo'[p]) = 4 /\ Forward(p)'
      BY <3>2, <3>3, <3>1, HeadTailProperties, DeletionLeft DEF Succeed, TypeOK, Forward
    <3>6. \A q \in Procs : todo'[q] # <<>> => Committed(q)'
      <4>1. Committed(p)'
        <5>1. todo'[p] # <<>> /\ Len(todo'[p]) <= 4
          BY <3>5
        <5> QED BY <1>3, <3>2, <3>5, <5>1 DEF Committed, Deleting
      <4>2. \A q \in Procs : todo'[q] # <<>> => q = p
        BY <1>3, <3>4 DEF Alone
      <4> QED BY <4>1, <4>2
    <3> QED BY <3>1, <3>4, <3>6 DEF NoRowInv, Visible, Stored
  <2>2. CASE ~row
    <3>1. /\ Visible = {} /\ place["parsing"] = 0
          /\ \A q \in Procs : todo[q] # <<>> => op[q] = "upload" \/ Committed(q)
      BY <1>2, <2>2 DEF NoRowInv
    <3>2. \A q \in Procs \ {p} : todo'[q] # <<>> => op'[q] = "upload" \/ Committed(q)'
      BY <1>3, <3>1 DEF Committed, Deleting, Forward
    <3>3. CASE op[p] = "upload"
      BY <1>3, <3>1, <3>2, <3>3, UploadSafe DEF NoRowInv, Visible, Stored
    <3>4. CASE Committed(p)
      <4>1. Deleting(p) /\ Forward(p) /\ Len(todo[p]) <= 4
        BY <3>4 DEF Committed
      <4>2. Len(todo[p]) \in Nat /\ Head(todo[p]) \in {"ungraph", "unpoint", "purge", "untext"}
        BY <4>1, DeletionLeft, DeletionSteps
      <4>3. place' = place
        BY <4>2, DeletionStep DEF RemoveTrash, NoFile
      <4>4. UNCHANGED <<points, hidden>> \/ Remove(PointIds)
        BY <4>2, DeletionStep DEF DeletePoints, Call, NoCall
      <4>5. Visible' = {}
        BY <3>1, <4>4 DEF Visible, Stored, Remove
      <4>6. ASSUME todo'[p] # <<>> PROVE Committed(p)'
        <5>1. Len(todo'[p]) = Len(todo[p]) - 1
          BY <3>4, <4>1, <4>2, <4>6, DeletionMoves
        <5>2. Forward(p)'
          BY <3>4, <4>1, <4>2, <4>6, DeletionMoves, StepMoves
             DEF Moves, Stay, Succeed, Raise, Miss, control, Forward, TypeOK
        <5>3. Len(todo'[p]) <= 4
          BY <4>1, <4>2, <5>1
        <5> QED BY <1>3, <4>1, <4>6, <5>2, <5>3 DEF Committed, Deleting
      <4> QED BY <3>1, <3>2, <4>3, <4>5, <4>6 DEF NoRowInv
    <3> QED BY <1>3, <3>1, <3>3, <3>4
  <2> QED BY <2>1, <2>2
<1> QED BY <1>4, <1>5 DEF NoRowInv

\* A deletion that starts alone has everything before it; without a row only an upload starts.
LEMMA StartKeepsHidden ==
    ASSUME TypeOK, ControlInv, HiddenInv, NEW p \in Procs, NEW o \in Operations, Start(p, o)
    PROVE  HiddenInv'
<1>1. SUFFICES ASSUME ~lost', overlapped' # "delete"
               PROVE  NoRowInv' /\ \A q \in Procs : DeletionInv(q)'
  BY DEF HiddenInv
<1>2. /\ UNCHANGED <<row, lost, place, points, hidden>>
      /\ op' = [op EXCEPT ![p] = o] /\ todo' = [todo EXCEPT ![p] = Flow(o)]
      /\ outcome' = [outcome EXCEPT ![p] = "ok"]
      /\ todo[p] = <<>> /\ Startable(o)
      /\ \A q \in Procs \ {p} : had'[q] = had[q]
  BY DEF Start, database, index, TypeOK
<1>3. overlapped # "delete" /\ (Busy # {} => o # "delete" /\ \A q \in Busy : op[q] # "delete")
  BY <1>1 DEF Start
<1>4. NoRowInv /\ \A q \in Procs : DeletionInv(q)
  BY <1>1, <1>2, <1>3 DEF HiddenInv
<1>5. \A q \in Procs \ {p} : /\ todo'[q] = todo[q] /\ op'[q] = op[q] /\ outcome'[q] = outcome[q]
  BY <1>2 DEF TypeOK
<1>6. todo'[p] = Flow(o) /\ op'[p] = o /\ outcome'[p] = "ok"
  BY <1>2 DEF TypeOK
<1>7. ASSUME NEW q \in Procs PROVE DeletionInv(q)'
  <2>1. SUFFICES ASSUME Deleting(q)' PROVE DeletionInv(q)'
    BY DEF DeletionInv
  <2>2. q = p /\ o = "delete" /\ Busy = {}
    BY <1>3, <1>5, <1>6, <2>1 DEF Deleting, Busy
  <2>3. Alone(q)'
    BY <1>5, <2>2 DEF Alone, Busy
  <2>4. Len(todo'[q]) = 11
    BY <1>6, <2>2 DEF Flow, Delete
  <2> QED BY <2>3, <2>4 DEF DeletionInv
<1>8. NoRowInv'
  <2>1. SUFFICES ASSUME ~row'
                 PROVE  /\ Visible' = {} /\ place'["parsing"] = 0
                        /\ \A q \in Procs : todo'[q] # <<>> => op'[q] = "upload" \/ Committed(q)'
    BY DEF NoRowInv
  <2>2. /\ Visible = {} /\ place["parsing"] = 0
        /\ \A q \in Procs : todo[q] # <<>> => op[q] = "upload" \/ Committed(q)
    BY <1>2, <1>4, <2>1 DEF NoRowInv
  <2>3. o = "upload"
    BY <1>2, <2>1, <2>2 DEF Startable
  <2>4. \A q \in Procs \ {p} : Committed(q) => Committed(q)'
    BY <1>5 DEF Committed, Deleting, Forward
  <2>5. Visible' = {} /\ place'["parsing"] = 0
    BY <1>2, <2>2 DEF Visible, Stored
  <2> QED BY <1>5, <1>6, <2>2, <2>3, <2>4, <2>5
<1> QED BY <1>7, <1>8

LEMMA CrashKeepsHidden ==
    ASSUME TypeOK, ControlInv, HiddenInv, NEW p \in Procs, Crash(p)
    PROVE  HiddenInv'
<1>1. /\ UNCHANGED <<row, lost, place, points, hidden, had, op, overlapped>>
      /\ todo'[p] = <<>>
      /\ \A q \in Procs \ {p} : todo'[q] = todo[q] /\ outcome'[q] = outcome[q]
  BY DEF Crash, TypeOK, database, files, index, memory, trace
<1>2. \A q \in Procs : DeletionInv(q) => DeletionInv(q)'
  BY <1>1 DEF DeletionInv, Deleting, Alone, Forward, Visible, Stored
<1>3. NoRowInv => NoRowInv'
  BY <1>1 DEF NoRowInv, Committed, Deleting, Forward, Visible, Stored
<1> QED BY <1>1, <1>2, <1>3 DEF HiddenInv

LEMMA IdleKeepsHidden ==
    ASSUME HiddenInv, Rival \/ UNCHANGED vars
    PROVE  HiddenInv'
<1>1. UNCHANGED <<row, lost, place, points, hidden, had, op, overlapped, todo, outcome>>
  BY DEF Rival, vars, database, files, index, memory, control, trace
<1>2. \A q \in Procs : DeletionInv(q) => DeletionInv(q)'
  BY <1>1 DEF DeletionInv, Deleting, Alone, Forward, Visible, Stored
<1>3. NoRowInv => NoRowInv'
  BY <1>1 DEF NoRowInv, Committed, Deleting, Forward, Visible, Stored
<1> QED BY <1>1, <1>2, <1>3 DEF HiddenInv

\* At the start there is nothing to hide.
LEMMA InitHidden == Init => HiddenInv
<1> SUFFICES ASSUME Init PROVE HiddenInv
  OBVIOUS
<1>1. Visible = {} /\ place["parsing"] = 0
  BY DEF Init, Visible, Stored, NoPoints, Nothing, Paths
<1>2. \A p \in Procs : todo[p] = <<>>
  BY DEF Init
<1> QED BY <1>1, <1>2 DEF HiddenInv, NoRowInv, DeletionInv, Deleting

LEMMA NextKeepsHidden ==
    ASSUME TypeOK, ControlInv, HiddenInv, [Next]_vars
    PROVE  HiddenInv'
  BY StepKeepsHidden, StartKeepsHidden, CrashKeepsHidden, IdleKeepsHidden DEF Next

\* Once the row of a document is deleted no representation point of it is visible,
\* whatever fails and whoever dies afterwards, unless a commit was reported as failed
\* or another operation overlapped the deletion.
THEOREM DeletedHidden == Spec => []DeletedStaysHidden
<1>1. Init => TypeOK /\ ControlInv /\ HiddenInv
  BY InitKeepsTypes, InitHidden
<1>2. TypeOK /\ ControlInv /\ HiddenInv /\ [Next]_vars => (TypeOK /\ ControlInv /\ HiddenInv)'
  BY NextKeepsTypes, NextKeepsHidden
<1>3. HiddenInv => DeletedStaysHidden
  BY DEF HiddenInv, NoRowInv, DeletedStaysHidden
<1> QED BY <1>1, <1>2, <1>3, PTL DEF Spec

-----------------------------------------------------------------------------
(* A row keeps its source file *)

\* How a step moves the source file, and what the process holds of it.
LEMMA SourceMoves ==
    ASSUME TypeOK, NEW p \in Procs, Step(p), intact'
    PROVE  /\ \A q \in Procs \ {p} : trash'[q] = trash[q]
           /\ \/ UNCHANGED <<place["source"], trash[p]["source"]>>
              \/ Head(todo[p]) = "store" /\ UNCHANGED trash
              \/ Head(todo[p]) = "unplace" /\ UNCHANGED trash
              \/ /\ Head(todo[p]) = "source" /\ Succeed(p)
                 /\ place["source"] # 0 /\ place'["source"] = 0
                 /\ trash'[p]["source"] = place["source"]
              \/ /\ Head(todo[p]) = "undo" /\ todo' = todo /\ UNCHANGED outcome
                 /\ place["source"] = 0 /\ trash[p]["source"] # 0
                 /\ place'["source"] = trash[p]["source"] /\ trash'[p]["source"] = 0
              \/ Head(todo[p]) \in {"purge", "discard"} /\ UNCHANGED place
<1>1. /\ place \in [Paths -> Content] /\ trash \in [Procs -> [Paths -> Content]]
      /\ Paths = {"source", "parsing", "chunking", "evidence"}
  BY DEF TypeOK, Paths
<1>2. CASE UNCHANGED <<place, trash>>
  BY <1>2
<1>3. CASE FileStep(p)
  <2>1. CASE StoreSource(p)
    BY <2>1, ActionLabels DEF StoreSource, Put, NoFile
  <2>2. CASE Unplace(p)
    BY <2>2, ActionLabels DEF Unplace, Put, NoFile
  <2>3. CASE \E r \in Paths : MoveToTrash(p, r)
    <3>1. PICK r \in Paths : MoveToTrash(p, r)
      BY <2>3
    <3>2. Head(todo[p]) = r
      BY <3>1, ActionLabels
    <3>3. \/ NoFile
          \/ place[r] # 0 /\ Move(p, r) /\ Succeed(p)
      BY <3>1 DEF MoveToTrash
    <3>4. CASE place[r] # 0 /\ Move(p, r) /\ Succeed(p)
      BY <1>1, <3>2, <3>4 DEF Move
    <3> QED BY <1>2, <3>3, <3>4 DEF NoFile
  <2>4. CASE RestoreFromTrash(p)
    <3>1. Head(todo[p]) = "undo"
      BY <2>4, ActionLabels
    <3>2. CASE Held(p) = {}
      BY <1>2, <2>4, <3>2 DEF RestoreFromTrash, NoFile
    <3>3. CASE Held(p) # {}
      <4>1. /\ place[Latest(p)] = 0 /\ Stay
            /\ place' = [place EXCEPT ![Latest(p)] = trash[p][Latest(p)]]
            /\ trash' = [trash EXCEPT ![p][Latest(p)] = 0]
        BY <2>4, <3>3 DEF RestoreFromTrash, Miss, Forget
      <4>2. Latest(p) = "source" => trash[p]["source"] # 0
        BY <1>1, <3>3 DEF Latest, Held
      <4>3. Latest(p) \in Paths
        BY <1>1 DEF Latest
      <4>4. todo' = todo /\ outcome' = outcome
        BY <4>1 DEF Stay, control
      <4> QED BY <1>1, <3>1, <4>1, <4>2, <4>3, <4>4
    <3> QED BY <3>2, <3>3
  <2>5. CASE RemoveTrash(p)
    BY <1>1, <2>5, ActionLabels DEF RemoveTrash, NoFile
  <2>6. CASE RunParser(p)
    BY <1>2, <2>6 DEF RunParser, NoFile
  <2>7. CASE Backup(p) \/ Promote(p) \/ Unpromote(p) \/ Unbackup(p)
    BY <1>1, <2>7 DEF Backup, Promote, Unpromote, Unbackup, Put, NoFile, Target
  <2>8. CASE WriteEvidence(p) \/ RestoreEvidence(p)
    BY <1>1, <2>8 DEF WriteEvidence, RestoreEvidence, Put, NoFile
  <2> QED BY <1>3, <2>1, <2>2, <2>3, <2>4, <2>5, <2>6, <2>7, <2>8 DEF FileStep
<1> QED BY <1>2, <1>3, StepFrame

\* While every compensating step does its work, a process stays, goes on or raises.
LEMMA IntactMoves ==
    ASSUME TypeOK, ControlInv, NEW p \in Procs, Step(p), intact'
    PROVE  /\ intact /\ op' = op /\ started' = started /\ todo[p] # <<>>
           /\ \A q \in Procs \ {p} : todo'[q] = todo[q] /\ outcome'[q] = outcome[q]
           /\ \/ todo' = todo /\ outcome' = outcome
              \/ Succeed(p) /\ todo'[p] = Tail(todo[p]) /\ outcome' = outcome
              \/ /\ Raise(p) /\ Forward(p) /\ ~Forward(p)'
                 /\ todo'[p] = Undo(op[p], Head(todo[p]))
<1>1. Moves(p) /\ op' = op /\ started' = started
  BY StepMoves, StepFrame
<1>2. \A q \in Procs \ {p} : todo'[q] = todo[q] /\ outcome'[q] = outcome[q]
  BY <1>1, MovesKeepControl
<1>3. todo \in [Procs -> Seq(Steps)] /\ outcome \in [Procs -> {"none", "ok", "failed", "partial"}]
  BY DEF TypeOK
<1>4. CASE Stay
  BY <1>1, <1>2, <1>4 DEF Moves, Stay, control
<1>5. CASE Succeed(p)
  BY <1>1, <1>2, <1>3, <1>5 DEF Moves, Succeed
<1>6. CASE Raise(p)
  BY <1>1, <1>2, <1>3, <1>6 DEF Moves, Raise, Forward
<1>7. ~(\E n \in Nat : Miss(p, n))
  BY DEF Miss
<1> QED BY <1>1, <1>4, <1>5, <1>6, <1>7 DEF Moves

\* Before its insert an upload is alone, has no row, and has stored its file by then.
LEMMA StepKeepsUpload ==
    ASSUME TypeOK, ControlInv, UploadInv, NEW p \in Procs, Step(p), intact', ~lost'
    PROVE  UploadInv'
<1>1. /\ op' = op /\ started' = started /\ todo[p] # <<>>
      /\ \A q \in Procs \ {p} : todo'[q] = todo[q] /\ outcome'[q] = outcome[q]
  BY IntactMoves
<1>2. started # 0
  BY <1>1 DEF UploadInv
<1>3. ASSUME NEW q \in Procs, Early(q)'
      PROVE  /\ ~row' /\ place'["parsing"] = 0 /\ Alone(q)'
             /\ Forward(q)' /\ Len(todo'[q]) = 2 => place'["source"] # 0
  <2>1. CASE q # p
    <3>1. Early(q)
      BY <1>1, <1>3, <2>1 DEF Early, Forward
    <3> QED BY <1>1, <2>1, <3>1 DEF UploadInv, Alone
  <2>2. CASE q = p /\ ~Forward(p)
    <3>1. ~row /\ place["parsing"] = 0 /\ Alone(p) /\ op[p] = "upload"
      BY <1>1, <1>3, <2>2 DEF UploadInv, Early
    <3>2. ~row'
      BY <1>1, <2>2, <3>1, RowChanges, Labels
    <3>3. ~Forward(p)'
      BY <2>2, IntactMoves DEF Forward
    <3>4. Alone(p)'
      BY <1>1, <3>1 DEF Alone
    <3> QED BY <2>2, <3>1, <3>2, <3>3, <3>4, UploadSafe
  <2>3. CASE q = p /\ Forward(p)
    <3>1. /\ op[p] = "upload" /\ todo[p] \in Seq(Steps) /\ Suffix(todo[p], Upload)
          /\ todo'[p] # <<>>
      <4>1. Flow("upload") = Upload
        BY DEF Flow
      <4> QED BY <1>1, <1>3, <2>3, <4>1 DEF Early, ControlInv, TypeOK
    <3>2. PICK n \in Nat : n = Len(todo[p]) /\ 1 <= n /\ n <= 4
      BY <1>1, <3>1, UploadSteps
    <3>3. /\ Head(todo[p]) = "lookup" <=> n = 4
          /\ Head(todo[p]) = "store" <=> n = 3
          /\ Head(todo[p]) = "insert" <=> n = 2
          /\ Head(todo[p]) = "refresh" <=> n = 1
          /\ Head(todo[p]) \in {"lookup", "store", "insert", "refresh"}
      BY <1>1, <3>1, <3>2, UploadSteps
    <3>4. ~Raise(p) => /\ Forward(p)' /\ Succeed(p)
                       /\ Len(todo'[p]) = n - 1 /\ n >= 3
      <4>1. Succeed(p) \/ Raise(p)
        BY <3>3, UploadStep DEF Lookup, StoreSource, Insert, Refresh, Fail, Refuse
      <4>2. Succeed(p) => Len(todo'[p]) = n - 1 /\ Forward(p)'
        BY <1>1, <2>3, <3>1, <3>2, HeadTailProperties DEF Succeed, Forward, TypeOK
      <4>3. n - 1 >= 2 => n >= 3
        BY <3>2
      <4> QED BY <1>3, <2>3, <4>1, <4>2, <4>3 DEF Early
    <3>5. Raise(p) => n \in {2, 3} /\ ~Forward(p)'
      BY <3>1, <3>3, IntactMoves DEF Undo, UndoUpload, Raise, Forward, TypeOK
    <3>6. n >= 2
      BY <3>4, <3>5
    <3>7. ~row /\ place["parsing"] = 0 /\ Alone(p) /\ (n = 2 => place["source"] # 0)
      BY <1>1, <2>3, <3>1, <3>2, <3>6 DEF UploadInv, Early
    <3>8. place'["parsing"] = 0 /\ Alone(p)'
      BY <1>1, <3>1, <3>7, UploadSafe DEF Alone
    <3>9. ~row'
      <4>1. CASE n = 2
        <5>1. ~(n >= 3)
          BY <4>1
        <5>2. Raise(p) /\ ~Forward(p)'
          BY <3>4, <3>5, <5>1, Zenon
        <5>3. Succeed(p) => Forward(p)'
          BY <2>3 DEF Succeed, Forward
        <5> QED BY <3>3, <3>7, <4>1, <5>2, <5>3, UploadStep DEF Insert
      <4>2. CASE n # 2
        BY <3>3, <3>7, <4>2, RowChanges
      <4> QED BY <4>1, <4>2
    <3>10. ASSUME Forward(p)', Len(todo'[p]) = 2 PROVE place'["source"] # 0
      <4>1. Succeed(p) /\ n - 1 = 2
        BY <3>4, <3>5, <3>10
      <4>2. StoreSource(p)
        BY <3>2, <3>3, <4>1, UploadStep
      <4>3. Put("source", 1)
        BY <2>3, <4>1, <4>2, <3>10 DEF StoreSource, Fail, Raise, Forward, TypeOK, Succeed
      <4> QED BY <4>3 DEF Put, TypeOK, Paths
    <3> QED BY <2>3, <3>8, <3>9, <3>10
  <2> QED BY <2>1, <2>2, <2>3
<1> QED BY <1>1, <1>2, <1>3 DEF UploadInv

\* An upload at its insert is alone, without a row, and has stored its file.
LEMMA InsertStep ==
    ASSUME TypeOK, ControlInv, UploadInv, NEW p \in Procs, todo[p] # <<>>,
           Head(todo[p]) \in {"lookup", "store", "insert", "unplace"}
    PROVE  /\ ~row /\ Alone(p)
           /\ Head(todo[p]) = "insert" => place["source"] # 0
<1>1. op[p] = "upload" /\ todo[p] \in Seq(Steps)
  BY Labels DEF TypeOK
<1>2. CASE ~Forward(p)
  BY <1>1, <1>2, Labels DEF UploadInv, Early
<1>3. CASE Forward(p)
  <2>1. Suffix(todo[p], Upload)
    <3>1. Flow("upload") = Upload
      BY DEF Flow
    <3> QED BY <1>1, <1>3, <3>1 DEF ControlInv
  <2>2. Len(todo[p]) \in Nat /\ Head(todo[p]) # "unplace"
    BY <1>1, <1>3, <2>1, UploadSteps, Labels
  <2>3. Len(todo[p]) >= 2 /\ (Head(todo[p]) = "insert" => Len(todo[p]) = 2)
    <3>1. CASE Head(todo[p]) = "lookup"
      BY <1>1, <2>1, <3>1, UploadSteps
    <3>2. CASE Head(todo[p]) = "store"
      BY <1>1, <2>1, <3>2, UploadSteps
    <3>3. CASE Head(todo[p]) = "insert"
      <4>1. Len(todo[p]) = 2
        BY <1>1, <2>1, <3>3, UploadSteps
      <4> QED BY <4>1
    <3> QED BY <2>2, <3>1, <3>2, <3>3
  <2> QED BY <1>1, <1>3, <2>3 DEF UploadInv, Early
<1> QED BY <1>2, <1>3

\* A deletion that has committed has no row any more.
LEMMA StepKeepsCommitted ==
    ASSUME TypeOK, ControlInv, UploadInv, HolderInv, NEW p \in Procs, Step(p), intact', ~lost',
           NEW q \in Procs, Committed(q)'
    PROVE  ~row'
<1>1. /\ op' = op /\ todo[p] # <<>>
      /\ \A r \in Procs \ {p} : todo'[r] = todo[r] /\ outcome'[r] = outcome[r]
  BY IntactMoves
<1>2. CASE q # p
  <2>1. Committed(q) /\ ~row
    BY <1>1, <1>2 DEF Committed, Deleting, Forward, HolderInv
  <2>2. ~Alone(p)
    BY <1>1, <1>2, <2>1 DEF Committed, Deleting, Alone
  <2> QED BY <1>1, <2>1, <2>2, RowChanges, InsertStep
<1>3. CASE q = p
  <2>1. Deleting(p) /\ Forward(p) /\ ~Raise(p)
    BY <1>1, <1>3, IntactMoves DEF Committed, Deleting, Forward, Raise, TypeOK
  <2>2. todo[p] \in Seq(Steps) /\ Suffix(todo[p], Delete)
    BY <2>1, DeletionLeft
  <2>3. CASE Head(todo[p]) = "commit"
    BY <2>1, <2>3, DeletionStep DEF DeleteRow, Fail
  <2>4. CASE Head(todo[p]) # "commit"
    <3>1. Len(todo[p]) \in Nat /\ Len(todo[p]) # 5 /\ Len(todo'[p]) <= 4
      BY <1>1, <1>3, <2>2, <2>4, DeletionSteps DEF Committed
    <3>2. (Head(todo[p]) = "hide" /\ todo' = todo) \/ Len(todo'[p]) = Len(todo[p]) - 1
      BY <2>1, DeletionMoves
    <3>3. Len(todo[p]) <= 4
      <4>1. PICK n \in Nat : n = Len(todo[p])
        BY <3>1
      <4>2. (Len(todo'[p]) = n \/ Len(todo'[p]) = n - 1) /\ n # 5
        BY <3>1, <3>2, <4>1
      <4>3. n <= 4
        BY <3>1, <4>2
      <4> QED BY <4>1, <4>3
    <3>4. ~row
      BY <2>1, <3>3 DEF HolderInv, Committed
    <3>5. Head(todo[p]) # "insert"
      BY <1>1, <2>1, Labels DEF Deleting
    <3> QED BY <3>4, <3>5, RowChanges
  <2> QED BY <2>3, <2>4
<1> QED BY <1>2, <1>3

\* A step that raises before the commit leaves the files to put back.
LEMMA DeletionUndo ==
    ASSUME TypeOK, ControlInv, NEW p \in Procs, Deleting(p), Forward(p), ~Committed(p)
    PROVE  \E i \in 1..Len(Undo(op[p], Head(todo[p]))) : Undo(op[p], Head(todo[p]))[i] = "undo"
<1>1. todo[p] \in Seq(Steps) /\ todo[p] # <<>> /\ Suffix(todo[p], Delete) /\ op[p] = "delete"
  BY DeletionLeft DEF Deleting
<1>2. ~(Len(todo[p]) <= 4)
  BY DEF Committed
<1>3. Head(todo[p]) \in Paths \cup {"snapshot", "hide", "commit"}
  BY <1>1, <1>2, DeletionSteps
<1>4. Undo(op[p], Head(todo[p])) \in {<<"undo">>, <<"unhide", "undo">>, <<"undo", "show">>}
  BY <1>1, <1>3 DEF Undo, UndoDelete, Paths
<1>5. /\ Len(<<"undo">>) = 1 /\ <<"undo">>[1] = "undo"
      /\ Len(<<"unhide", "undo">>) = 2 /\ <<"unhide", "undo">>[2] = "undo"
      /\ Len(<<"undo", "show">>) = 2 /\ <<"undo", "show">>[1] = "undo"
  OBVIOUS
<1> QED BY <1>4, <1>5

\* One deletion at most holds the source file, and then nothing is at its path.
LEMMA StepKeepsHolder ==
    ASSUME TypeOK, ControlInv, UploadInv, HolderInv, NEW p \in Procs, Step(p), intact', ~lost'
    PROVE  HolderInv'
<1>1. /\ op' = op /\ todo[p] # <<>>
      /\ \A r \in Procs \ {p} : todo'[r] = todo[r] /\ outcome'[r] = outcome[r]
      /\ \A r \in Procs \ {p} : trash'[r] = trash[r]
  BY IntactMoves, SourceMoves
<1>2. \A r \in Procs \ {p} : Holds(r)' <=> Holds(r)
  BY <1>1 DEF Holds
<1>3. ~Alone(p) => Head(todo[p]) # "store" /\ Head(todo[p]) # "unplace"
  BY <1>1, InsertStep
<1>4. ASSUME Holds(p)', ~Holds(p)
      PROVE  /\ op[p] = "delete" /\ place["source"] # 0 /\ place'["source"] = 0 /\ Forward(p)'
  <2>1. trash[p]["source"] = 0 /\ trash'[p]["source"] # 0
    BY <1>1, <1>4 DEF Holds
  <2>2. trash' # trash
    BY <2>1
  <2>3. ~(Head(todo[p]) \in {"purge", "discard"})
    <3>1. ASSUME Head(todo[p]) \in {"purge", "discard"} PROVE FALSE
      <4>1. RemoveTrash(p)
        BY <3>1, <2>2, StepFrame, ActionLabels DEF FileStep, Paths
      <4>2. trash' = [trash EXCEPT ![p] = Nothing]
        BY <2>2, <4>1 DEF RemoveTrash, NoFile
      <4> QED BY <2>1, <4>2 DEF Nothing, Paths, TypeOK
    <3> QED BY <3>1
  <2>4. /\ Head(todo[p]) = "source" /\ Succeed(p)
        /\ place["source"] # 0 /\ place'["source"] = 0
    BY <2>1, <2>2, <2>3, SourceMoves
  <2>5. op[p] = "delete" /\ Forward(p)
    BY <1>1, <2>4, Labels
  <2>6. Forward(p)'
    BY <2>4, <2>5 DEF Succeed, Forward
  <2> QED BY <2>4, <2>5, <2>6
<1>5. ASSUME Holds(p)', Holds(p)
      PROVE  /\ op[p] = "delete" /\ place["source"] = 0 /\ place'["source"] = 0
             /\ ~Forward(p)' => \E i \in 1..Len(todo'[p]) : todo'[p][i] = "undo"
  <2>1. /\ op[p] = "delete" /\ place["source"] = 0 /\ Deleting(p)
        /\ ~Forward(p) => \E i \in 1..Len(todo[p]) : todo[p][i] = "undo"
    BY <1>1, <1>5 DEF HolderInv, Deleting
  <2>2. trash'[p]["source"] # 0 /\ trash[p]["source"] # 0 /\ todo'[p] # <<>>
    BY <1>5 DEF Holds
  <2>3. place'["source"] = 0
    BY <1>1, <2>1, <2>2, SourceMoves, Labels
  <2>4. ASSUME ~Forward(p)' PROVE \E i \in 1..Len(todo'[p]) : todo'[p][i] = "undo"
    <3>1. CASE Forward(p)
      <4>1. Raise(p) /\ todo'[p] = Undo(op[p], Head(todo[p]))
        BY <2>4, <3>1, IntactMoves DEF Forward
      <4>2. ~Committed(p)
        BY <2>1, <2>2, <3>1, <4>1, DeletionMoves
      <4> QED BY <2>1, <3>1, <4>1, <4>2, DeletionUndo
    <3>2. CASE ~Forward(p) /\ todo' = todo
      BY <2>1, <3>2
    <3>3. CASE ~Forward(p) /\ todo'[p] = Tail(todo[p])
      <4>1. todo[p] \in Seq(Steps) /\ Len(todo[p]) \in Nat
        BY LenProperties DEF TypeOK
      <4>2. PICK i \in 1..Len(todo[p]) : todo[p][i] = "undo"
        BY <2>1, <3>3
      <4>3. CASE i = 1
        <5>1. Head(todo[p]) = "undo"
          BY <1>1, <4>1, <4>2, <4>3
        <5>2. RestoreFromTrash(p)
          BY <5>1, DeletionStep
        <5>3. Held(p) # {}
          BY <2>2 DEF Held, Paths
        <5>4. todo' = todo
          BY <5>2, <5>3 DEF RestoreFromTrash, Stay, control, Miss
        <5> QED BY <2>1, <3>3, <5>4
      <4>4. CASE i # 1
        <5>1. /\ Len(Tail(todo[p])) = Len(todo[p]) - 1
              /\ Tail(todo[p])[i - 1] = todo[p][i - 1 + 1] /\ i - 1 \in 1..Len(Tail(todo[p]))
          BY <1>1, <4>1, <4>4, HeadTailProperties
        <5>2. todo[p][i - 1 + 1] = "undo"
          BY <4>2
        <5> QED BY <3>3, <5>1, <5>2
      <4> QED BY <4>3, <4>4
    <3> QED BY <2>4, <3>1, <3>2, <3>3, IntactMoves
  <2> QED BY <2>1, <2>3, <2>4
<1>6. ASSUME NEW q \in Procs, q # p, Holds(q)
      PROVE  /\ op[q] = "delete" /\ place["source"] = 0 /\ place'["source"] = 0
             /\ ~Holds(p) /\ ~Holds(p)'
             /\ ~Forward(q)' => \E i \in 1..Len(todo'[q]) : todo'[q][i] = "undo"
  <2>1. /\ op[q] = "delete" /\ place["source"] = 0 /\ ~Holds(p)
        /\ ~Forward(q) => \E i \in 1..Len(todo[q]) : todo[q][i] = "undo"
    BY <1>6 DEF HolderInv
  <2>2. ~Holds(p)'
    BY <1>4, <2>1
  <2>3. ~Alone(p)
    BY <1>6 DEF Alone, Holds
  <2>4. trash[p]["source"] = 0
    BY <1>1, <2>1 DEF Holds
  <2>5. place'["source"] = 0
    BY <1>3, <2>1, <2>3, <2>4, SourceMoves
  <2> QED BY <1>1, <1>6, <2>1, <2>2, <2>5 DEF Forward
<1>7. ASSUME NEW q \in Procs, Holds(q)'
      PROVE  /\ op'[q] = "delete" /\ place'["source"] = 0
             /\ \A r \in Procs : Holds(r)' => r = q
             /\ ~Forward(q)' => \E i \in 1..Len(todo'[q]) : todo'[q][i] = "undo"
  <2>1. CASE q # p
    <3>1. Holds(q)
      BY <1>2, <1>7, <2>1
    <3>2. \A r \in Procs : Holds(r) => r = q
      BY <3>1 DEF HolderInv
    <3> QED BY <1>1, <1>2, <1>6, <2>1, <3>1, <3>2
  <2>2. CASE q = p
    <3>1. \A r \in Procs : Holds(r)' => r = q
      BY <1>2, <1>6, <1>7, <2>2
    <3> QED BY <1>1, <1>4, <1>5, <1>7, <2>2, <3>1
  <2> QED BY <2>1, <2>2
<1>8. \A q \in Procs : Committed(q)' => ~row'
  BY StepKeepsCommitted
<1> QED BY <1>7, <1>8 DEF HolderInv

\* The source of a row is at its path, or with the deletion that moved it.
LEMMA StepKeepsRow ==
    ASSUME TypeOK, ControlInv, UploadInv, HolderInv, RowInv, NEW p \in Procs, Step(p),
           intact', ~lost'
    PROVE  RowInv'
<1>1. /\ op' = op /\ todo[p] # <<>>
      /\ \A r \in Procs \ {p} : todo'[r] = todo[r] /\ outcome'[r] = outcome[r]
      /\ \A r \in Procs \ {p} : trash'[r] = trash[r]
  BY IntactMoves, SourceMoves
<1>2. SUFFICES ASSUME row' PROVE place'["source"] # 0 \/ \E q \in Procs : Holds(q)'
  BY DEF RowInv
<1>3. CASE ~row
  <2>1. Head(todo[p]) = "insert"
    BY <1>2, <1>3, RowChanges
  <2>2. place["source"] # 0 /\ place' = place
    BY <1>1, <2>1, InsertStep, UploadStep
  <2> QED BY <2>2
<1>4. CASE row
  <2>1. Head(todo[p]) \notin {"lookup", "store", "insert", "unplace"}
    BY <1>1, <1>4, InsertStep
  <2>2. CASE place["source"] # 0
    <3>1. CASE Head(todo[p]) = "source" /\ Succeed(p) /\ trash'[p]["source"] = place["source"]
      <4>1. Deleting(p) /\ Forward(p) /\ todo[p] \in Seq(Steps) /\ Suffix(todo[p], Delete)
        BY <1>1, <3>1, Labels, DeletionLeft DEF Deleting
      <4>2. Len(todo[p]) = 11 /\ todo'[p] = Tail(todo[p])
        BY <1>1, <3>1, <4>1, DeletionSteps DEF Succeed, TypeOK
      <4>3. Len(todo'[p]) = 10
        BY <1>1, <4>1, <4>2, HeadTailProperties
      <4>4. todo'[p] # <<>>
        BY <4>3
      <4> QED BY <2>2, <3>1, <4>4 DEF Holds
    <3>2. CASE place'["source"] = place["source"]
      BY <2>2, <3>2
    <3> QED BY <2>1, <2>2, <3>1, <3>2, SourceMoves
  <2>3. CASE place["source"] = 0
    <3>1. PICK q \in Procs : Holds(q)
      BY <1>4, <2>3 DEF RowInv
    <3>2. CASE q # p
      BY <1>1, <3>1, <3>2 DEF Holds
    <3>3. CASE q = p
      <4>1. /\ Deleting(p) /\ ~Committed(p) /\ trash[p]["source"] # 0
            /\ ~Forward(p) => \E i \in 1..Len(todo[p]) : todo[p][i] = "undo"
        BY <1>4, <3>1, <3>3 DEF HolderInv, Holds, Deleting
      <4>2. Head(todo[p]) \notin {"purge", "discard"}
        <5>1. ASSUME Head(todo[p]) = "purge" PROVE FALSE
          <6>1. Forward(p) /\ todo[p] \in Seq(Steps) /\ Suffix(todo[p], Delete)
            BY <1>1, <4>1, <5>1, Labels, DeletionLeft
          <6>2. Len(todo[p]) <= 4
            BY <1>1, <5>1, <6>1, DeletionSteps
          <6> QED BY <4>1, <6>1, <6>2 DEF Committed
        <5> QED BY <1>1, <4>1, <5>1, Labels DEF Deleting
      <4>3. trash'[p]["source"] # 0 \/ place'["source"] # 0
        BY <2>1, <2>3, <4>1, <4>2, SourceMoves
      <4>4. ASSUME trash'[p]["source"] # 0 PROVE todo'[p] # <<>>
        <5>1. todo[p] \in Seq(Steps) /\ Len(todo[p]) \in Nat
          BY LenProperties DEF TypeOK
        <5>2. CASE Forward(p) /\ Raise(p)
          <6>1. todo'[p] = Undo(op[p], Head(todo[p]))
            BY <1>1, <5>2 DEF Raise, TypeOK
          <6>2. PICK i \in 1..Len(Undo(op[p], Head(todo[p]))) : TRUE
            BY <4>1, <5>2, DeletionUndo
          <6>3. Len(<<>>) = 0
            OBVIOUS
          <6> QED BY <6>1, <6>2, <6>3
        <5>3. CASE Forward(p) /\ ~Raise(p)
          <6>1. Suffix(todo[p], Delete)
            BY <4>1, <5>3, DeletionLeft
          <6>2. todo' = todo \/ Len(todo'[p]) = Len(todo[p]) - 1
            BY <4>1, <5>3, DeletionMoves
          <6>3. ~(Len(todo[p]) <= 4)
            BY <4>1, <5>3 DEF Committed
          <6>4. CASE Len(todo'[p]) = Len(todo[p]) - 1
            <7>1. PICK n \in Nat : n = Len(todo[p])
              BY <5>1
            <7>2. ~(n <= 4) /\ Len(todo'[p]) = n - 1
              BY <6>3, <6>4, <7>1
            <7>3. n - 1 # 0
              BY <7>2
            <7>4. Len(todo'[p]) # 0
              BY <7>2, <7>3
            <7> QED BY <7>4
          <6> QED BY <1>1, <6>2, <6>4
        <5>4. CASE ~Forward(p)
          <6>1. PICK i \in 1..Len(todo[p]) : todo[p][i] = "undo"
            BY <4>1, <5>4
          <6>2. CASE todo'[p] = Tail(todo[p])
            <7>1. i # 1
              <8>1. ASSUME i = 1 PROVE FALSE
                <9>1. Head(todo[p]) = "undo"
                  BY <1>1, <5>1, <6>1, <8>1
                <9>2. RestoreFromTrash(p)
                  BY <9>1, DeletionStep
                <9>3. Held(p) # {}
                  BY <4>1 DEF Held, Paths
                <9>4. todo' = todo
                  BY <9>2, <9>3 DEF RestoreFromTrash, Stay, control, Miss
                <9>5. Len(Tail(todo[p])) = Len(todo[p]) - 1
                  BY <1>1, <5>1, HeadTailProperties
                <9>6. Len(todo[p]) = Len(todo[p]) - 1
                  BY <6>2, <9>4, <9>5
                <9> QED BY <5>1, <9>6
              <8> QED BY <8>1
            <7>2. Len(Tail(todo[p])) = Len(todo[p]) - 1 /\ Len(todo[p]) # 1
              BY <1>1, <5>1, <6>1, <7>1, HeadTailProperties
            <7>3. Len(todo'[p]) # 0
              BY <5>1, <6>2, <7>2
            <7> QED BY <7>3
          <6>3. CASE todo' = todo
            BY <1>1, <6>3
          <6> QED BY <5>4, <6>2, <6>3, IntactMoves
        <5> QED BY <5>2, <5>3, <5>4
      <4> QED BY <3>3, <4>3, <4>4 DEF Holds
    <3> QED BY <3>2, <3>3
  <2> QED BY <2>2, <2>3
<1> QED BY <1>3, <1>4

\* The three parts together, for a step and for a start.
LEMMA StepKeepsSource ==
    ASSUME TypeOK, ControlInv, SourceInv, NEW p \in Procs, Step(p)
    PROVE  SourceInv'
<1>1. SUFFICES ASSUME intact', ~lost' PROVE UploadInv' /\ HolderInv' /\ RowInv'
  BY DEF SourceInv
<1>2. UploadInv /\ HolderInv /\ RowInv
  BY <1>1, IntactMoves, LostStays DEF SourceInv
<1> QED BY <1>1, <1>2, StepKeepsUpload, StepKeepsHolder, StepKeepsRow

LEMMA StartKeepsSource ==
    ASSUME TypeOK, ControlInv, SourceInv, NEW p \in Procs, NEW o \in Operations, Start(p, o)
    PROVE  SourceInv'
<1>1. SUFFICES ASSUME intact', ~lost' PROVE UploadInv' /\ HolderInv' /\ RowInv'
  BY DEF SourceInv
<1>2. /\ UNCHANGED <<row, lost, place, intact>>
      /\ started' = started + 1 /\ todo[p] = <<>> /\ Startable(o)
      /\ op'[p] = o /\ todo'[p] = Flow(o) /\ outcome'[p] = "ok" /\ trash'[p] = Nothing
      /\ \A q \in Procs \ {p} : /\ todo'[q] = todo[q] /\ op'[q] = op[q]
                                /\ outcome'[q] = outcome[q] /\ trash'[q] = trash[q]
  BY DEF Start, database, TypeOK
<1>3. UploadInv /\ HolderInv /\ RowInv
  BY <1>1, <1>2 DEF SourceInv
<1>4. UploadInv'
  <2>1. started' # 0
    BY <1>2, LifecycleAssumption DEF TypeOK
  <2>2. ASSUME NEW q \in Procs, Early(q)'
        PROVE  /\ ~row' /\ place'["parsing"] = 0 /\ Alone(q)'
               /\ Forward(q)' /\ Len(todo'[q]) = 2 => place'["source"] # 0
    <3>1. CASE q = p
      <4>1. o = "upload" /\ started = 0
        BY <1>2, <2>2, <3>1 DEF Early, Startable
      <4>2. Len(todo'[p]) = 4
        BY <1>2, <4>1 DEF Flow, Upload
      <4>3. ~row /\ place["parsing"] = 0 /\ \A r \in Procs : todo[r] = <<>>
        BY <1>3, <4>1 DEF UploadInv
      <4>4. ~row' /\ place'["parsing"] = 0 /\ Alone(p)'
        BY <1>2, <4>3 DEF Alone
      <4>5. Len(todo'[p]) # 2
        BY <4>2
      <4> QED BY <3>1, <4>4, <4>5
    <3>2. CASE q # p
      <4>1. Early(q)
        BY <1>2, <2>2, <3>2 DEF Early, Forward
      <4>2. ~row /\ place["parsing"] = 0 /\ todo[q] # <<>>
        BY <1>3, <4>1 DEF UploadInv, Early
      <4>3. o = "upload" /\ started = 0
        BY <1>2, <4>2 DEF Startable
      <4> QED BY <1>3, <4>2, <4>3 DEF UploadInv
    <3> QED BY <3>1, <3>2
  <2> QED BY <2>1, <2>2 DEF UploadInv
<1>5. ~Holds(p)' /\ ~Holds(p) /\ \A q \in Procs \ {p} : Holds(q)' <=> Holds(q)
  BY <1>2 DEF Holds, Nothing, Paths
<1>6. HolderInv'
  <2>1. ASSUME NEW q \in Procs, Committed(q)' PROVE ~row'
    <3>1. CASE q = p
      <4>1. Len(todo'[p]) = 11
        BY <1>2, <2>1, <3>1 DEF Committed, Deleting, Flow, Delete
      <4> QED BY <2>1, <3>1, <4>1 DEF Committed
    <3>2. CASE q # p
      BY <1>2, <1>3, <2>1, <3>2 DEF HolderInv, Committed, Deleting, Forward
    <3> QED BY <3>1, <3>2
  <2>2. ASSUME NEW q \in Procs, Holds(q)'
        PROVE  /\ op'[q] = "delete" /\ place'["source"] = 0
               /\ \A r \in Procs : Holds(r)' => r = q
               /\ ~Forward(q)' => \E i \in 1..Len(todo'[q]) : todo'[q][i] = "undo"
    <3>1. Holds(q) /\ q # p
      BY <1>5, <2>2
    <3>2. /\ op[q] = "delete" /\ place["source"] = 0
          /\ \A r \in Procs : Holds(r) => r = q
          /\ ~Forward(q) => \E i \in 1..Len(todo[q]) : todo[q][i] = "undo"
      BY <1>3, <3>1 DEF HolderInv
    <3> QED BY <1>2, <1>5, <3>1, <3>2 DEF Forward
  <2> QED BY <2>1, <2>2 DEF HolderInv
<1>7. RowInv'
  BY <1>2, <1>3, <1>5 DEF RowInv
<1> QED BY <1>4, <1>6, <1>7

LEMMA IdleKeepsSource ==
    ASSUME SourceInv, Rival \/ UNCHANGED vars
    PROVE  SourceInv'
<1>1. UNCHANGED <<row, lost, intact, place, trash, op, todo, outcome, started>>
  BY DEF Rival, vars, database, files, index, memory, control, trace
<1> QED BY <1>1 DEF SourceInv, UploadInv, HolderInv, RowInv, Early, Alone, Holds, Committed, Deleting,
                    Forward

LEMMA InitSource == Init => SourceInv
  BY DEF Init, SourceInv, UploadInv, HolderInv, RowInv, Early, Alone, Holds, Committed, Deleting,
         Forward, Nothing, Paths

LEMMA NextKeepsSource ==
    ASSUME TypeOK, ControlInv, SourceInv, [Next]_vars
    PROVE  SourceInv'
<1>1. ASSUME NEW p \in Procs, Crash(p) PROVE SourceInv'
  BY <1>1 DEF Crash, SourceInv
<1> QED BY <1>1, StepKeepsSource, StartKeepsSource, IdleKeepsSource DEF Next

\* A row that no upload and no deletion works on has its source file, however many
\* deletions, parses and publications overlap, while compensations do their work.
THEOREM RowKeepsSource == Spec => []RowHasSource
<1>1. Init => TypeOK /\ ControlInv /\ SourceInv
  BY InitKeepsTypes, InitSource
<1>2. TypeOK /\ ControlInv /\ SourceInv /\ [Next]_vars => (TypeOK /\ ControlInv /\ SourceInv)'
  BY NextKeepsTypes, NextKeepsSource
<1>3. SourceInv => RowHasSource
  BY DEF SourceInv, RowInv, HolderInv, Holds, Busy, RowHasSource
<1> QED BY <1>1, <1>2, <1>3, PTL DEF Spec

-----------------------------------------------------------------------------
(* Where an operation is that nothing overlaps: the inductive invariant *)

\* The row, the files, the points, their visibility and the stores when p started.
RowThen(p) == before[p][1]
PlaceThen(p) == before[p][2]
PointsThen(p) == before[p][3]
HiddenThen(p) == before[p][4]
OthersThen(p) == before[p][5]

\* p at work with nothing beside it, and nothing of it gone wrong twice.
Own(p) == todo[p] # <<>> /\ alone[p]
Smooth == intact /\ ~lost

Recorded(p) ==
    /\ before[p] = <<RowThen(p), PlaceThen(p), PointsThen(p), HiddenThen(p), OthersThen(p)>>
    /\ PlaceThen(p) \in [Paths -> Content] /\ PointsThen(p) \in [PointIds -> Content]
    /\ HiddenThen(p) \subseteq {i \in PointIds : PointsThen(p)[i] # 0}

\* What is as it was: the row and the stores, the points, the files but those of S; and
\* what p has of it: the files of S in its trash, the points and the evidence in memory.
StoresAsThen(p) == row = RowThen(p) /\ others = OthersThen(p)
PointsAsThen(p) == points = PointsThen(p) /\ hidden = HiddenThen(p)
Found(p, S) == \A r \in Paths \ S : place[r] = PlaceThen(p)[r]
Moved(p, S) == \A r \in Paths : trash[p][r] = IF r \in S THEN PlaceThen(p)[r] ELSE 0
HadThen(p) == had[p] = [at |-> PointsThen(p), hidden |-> HiddenThen(p)]
KeptThen(p) == kept[p] = [evidence |-> PlaceThen(p)["evidence"], at |-> PointsThen(p)]

\* The points when k steps of their replacement are left: some of the new ones are
\* written, all are, the others are gone.
Replacing(p, k) ==
    /\ k >= 3 => PointsAsThen(p)
    /\ k \in {1, 2} => /\ HadThen(p) /\ hidden \subseteq HiddenThen(p)
                       /\ \A i \in PointIds \ PointsOf(made[p]) : points[i] = PointsThen(p)[i]
    /\ k = 1 => \A i \in PointsOf(made[p]) : points[i] = made[p] /\ i \notin hidden
    /\ k <= 0 => Whole(made[p])

\* What an operation has done when n of its steps are left.
OnUpload(p, n) ==
    /\ PlaceThen(p)["source"] = 0 /\ others = OthersThen(p) /\ PointsAsThen(p) /\ Moved(p, {})
    /\ IF n <= 1 THEN row ELSE row = RowThen(p)
    /\ Found(p, {"source"}) /\ place["source"] = IF n <= 2 THEN 1 ELSE 0

OnParse(p, n) ==
    /\ StoresAsThen(p) /\ PointsAsThen(p)
    /\ n >= 5 => Found(p, {})
    /\ n \in {3, 4} => Found(p, {"parsing"})
    /\ n = 2 => Found(p, {"parsing", "chunking"})
    /\ n >= 3 => Moved(p, {})
    /\ n = 2 => Moved(p, {"chunking"})
    /\ n \in 1..4 => backup[p] = PlaceThen(p)["parsing"]
    /\ n = 4 => place["parsing"] = 0
    /\ n <= 3 => place["parsing"] = made[p]
    /\ n <= 2 => place["chunking"] = 0
    /\ n <= 1 => place["evidence"] = 0

OnReparse(p, n) ==
    /\ StoresAsThen(p) /\ Replacing(p, n - 5)
    /\ n <= 9 => made[p] # 0
    /\ n <= 8 => KeptThen(p) /\ HiddenThen(p) = {}
    /\ n >= 5 => Found(p, {})
    /\ n = 4 => Found(p, {"evidence"})
    /\ n \in {2, 3} => Found(p, {"evidence", "parsing"})
    /\ n >= 2 => Moved(p, {})
    /\ n <= 4 => place["evidence"] = made[p]
    /\ n \in 1..3 => backup[p] = PlaceThen(p)["parsing"]
    /\ n = 3 => place["parsing"] = 0
    /\ n <= 2 => place["parsing"] = made[p]
    /\ n <= 1 => place["chunking"] = 0

OnBuild(p, n) ==
    /\ StoresAsThen(p) /\ Replacing(p, n) /\ made[p] # 0 /\ Moved(p, {})
    /\ n <= 4 => KeptThen(p)
    /\ n >= 4 => Found(p, {})
    /\ n <= 3 => Found(p, {"evidence"}) /\ place["evidence"] = made[p]

OnChunk(p, n) ==
    /\ StoresAsThen(p) /\ PointsAsThen(p) /\ made[p] = PlaceThen(p)["parsing"]
    /\ n >= 3 => Found(p, {})
    /\ n <= 2 => Found(p, {"chunking"})
    /\ n \in {1, 2} => backup[p] = PlaceThen(p)["chunking"]
    /\ n >= 2 => Moved(p, {})
    /\ n = 2 => place["chunking"] = 0
    /\ n <= 1 => place["chunking"] = made[p]

OnPublish(p, n) ==
    /\ made[p] # 0 /\ Replacing(p, n - 2)
    /\ n <= 6 => place["evidence"] = made[p]
    /\ n <= 5 => "text" \in others
    /\ n <= 1 => "sparse" \in others
    /\ n <= 0 => "visual" \in others

OnExtract(p, n) == PointsAsThen(p) /\ (n <= 0 => "graph" \in others)

\* The steps left when a path has been moved to the trash.
Turn == [source |-> 10, parsing |-> 9, chunking |-> 8, evidence |-> 7]
Gone(n) == {r \in Paths : n <= Turn[r]}
OnDelete(p, n) ==
    /\ \A r \in Gone(n) : place[r] = 0
    /\ Found(p, Gone(n))
    /\ n >= 2 => Moved(p, Gone(n))
    /\ n <= 1 => trash[p] = Nothing
    /\ IF n >= 5 THEN StoresAsThen(p) ELSE ~row
    /\ n >= 7 => hidden = HiddenThen(p)
    /\ n >= 3 => points = PointsThen(p)
    /\ n \in {5, 6} => HadThen(p) /\ HiddenThen(p) \subseteq hidden
    /\ n <= 5 => Visible = {}
    /\ n <= 3 => "graph" \notin others
    /\ n <= 2 => Stored = {}
    /\ n <= 0 => "text" \notin others

OnWay(p) ==
    LET n == Len(todo[p]) IN
    /\ op[p] = "upload" => OnUpload(p, n)
    /\ op[p] = "parse" => OnParse(p, n)
    /\ op[p] = "reparse" => OnReparse(p, n)
    /\ op[p] = "build" => OnBuild(p, n)
    /\ op[p] = "chunk" => OnChunk(p, n)
    /\ op[p] = "publish" => OnPublish(p, n)
    /\ op[p] = "extract" => OnExtract(p, n)
    /\ op[p] = "delete" => OnDelete(p, n)

\* What is still to be put back, by which of the steps left.
LabelsOf(s) == {s[i] : i \in 1..Len(s)}
Left(p) == LabelsOf(todo[p])
Pending(p, r) ==
    \/ r = "source" /\ "unplace" \in Left(p)
    \/ r = Target(p) /\ "unbackup" \in Left(p)
    \/ r = "evidence" /\ "unwrite" \in Left(p)
FilesBack(p) ==
    /\ \A r \in Paths :
         /\ trash[p][r] # 0 => "undo" \in Left(p) /\ place[r] = 0 /\ trash[p][r] = PlaceThen(p)[r]
         /\ Pending(p, r) => trash[p][r] = 0
         /\ trash[p][r] = 0 /\ ~Pending(p, r) => place[r] = PlaceThen(p)[r]
    /\ "unplace" \in Left(p) => PlaceThen(p)["source"] = 0
    /\ "unwrite" \in Left(p) => kept[p].evidence = PlaceThen(p)["evidence"]
    /\ "unbackup" \in Left(p) => /\ backup[p] = PlaceThen(p)[Target(p)]
                                 /\ "unpromote" \in Left(p) \/ place[Target(p)] = 0
PointsBack(p) ==
    /\ \A a, b \in {"repoint", "restore", "unhide", "show"} \cap Left(p) : a = b
    /\ "repoint" \in Left(p) => kept[p].at = PointsThen(p) /\ HiddenThen(p) = {}
    /\ "restore" \in Left(p) =>
         /\ HadThen(p)
         /\ \A i \in Stored : \/ i \in HadIds(p)
                              \/ "unstore" \in Left(p) /\ i \in PointsOf(made[p])
    /\ {"unhide", "show"} \cap Left(p) # {} => HadThen(p) /\ points = PointsThen(p)
    /\ {"repoint", "restore", "unhide", "show"} \cap Left(p) = {} => PointsAsThen(p)

\* Each compensating step comes once, and what depends on another comes before it.
Followed(s, a, b) == \A i \in 1..Len(s) : s[i] = a => \E j \in 1..Len(s) : i < j /\ s[j] = b
InOrder(s) ==
    /\ \A i, j \in 1..Len(s) : s[i] = s[j] => i = j
    /\ Followed(s, "unstore", "restore") /\ Followed(s, "unpromote", "unbackup")

BackSteps == {"unplace", "unpromote", "unbackup", "undo", "unstore", "restore", "repoint",
              "unwrite", "unhide", "show"}
Back(p) == StoresAsThen(p) /\ Left(p) \subseteq BackSteps /\ FilesBack(p) /\ PointsBack(p)

\* A publication that fails takes the points away, unless it has not come to them.
WithdrawSteps == {"unstore", "restore", "untext", "unpoint", "unsparse", "unvisual", "remove"}
Withdrawn(p) ==
    /\ Left(p) \subseteq WithdrawSteps
    /\ Followed(todo[p], "unstore", "unpoint") /\ Followed(todo[p], "restore", "unpoint")
    /\ "unpoint" \notin Left(p) => PointsAsThen(p) \/ Stored = {}

\* Where an operation is that nothing overlaps, also when it has just ended.
Course(p) ==
    /\ Recorded(p)
    /\ outcome[p] \in {"ok", "failed", "partial"}
    /\ Forward(p) => OnWay(p)
    /\ outcome[p] = "failed" =>
         /\ InOrder(todo[p])
         /\ op[p] \notin {"publish", "extract"} => Back(p)
         /\ op[p] = "publish" => Withdrawn(p)
         /\ op[p] = "extract" => todo[p] = <<>> /\ PointsAsThen(p)
    /\ outcome[p] = "partial" =>
         /\ todo[p] = <<>>
         /\ \/ op[p] = "upload" /\ PointsAsThen(p)
            \/ op[p] = "delete" /\ Visible = {}

CourseInv == \A p \in Procs : Own(p) /\ Smooth => Alone(p) /\ Course(p)

\* Every process has a record of its last start; before the first one there is nothing.
FreshInv ==
    /\ DOMAIN before = Procs
    /\ started = 0 => place = Nothing /\ ~row /\ \A p \in Procs : todo[p] = <<>>

OneOrNone(at, hid) ==
    LET seen == {i \in PointIds : at[i] # 0} \ hid IN
    seen = {} \/ \E v \in Versions : /\ seen = PointsOf(v)
                                     /\ \A i \in PointIds : at[i] = IF i \in PointsOf(v) THEN v ELSE 0
GenerationInv ==
    Smooth /\ overlapped = "none" =>
        /\ \A p \in Busy : alone[p] /\ OneOrNone(PointsThen(p), HiddenThen(p))
        /\ Busy = {} => OneOrNone(points, hidden)

-----------------------------------------------------------------------------
(* How a process moves while nothing of it goes wrong twice *)

\* p goes on, stops and turns to compensate, or stays where it is.
Goes(p) == todo'[p] = Tail(todo[p]) /\ outcome'[p] = outcome[p]
Stops(p) == /\ Forward(p) /\ todo'[p] = Undo(op[p], Head(todo[p]))
            /\ outcome'[p] = IF Head(todo[p]) \in Settled THEN "partial" ELSE "failed"
Waits(p) == todo'[p] = todo[p] /\ outcome'[p] = outcome[p]

LEMMA OwnMoves ==
    ASSUME TypeOK, NEW p \in Procs, intact'
    PROVE  /\ Succeed(p) => Goes(p)
           /\ Raise(p) => Stops(p)
           /\ Stay => Waits(p)
           /\ \A n \in Nat : ~Miss(p, n)
  BY DEF TypeOK, Succeed, Raise, Stay, Miss, Goes, Stops, Waits, control

\* What is left when a step is done: the other labels, in the same order.
LEMMA LeftTail ==
    ASSUME NEW s \in Seq(Steps), s # <<>>, InOrder(s)
    PROVE  /\ Head(s) \in LabelsOf(s)
           /\ LabelsOf(Tail(s)) = LabelsOf(s) \ {Head(s)}
           /\ InOrder(Tail(s))
           /\ Head(s) = "restore" => "unstore" \notin LabelsOf(s)
           /\ Head(s) = "unbackup" => "unpromote" \notin LabelsOf(s)
           /\ "unstore" \in LabelsOf(s) => "restore" \in LabelsOf(s)
           /\ "unpromote" \in LabelsOf(s) => "unbackup" \in LabelsOf(s)
           /\ \A a, b \in Steps : Followed(s, a, b) =>
                /\ Followed(Tail(s), a, b)
                /\ Head(s) = b => a \notin LabelsOf(s)
                /\ a \in LabelsOf(s) => b \in LabelsOf(s)
<1>1. Len(s) \in Nat /\ Len(s) >= 1 /\ Head(s) = s[1]
  BY EmptySeq, LenProperties
<1>2. /\ Tail(s) \in Seq(Steps) /\ Len(Tail(s)) = Len(s) - 1
      /\ \A i \in 1..Len(Tail(s)) : Tail(s)[i] = s[i + 1]
  BY HeadTailProperties
<1>3. \A i, j \in 1..Len(s) : s[i] = s[j] => i = j
  BY DEF InOrder
<1>4. 1 \in 1..Len(s)
  BY <1>1
<1>5. LabelsOf(Tail(s)) = LabelsOf(s) \ {Head(s)}
  <2>1. ASSUME NEW x \in LabelsOf(Tail(s)) PROVE x \in LabelsOf(s) \ {Head(s)}
    <3>1. PICK i \in 1..Len(Tail(s)) : x = Tail(s)[i]
      BY DEF LabelsOf
    <3>2. i + 1 \in 1..Len(s) /\ i + 1 # 1 /\ x = s[i + 1]
      BY <1>1, <1>2, <3>1
    <3> QED BY <1>1, <1>3, <1>4, <3>2 DEF LabelsOf
  <2>2. ASSUME NEW x \in LabelsOf(s), x # Head(s) PROVE x \in LabelsOf(Tail(s))
    <3>1. PICK i \in 1..Len(s) : x = s[i]
      BY DEF LabelsOf
    <3>2. i # 1
      BY <1>1, <2>2, <3>1
    <3>3. i - 1 \in 1..Len(Tail(s)) /\ (i - 1) + 1 = i
      BY <1>1, <1>2, <3>2
    <3>4. x = Tail(s)[i - 1]
      BY <1>2, <3>1, <3>3
    <3> QED BY <3>3, <3>4 DEF LabelsOf
  <2> QED BY <2>1, <2>2
<1>6. ASSUME NEW a \in Steps, NEW b \in Steps, Followed(s, a, b)
      PROVE  /\ Followed(Tail(s), a, b)
             /\ Head(s) = b => a \notin LabelsOf(s)
             /\ a \in LabelsOf(s) => b \in LabelsOf(s)
  <2>1. ASSUME NEW i \in 1..Len(Tail(s)), Tail(s)[i] = a
        PROVE  \E j \in 1..Len(Tail(s)) : i < j /\ Tail(s)[j] = b
    <3>1. i + 1 \in 1..Len(s) /\ s[i + 1] = a
      BY <1>1, <1>2, <2>1
    <3>2. PICK k \in 1..Len(s) : i + 1 < k /\ s[k] = b
      BY <1>6, <3>1 DEF Followed
    <3>3. k - 1 \in 1..Len(Tail(s)) /\ i < k - 1 /\ (k - 1) + 1 = k
      BY <1>1, <1>2, <3>1, <3>2
    <3>4. Tail(s)[k - 1] = b
      BY <1>2, <3>2, <3>3
    <3> QED BY <3>3, <3>4
  <2>2. ASSUME Head(s) = b, a \in LabelsOf(s) PROVE FALSE
    <3>1. PICK i \in 1..Len(s) : s[i] = a
      BY <2>2 DEF LabelsOf
    <3>2. PICK j \in 1..Len(s) : i < j /\ s[j] = b
      BY <1>6, <3>1 DEF Followed
    <3>3. j = 1
      BY <1>1, <1>3, <1>4, <2>2, <3>2
    <3> QED BY <1>1, <3>1, <3>2, <3>3
  <2>3. a \in LabelsOf(s) => b \in LabelsOf(s)
    BY <1>6 DEF Followed, LabelsOf
  <2> QED BY <2>1, <2>2, <2>3 DEF Followed
<1>7. \A i, j \in 1..Len(Tail(s)) : Tail(s)[i] = Tail(s)[j] => i = j
  <2> SUFFICES ASSUME NEW i \in 1..Len(Tail(s)), NEW j \in 1..Len(Tail(s)), Tail(s)[i] = Tail(s)[j]
               PROVE  i = j
    OBVIOUS
  <2>1. i + 1 \in 1..Len(s) /\ j + 1 \in 1..Len(s) /\ s[i + 1] = s[j + 1]
    BY <1>1, <1>2
  <2>2. i + 1 = j + 1
    BY <1>3, <2>1
  <2> QED BY <1>1, <1>2, <2>2
<1>8. Followed(s, "unstore", "restore") /\ Followed(s, "unpromote", "unbackup")
  BY DEF InOrder
<1>9. {"unstore", "restore", "unpromote", "unbackup"} \subseteq Steps
  BY DEF Steps
<1>10. InOrder(Tail(s))
  BY <1>6, <1>7, <1>8, <1>9 DEF InOrder
<1>11. Head(s) \in LabelsOf(s)
  BY <1>1, <1>4 DEF LabelsOf
<1> QED BY <1>5, <1>6, <1>8, <1>9, <1>10, <1>11

\* The compensations, each with its labels and their order.
Compensating(s, L) == InOrder(s) /\ LabelsOf(s) = L

LEMMA ShortCompensations ==
    /\ Compensating(<<>>, {})
    /\ Compensating(<<"unplace">>, {"unplace"})
    /\ Compensating(<<"unbackup">>, {"unbackup"})
    /\ Compensating(<<"unwrite">>, {"unwrite"})
    /\ Compensating(<<"undo">>, {"undo"})
    /\ Compensating(UndoReplace, {"unstore", "restore"})
    /\ Compensating(<<"repoint", "unwrite">>, {"repoint", "unwrite"})
    /\ Compensating(<<"unhide", "undo">>, {"unhide", "undo"})
    /\ Compensating(<<"undo", "show">>, {"undo", "show"})
    /\ Compensating(<<"untext", "remove">>, {"untext", "remove"})
<1>1. Compensating(<<>>, {})
  BY DEF Compensating, InOrder, Followed, LabelsOf
<1>2. ASSUME NEW a, a \notin {"unstore", "unpromote"} PROVE Compensating(<<a>>, {a})
  BY <1>2 DEF Compensating, InOrder, Followed, LabelsOf
<1>3. Compensating(UndoReplace, {"unstore", "restore"})
  BY DEF Compensating, InOrder, Followed, LabelsOf, UndoReplace
<1>4. ASSUME NEW a, NEW b, a # b, a \notin {"unstore", "unpromote"}, b \notin {"unstore", "unpromote"}
      PROVE  Compensating(<<a, b>>, {a, b})
  BY <1>4 DEF Compensating, InOrder, Followed, LabelsOf
<1> QED BY <1>1, <1>2, <1>3, <1>4

LEMMA LongCompensations ==
    /\ Compensating(UndoPromote \o <<"undo">>, {"unpromote", "unbackup", "undo"})
    /\ Compensating(<<"unbackup", "repoint", "unwrite">>, {"unbackup", "repoint", "unwrite"})
    /\ Compensating(<<"repoint", "unwrite">> \o UndoPromote,
                    {"repoint", "unwrite", "unpromote", "unbackup"})
    /\ Compensating(UndoReplace \o <<"unwrite">>, {"unstore", "restore", "unwrite"})
<1>1. Compensating(UndoPromote \o <<"undo">>, {"unpromote", "unbackup", "undo"})
  BY DEF Compensating, InOrder, Followed, LabelsOf, UndoPromote
<1>2. Compensating(<<"unbackup", "repoint", "unwrite">>, {"unbackup", "repoint", "unwrite"})
  BY DEF Compensating, InOrder, Followed, LabelsOf
<1>3. Compensating(<<"repoint", "unwrite">> \o UndoPromote,
                   {"repoint", "unwrite", "unpromote", "unbackup"})
  BY DEF Compensating, InOrder, Followed, LabelsOf, UndoPromote
<1>4. Compensating(UndoReplace \o <<"unwrite">>, {"unstore", "restore", "unwrite"})
  BY DEF Compensating, InOrder, Followed, LabelsOf, UndoReplace
<1> QED BY <1>1, <1>2, <1>3, <1>4

\* Those of a publication: the points are removed after what would restore them.
Withdrawing(s) ==
    /\ InOrder(s) /\ LabelsOf(s) \subseteq WithdrawSteps
    /\ Followed(s, "unstore", "unpoint") /\ Followed(s, "restore", "unpoint")

LEMMA WithdrawingCompensations ==
    /\ Withdrawing(<<>>)
    /\ Withdrawing(<<"untext", "remove">>)
    /\ \A s \in {<<"untext", "unpoint", "remove">>, UndoReplace \o <<"untext", "unpoint", "remove">>,
                 <<"untext", "unpoint", "unsparse", "remove">>,
                 <<"untext", "unpoint", "unsparse", "unvisual", "remove">>} :
         Withdrawing(s) /\ "unpoint" \in LabelsOf(s)
<1>1. /\ Withdrawing(UndoReplace \o <<"untext", "unpoint", "remove">>)
      /\ "unpoint" \in LabelsOf(UndoReplace \o <<"untext", "unpoint", "remove">>)
  BY DEF Withdrawing, WithdrawSteps, InOrder, Followed, LabelsOf, UndoReplace
<1>2. Withdrawing(<<>>) /\ Withdrawing(<<"untext", "remove">>)
  BY DEF Withdrawing, WithdrawSteps, InOrder, Followed, LabelsOf
<1>3. \A s \in {<<"untext", "unpoint", "remove">>, <<"untext", "unpoint", "unsparse", "remove">>} :
         Withdrawing(s) /\ "unpoint" \in LabelsOf(s)
  BY DEF Withdrawing, WithdrawSteps, InOrder, Followed, LabelsOf
<1>4. /\ Withdrawing(<<"untext", "unpoint", "unsparse", "unvisual", "remove">>)
      /\ "unpoint" \in LabelsOf(<<"untext", "unpoint", "unsparse", "unvisual", "remove">>)
  BY DEF Withdrawing, WithdrawSteps, InOrder, Followed, LabelsOf
<1> QED BY <1>1, <1>2, <1>3, <1>4
-----------------------------------------------------------------------------
(* What a step does to what its process works on *)

SameFiles(p) == /\ place' = place /\ trash'[p] = trash[p] /\ backup'[p] = backup[p]
                /\ made'[p] = made[p]
SameIndex == points' = points /\ hidden' = hidden
SameMemory(p) == had'[p] = had[p] /\ kept'[p] = kept[p]
SameStores == row' = row /\ others' = others

\* Only the path r changes, to v.
Placed(r, v) == \A x \in Paths : place'[x] = IF x = r THEN v ELSE place[x]

\* The action of each label, and what it leaves alone.
LEMMA FileStepAt ==
    ASSUME NEW p \in Procs, Step(p),
           Head(todo[p]) \in Paths \cup {"store", "unplace", "undo", "purge", "discard", "run", "backup",
                                         "promote", "unpromote", "unbackup", "write", "unwrite", "remove"}
    PROVE  /\ SameIndex /\ SameMemory(p) /\ SameStores
           /\ Head(todo[p]) = "store" => StoreSource(p)
           /\ Head(todo[p]) = "unplace" => Unplace(p)
           /\ Head(todo[p]) \in Paths => MoveToTrash(p, Head(todo[p]))
           /\ Head(todo[p]) = "undo" => RestoreFromTrash(p)
           /\ Head(todo[p]) \in {"purge", "discard"} => RemoveTrash(p)
           /\ Head(todo[p]) = "run" => RunParser(p)
           /\ Head(todo[p]) = "backup" => Backup(p)
           /\ Head(todo[p]) = "promote" => Promote(p)
           /\ Head(todo[p]) = "unpromote" => Unpromote(p)
           /\ Head(todo[p]) = "unbackup" => Unbackup(p)
           /\ Head(todo[p]) = "write" => WriteEvidence(p)
           /\ Head(todo[p]) \in {"unwrite", "remove"} => RestoreEvidence(p)
<1> Paths = {"source", "parsing", "chunking", "evidence"}
  BY DEF Paths
<1>1. FileStep(p) /\ UNCHANGED <<row, points, hidden, others, had, kept>>
  BY StepFrame, ActionLabels DEF IndexStep, RowStep
<1> QED BY <1>1, ActionLabels DEF FileStep, SameIndex, SameMemory, SameStores

LEMMA IndexStepAt ==
    ASSUME NEW p \in Procs, Step(p),
           Head(todo[p]) \in {"upsert", "stale", "unstore", "restore", "repoint", "hide", "unhide",
                              "show", "unpoint"}
    PROVE  /\ SameFiles(p) /\ SameMemory(p) /\ SameStores
           /\ Head(todo[p]) = "upsert" => Upsert(p)
           /\ Head(todo[p]) = "stale" => DeleteStale(p)
           /\ Head(todo[p]) = "unstore" => Unstore(p)
           /\ Head(todo[p]) = "restore" => RestorePoints(p)
           /\ Head(todo[p]) = "repoint" => Repoint(p)
           /\ Head(todo[p]) = "hide" => Quarantine(p)
           /\ Head(todo[p]) \in {"unhide", "show"} => RestoreVisibility(p)
           /\ Head(todo[p]) = "unpoint" => DeletePoints(p)
<1> Paths = {"source", "parsing", "chunking", "evidence"}
  BY DEF Paths
<1>1. IndexStep(p) /\ UNCHANGED <<row, place, trash, backup, made, others, had, kept>>
  BY StepFrame, ActionLabels DEF FileStep, RowStep
<1> QED BY <1>1, ActionLabels DEF IndexStep, SameFiles, SameMemory, SameStores

LEMMA OtherStepAt ==
    ASSUME NEW p \in Procs, Step(p),
           Head(todo[p]) \in {"scan", "snapshot", "check", "text", "sparse", "visual", "graph", "untext",
                              "unsparse", "unvisual", "ungraph", "lookup", "insert", "refresh", "commit"}
    PROVE  /\ SameFiles(p) /\ SameIndex
           /\ Head(todo[p]) \in {"scan", "snapshot"} => Scan(p) /\ SameStores
           /\ Head(todo[p]) = "check" => Check(p) /\ SameStores
           /\ Head(todo[p]) \in {"text", "sparse", "visual", "graph"} =>
                WriteStore(p) /\ SameMemory(p) /\ row' = row
           /\ Head(todo[p]) \in {"untext", "unsparse", "unvisual", "ungraph"} =>
                ClearStore(p) /\ SameMemory(p) /\ row' = row
           /\ Head(todo[p]) = "lookup" => Lookup(p) /\ SameMemory(p) /\ SameStores
           /\ Head(todo[p]) = "insert" => Insert(p) /\ SameMemory(p) /\ others' = others
           /\ Head(todo[p]) = "refresh" => Refresh(p) /\ SameMemory(p) /\ SameStores
           /\ Head(todo[p]) = "commit" => DeleteRow(p) /\ SameMemory(p) /\ others' = others
<1> Paths = {"source", "parsing", "chunking", "evidence"}
  BY DEF Paths
<1>1. UNCHANGED <<place, trash, backup, made, points, hidden>>
  BY StepFrame, ActionLabels DEF FileStep, IndexStep
<1>2. \/ (Scan(p) \/ Check(p)) /\ UNCHANGED <<row, others>>
      \/ (WriteStore(p) \/ ClearStore(p)) /\ UNCHANGED <<row, had, kept>>
      \/ RowStep(p) /\ UNCHANGED <<others, had, kept>>
  BY StepFrame, ActionLabels DEF FileStep, IndexStep
<1> QED BY <1>1, <1>2, ActionLabels
            DEF RowStep, Lookup, Refresh, SameFiles, SameIndex, SameMemory, SameStores

OnlyFiles(p) == SameIndex /\ SameMemory(p) /\ SameStores
OnlyPlace(p) == OnlyFiles(p) /\ UNCHANGED <<trash[p], backup[p], made[p]>>
OnlyIndex(p) == SameFiles(p) /\ SameMemory(p) /\ SameStores
OnlyStores(p) == SameFiles(p) /\ SameIndex /\ SameMemory(p)

\* What the steps on files do when no compensation fails.
LEMMA TrashEffect ==
    ASSUME TypeOK, NEW p \in Procs, Step(p), Smooth', NEW r \in Paths, Head(todo[p]) = r
    PROVE  /\ OnlyFiles(p) /\ UNCHANGED <<backup[p], made[p]>>
           /\ \/ Goes(p) /\ place[r] = 0 /\ r # "source" /\ SameFiles(p)
              \/ /\ Goes(p) /\ place[r] # 0 /\ Placed(r, 0)
                 /\ \A x \in Paths : trash'[p][x] = IF x = r THEN place[r] ELSE trash[p][x]
              \/ Stops(p) /\ SameFiles(p)
<1>1. MoveToTrash(p, r) /\ OnlyFiles(p)
  BY FileStepAt DEF OnlyFiles
<1>2. /\ place \in [Paths -> Content] /\ trash \in [Procs -> [Paths -> Content]]
  BY DEF TypeOK
<1>3. Move(p, r) => /\ Placed(r, 0) /\ backup' = backup
                    /\ \A x \in Paths : trash'[p][x] = IF x = r THEN place[r] ELSE trash[p][x]
  BY <1>2 DEF Move, Placed
<1> QED BY <1>1, <1>3, OwnMoves DEF MoveToTrash, NoFile, Refuse, Fail, SameFiles, Smooth

LEMMA UndoEffect ==
    ASSUME TypeOK, NEW p \in Procs, Step(p), Smooth', Head(todo[p]) = "undo"
    PROVE  /\ OnlyFiles(p) /\ UNCHANGED <<backup[p], made[p]>>
           /\ \/ Goes(p) /\ SameFiles(p) /\ \A r \in Paths : trash[p][r] = 0
              \/ \E r \in Paths :
                   /\ Waits(p) /\ trash[p][r] # 0 /\ place[r] = 0 /\ Placed(r, trash[p][r])
                   /\ \A x \in Paths : trash'[p][x] = IF x = r THEN 0 ELSE trash[p][x]
<1>1. RestoreFromTrash(p) /\ OnlyFiles(p)
  BY FileStepAt DEF OnlyFiles
<1>2. /\ place \in [Paths -> Content] /\ trash \in [Procs -> [Paths -> Content]]
      /\ Paths = {"source", "parsing", "chunking", "evidence"}
  BY DEF TypeOK, Paths
<1>3. CASE Held(p) = {}
  BY <1>1, <1>2, <1>3, OwnMoves DEF RestoreFromTrash, NoFile, SameFiles, Held, Smooth
<1>4. CASE Held(p) # {}
  <2>1. Latest(p) \in Paths /\ trash[p][Latest(p)] # 0
    BY <1>2, <1>4 DEF Latest, Held
  <2> DEFINE r == Latest(p)
  <2>2. /\ place[r] = 0 /\ place' = [place EXCEPT ![r] = trash[p][r]] /\ Forget(p, r) /\ Stay
        /\ UNCHANGED <<made, lastVersion>>
    BY <1>1, <1>4, OwnMoves DEF RestoreFromTrash, Smooth
  <2> HIDE DEF r
  <2>3. \A x \in Paths : trash'[p][x] = IF x = r THEN 0 ELSE trash[p][x]
    BY <1>2, <2>2 DEF Forget
  <2>4. Placed(r, trash[p][r]) /\ backup' = backup /\ Waits(p)
    BY <1>2, <2>2, OwnMoves DEF Placed, Forget, Smooth
  <2>5. r \in Paths /\ trash[p][r] # 0
    BY <2>1 DEF r
  <2> QED BY <1>1, <2>2, <2>3, <2>4, <2>5
<1> QED BY <1>3, <1>4

LEMMA FileEffects ==
    ASSUME TypeOK, NEW p \in Procs, Step(p), Smooth'
    PROVE  /\ Head(todo[p]) = "store" =>
                OnlyPlace(p) /\ ((Goes(p) /\ Placed("source", 1)) \/ (Stops(p) /\ place' = place))
           /\ Head(todo[p]) = "unplace" => OnlyPlace(p) /\ Goes(p) /\ Placed("source", 0)
           /\ Head(todo[p]) \in {"purge", "discard"} =>
                /\ OnlyFiles(p) /\ place' = place /\ made'[p] = made[p]
                /\ \/ Goes(p) /\ trash'[p] = Nothing
                   \/ Stops(p) /\ Head(todo[p]) = "purge" /\ SameFiles(p)
           /\ Head(todo[p]) = "run" =>
                /\ OnlyFiles(p) /\ UNCHANGED <<place, trash[p], backup[p]>>
                /\ (Goes(p) /\ made'[p] # 0) \/ (Stops(p) /\ SameFiles(p))
           /\ Head(todo[p]) = "backup" =>
                /\ OnlyFiles(p) /\ UNCHANGED <<trash[p], made[p]>>
                /\ \/ Goes(p) /\ Placed(Target(p), 0) /\ backup'[p] = place[Target(p)]
                   \/ Stops(p) /\ SameFiles(p)
           /\ Head(todo[p]) = "promote" =>
                OnlyPlace(p) /\ ((Goes(p) /\ Placed(Target(p), made[p])) \/ (Stops(p) /\ place' = place))
           /\ Head(todo[p]) = "unpromote" => OnlyPlace(p) /\ Goes(p) /\ Placed(Target(p), 0)
           /\ Head(todo[p]) = "unbackup" =>
                /\ OnlyPlace(p) /\ Goes(p)
                /\ \/ backup[p] = 0 /\ place' = place
                   \/ place[Target(p)] = 0 /\ Placed(Target(p), backup[p])
           /\ Head(todo[p]) = "write" =>
                OnlyPlace(p) /\ ((Goes(p) /\ Placed("evidence", made[p])) \/ (Stops(p) /\ place' = place))
           /\ Head(todo[p]) = "unwrite" =>
                OnlyPlace(p) /\ Goes(p) /\ Placed("evidence", kept[p].evidence)
           /\ Head(todo[p]) = "remove" => OnlyPlace(p) /\ Goes(p)
<1> USE DEF Smooth, OnlyPlace, OnlyFiles
<1>1. /\ place \in [Paths -> Content] /\ Target(p) \in Paths
      /\ backup \in [Procs -> Content] /\ made \in [Procs -> Content]
      /\ trash \in [Procs -> [Paths -> Content]]
      /\ Paths = {"source", "parsing", "chunking", "evidence"}
  BY DEF TypeOK, Paths, Target
<1>2. \A r \in Paths, v \in Nat : Put(r, v) => Placed(r, v) /\ UNCHANGED <<trash[p], backup[p]>>
  BY <1>1 DEF Put, Placed
<1>3. NoFile => UNCHANGED <<place, trash[p], backup[p]>>
  BY DEF NoFile
<1>4. /\ Succeed(p) => Goes(p)
      /\ Refuse(p) \/ Fail(p) => Stops(p)
      /\ ~Slip(p, 1) /\ ~Slip(p, 2) /\ ~Miss(p, 1)
  BY OwnMoves DEF Refuse, Fail, Slip
<1>5. Content \subseteq Nat /\ made[p] \in Nat /\ backup[p] \in Nat /\ kept[p].evidence \in Nat
  BY LifecycleAssumption DEF TypeOK, Content
<1>6. CASE Head(todo[p]) = "store"
  BY <1>1, <1>2, <1>3, <1>4, <1>6, FileStepAt DEF StoreSource
<1>7. CASE Head(todo[p]) = "unplace"
  BY <1>1, <1>2, <1>3, <1>4, <1>7, FileStepAt DEF Unplace
<1>8. CASE Head(todo[p]) \in {"purge", "discard"}
  BY <1>1, <1>3, <1>4, <1>8, FileStepAt DEF RemoveTrash, SameFiles, At
<1>9. CASE Head(todo[p]) = "run"
  <2>1. RunParser(p) /\ OnlyFiles(p)
    BY <1>9, FileStepAt
  <2>2. lastVersion + 1 # 0
    BY <1>5 DEF TypeOK
  <2> QED BY <1>1, <1>3, <1>4, <1>9, <2>1, <2>2 DEF RunParser, SameFiles
<1>10. CASE Head(todo[p]) = "backup"
  BY <1>1, <1>3, <1>4, <1>10, FileStepAt DEF Backup, SameFiles, Placed
<1>11. CASE Head(todo[p]) = "promote"
  BY <1>1, <1>2, <1>3, <1>4, <1>5, <1>11, FileStepAt DEF Promote
<1>12. CASE Head(todo[p]) = "unpromote"
  BY <1>1, <1>2, <1>3, <1>4, <1>12, FileStepAt DEF Unpromote
<1>13. CASE Head(todo[p]) = "unbackup"
  BY <1>1, <1>2, <1>3, <1>4, <1>5, <1>13, FileStepAt DEF Unbackup
<1>14. CASE Head(todo[p]) = "write"
  BY <1>1, <1>2, <1>3, <1>4, <1>5, <1>14, FileStepAt DEF WriteEvidence
<1>15. CASE Head(todo[p]) \in {"unwrite", "remove"}
  <2>1. RestoreEvidence(p) /\ OnlyFiles(p)
    BY <1>15, FileStepAt
  <2>2. At(p, "unwrite") <=> Head(todo[p]) = "unwrite"
    BY <2>1 DEF RestoreEvidence, At
  <2> QED BY <1>1, <1>2, <1>3, <1>4, <1>5, <1>15, <2>1, <2>2 DEF RestoreEvidence
<1> QED BY <1>6, <1>7, <1>8, <1>9, <1>10, <1>11, <1>12, <1>13, <1>14, <1>15

\* What the steps on points do.
LEMMA IndexEffects ==
    ASSUME TypeOK, NEW p \in Procs, Step(p), Smooth'
    PROVE  /\ Head(todo[p]) = "upsert" =>
                /\ OnlyIndex(p)
                /\ \/ /\ Goes(p) /\ SameIndex
                      /\ \A i \in PointsOf(made[p]) : points[i] = made[p] /\ i \notin hidden
                   \/ /\ Waits(p) \/ Stops(p)
                      /\ SameIndex \/ \E i \in PointsOf(made[p]) : Write(i, made[p])
           /\ Head(todo[p]) = "stale" =>
                /\ OnlyIndex(p)
                /\ \/ Goes(p) /\ Remove(HadIds(p) \ PointsOf(made[p]))
                   \/ Stops(p) /\ (SameIndex \/ Remove(HadIds(p) \ PointsOf(made[p])))
           /\ Head(todo[p]) = "unstore" =>
                OnlyIndex(p) /\ Goes(p) /\ Remove(PointsOf(made[p]) \ HadIds(p))
           /\ Head(todo[p]) = "restore" => OnlyIndex(p) /\ Goes(p) /\ Rewrite(HadIds(p), had[p])
           /\ Head(todo[p]) = "repoint" =>
                OnlyIndex(p) /\ Goes(p) /\ Rewrite(PointIds, [at |-> kept[p].at, hidden |-> {}])
           /\ Head(todo[p]) = "hide" =>
                /\ OnlyIndex(p) /\ points' = points
                /\ \/ Goes(p) /\ SameIndex /\ (HadIds(p) \ had[p].hidden) \cap Visible = {}
                   \/ (Waits(p) \/ Stops(p)) /\ hidden \subseteq hidden' /\ hidden' \subseteq Stored
           /\ Head(todo[p]) \in {"unhide", "show"} =>
                /\ OnlyIndex(p) /\ Goes(p) /\ points' = points
                /\ hidden' = (hidden \ (HadIds(p) \ had[p].hidden)) \cup (had[p].hidden \cap Stored)
           /\ Head(todo[p]) = "unpoint" =>
                /\ OnlyIndex(p)
                /\ \/ Goes(p) /\ Remove(PointIds)
                   \/ Stops(p) /\ (SameIndex \/ Remove(PointIds))
<1> USE DEF Smooth, OnlyIndex
<1>1. /\ Succeed(p) => Goes(p)
      /\ Fail(p) => Stops(p)
      /\ Stay => Waits(p)
      /\ \A n \in Nat : ~Slip(p, n) /\ ~Miss(p, n)
  BY OwnMoves DEF Fail, Slip
<1>2. Len(todo[p]) \in Nat
  BY LenProperties DEF TypeOK
<1>3. NoCall => SameIndex
  BY DEF NoCall, SameIndex
<1>4. CASE Head(todo[p]) = "upsert"
  <2>1. Upsert(p) /\ OnlyIndex(p)
    BY <1>4, IndexStepAt
  <2> QED BY <1>1, <1>3, <1>4, <2>1 DEF Upsert
<1>5. CASE Head(todo[p]) \in {"stale", "unpoint"}
  <2>1. OnlyIndex(p)
    BY <1>5, IndexStepAt
  <2>3. Head(todo[p]) = "stale" =>
          \/ Goes(p) /\ Remove(HadIds(p) \ PointsOf(made[p]))
          \/ Stops(p) /\ (SameIndex \/ Remove(HadIds(p) \ PointsOf(made[p])))
    BY <1>1, <1>2, <1>3, IndexStepAt DEF DeleteStale, Call
  <2>4. Head(todo[p]) = "unpoint" =>
          \/ Goes(p) /\ Remove(PointIds)
          \/ Stops(p) /\ (SameIndex \/ Remove(PointIds))
    BY <1>1, <1>2, <1>3, IndexStepAt DEF DeletePoints, Call
  <2> QED BY <1>5, <2>1, <2>3, <2>4
<1>6. CASE Head(todo[p]) = "unstore"
  BY <1>1, <1>6, IndexStepAt DEF Unstore
<1>7. CASE Head(todo[p]) = "restore"
  BY <1>1, <1>7, IndexStepAt DEF RestorePoints
<1>8. CASE Head(todo[p]) = "repoint"
  BY <1>1, <1>8, IndexStepAt DEF Repoint
<1>9. CASE Head(todo[p]) = "hide"
  <2>1. Quarantine(p) /\ OnlyIndex(p)
    BY <1>9, IndexStepAt
  <2>2. hidden \subseteq Stored
    BY DEF TypeOK
  <2>3. ASSUME NEW i, Hide({i})
        PROVE  points' = points /\ hidden \subseteq hidden' /\ hidden' \subseteq Stored
    BY <2>2, <2>3 DEF Hide
  <2> QED BY <1>1, <1>3, <1>9, <2>1, <2>2, <2>3 DEF Quarantine, SameIndex
<1>10. CASE Head(todo[p]) \in {"unhide", "show"}
  BY <1>1, <1>10, IndexStepAt DEF RestoreVisibility
<1> QED BY <1>4, <1>5, <1>6, <1>7, <1>8, <1>9, <1>10

\* What the others do: reading, other stores, the row.
LEMMA OtherEffects ==
    ASSUME TypeOK, NEW p \in Procs, Step(p), Smooth'
    PROVE  /\ Head(todo[p]) \in {"scan", "snapshot"} =>
                /\ SameFiles(p) /\ SameIndex /\ SameStores /\ kept'[p] = kept[p]
                /\ \/ Goes(p) /\ had'[p] = [at |-> points, hidden |-> hidden]
                   \/ Stops(p)
           /\ Head(todo[p]) = "check" =>
                /\ SameFiles(p) /\ SameIndex /\ SameStores /\ had'[p] = had[p]
                /\ \/ /\ Goes(p) /\ Recoverable(p)
                      /\ kept'[p] = [evidence |-> place["evidence"], at |-> points]
                   \/ Stops(p)
           /\ Head(todo[p]) \in {"text", "sparse", "visual", "graph"} =>
                /\ OnlyStores(p) /\ row' = row
                /\ (Goes(p) /\ others' = others \cup {Head(todo[p])}) \/ Stops(p)
           /\ Head(todo[p]) \in {"untext", "unsparse", "unvisual", "ungraph"} =>
                /\ OnlyStores(p) /\ row' = row
                /\ (Goes(p) /\ others' = others \ {Cleared[Head(todo[p])]}) \/ Stops(p)
           /\ Head(todo[p]) = "lookup" => OnlyStores(p) /\ SameStores /\ (Goes(p) \/ Stops(p))
           /\ Head(todo[p]) = "insert" =>
                OnlyStores(p) /\ others' = others /\ ((Goes(p) /\ row') \/ (Stops(p) /\ row' = row))
           /\ Head(todo[p]) = "refresh" => OnlyStores(p) /\ SameStores /\ (Goes(p) \/ Stops(p))
           /\ Head(todo[p]) = "commit" =>
                OnlyStores(p) /\ others' = others /\ ((Goes(p) /\ ~row') \/ (Stops(p) /\ row' = row))
<1> USE DEF Smooth, OnlyStores
<1>1. /\ Succeed(p) => Goes(p)
      /\ Fail(p) \/ Refuse(p) => Stops(p)
      /\ \A n \in Nat : ~Slip(p, n)
  BY OwnMoves DEF Fail, Slip, Refuse
<1>2. Len(todo[p]) \in Nat
  BY LenProperties DEF TypeOK
<1>3. CASE Head(todo[p]) \in {"scan", "snapshot"}
  BY <1>1, <1>3, OtherStepAt DEF Scan, TypeOK
<1>4. CASE Head(todo[p]) = "check"
  BY <1>1, <1>4, OtherStepAt DEF Check, TypeOK
<1>5. CASE Head(todo[p]) \in {"text", "sparse", "visual", "graph"}
  BY <1>1, <1>5, OtherStepAt DEF WriteStore, At
<1>6. CASE Head(todo[p]) \in {"untext", "unsparse", "unvisual", "ungraph"}
  BY <1>1, <1>2, <1>6, OtherStepAt DEF ClearStore, At
<1>7. CASE Head(todo[p]) = "lookup"
  BY <1>1, <1>7, OtherStepAt DEF Lookup
<1>8. CASE Head(todo[p]) = "insert"
  BY <1>1, <1>8, OtherStepAt DEF Insert
<1>9. CASE Head(todo[p]) = "refresh"
  BY <1>1, <1>9, OtherStepAt DEF Refresh
<1>10. CASE Head(todo[p]) = "commit"
  BY <1>1, <1>10, OtherStepAt DEF DeleteRow
<1> QED BY <1>3, <1>4, <1>5, <1>6, <1>7, <1>8, <1>9, <1>10
-----------------------------------------------------------------------------
(* An operation that goes forward, or turns to compensate *)

\* What the process has recorded stays.
LEMMA RecordStays ==
    ASSUME NEW p \in Procs, Step(p)
    PROVE  /\ op' = op /\ before' = before /\ alone' = alone /\ overlapped' = overlapped
           /\ started' = started
           /\ RowThen(p)' = RowThen(p) /\ PlaceThen(p)' = PlaceThen(p)
           /\ PointsThen(p)' = PointsThen(p) /\ HiddenThen(p)' = HiddenThen(p)
           /\ OthersThen(p)' = OthersThen(p) /\ Target(p)' = Target(p)
           /\ Recorded(p)' <=> Recorded(p)
<1>1. UNCHANGED <<op, before, alone, overlapped, started>>
  BY StepFrame
<1>2. /\ RowThen(p)' = RowThen(p) /\ PlaceThen(p)' = PlaceThen(p)
      /\ PointsThen(p)' = PointsThen(p) /\ HiddenThen(p)' = HiddenThen(p)
      /\ OthersThen(p)' = OthersThen(p) /\ Target(p)' = Target(p)
  BY <1>1 DEF RowThen, PlaceThen, PointsThen, HiddenThen, OthersThen, Target
<1> QED BY <1>1, <1>2 DEF Recorded

\* p is at the step that Len(F) - n steps of its flow F come before.
Walks(p, F) == todo[p] # <<>> /\ Forward(p) /\ Suffix(todo[p], F)

LEMMA WalkStep ==
    ASSUME TypeOK, NEW p \in Procs, NEW F \in Seq(Steps), Walks(p, F)
    PROVE  /\ Len(todo[p]) \in 1..Len(F)
           /\ Head(todo[p]) = F[Len(F) - Len(todo[p]) + 1]
           /\ Waits(p) => Forward(p)' /\ Len(todo'[p]) = Len(todo[p])
           /\ Goes(p) => Forward(p)' /\ Len(todo'[p]) = Len(todo[p]) - 1
           /\ Stops(p) => ~Forward(p)'
<1>1. todo[p] \in Seq(Steps) /\ todo[p] # <<>>
  BY DEF TypeOK, Walks
<1>2. Len(todo[p]) \in 1..Len(F)
  BY <1>1, EmptySeq, LenProperties DEF Walks, Suffix
<1> QED BY <1>1, <1>2, SuffixSteps DEF Walks, Waits, Goes, Stops, Forward

\* Where a failed operation is that puts back what it found.
Failed(p) == outcome[p] = "failed" /\ InOrder(todo[p]) /\ Back(p)
FailedPublication(p) == outcome[p] = "failed" /\ InOrder(todo[p]) /\ Withdrawn(p)
FailedExtraction(p) == outcome[p] = "failed" /\ todo[p] = <<>> /\ PointsAsThen(p)

\* Where one is that fails after its point of no return.
Partial(p) ==
    /\ outcome[p] = "partial" /\ todo[p] = <<>>
    /\ \/ op[p] = "upload" /\ PointsAsThen(p)
       \/ op[p] = "delete" /\ Visible = {}

\* Each kind of operation, forward: a step keeps what it is known to have done, and
\* one that raises leaves what the compensation that follows puts back.
LEMMA ParseGoes ==
    ASSUME TypeOK, NEW p \in Procs, Step(p), Smooth', Recorded(p), op[p] = "parse",
           Walks(p, Parse), OnParse(p, Len(todo[p]))
    PROVE  (Forward(p) /\ OnParse(p, Len(todo[p])))' \/ Failed(p)'
<1> DEFINE n == Len(todo[p])
<1> USE DEF StoresAsThen, PointsAsThen, Found, Moved, OnlyFiles, OnlyPlace, OnlyIndex, OnlyStores,
            SameIndex, SameStores, SameFiles, SameMemory, Placed
<1>1. Parse \in Seq(Steps) /\ Len(Parse) = 6
  BY DEF Parse, Steps
<1>2. /\ n \in 1..6
      /\ n = 6 => Head(todo[p]) = "run"
      /\ n = 5 => Head(todo[p]) = "backup"
      /\ n = 4 => Head(todo[p]) = "promote"
      /\ n = 3 => Head(todo[p]) = "chunking"
      /\ n = 2 => Head(todo[p]) = "evidence"
      /\ n = 1 => Head(todo[p]) = "discard"
  <2>1. n \in 1..Len(Parse) /\ Head(todo[p]) = Parse[Len(Parse) - n + 1]
    BY <1>1, WalkStep
  <2> HIDE DEF n
  <2> QED BY <2>1 DEF Parse
<1>3. /\ Goes(p) => Forward(p)' /\ Len(todo[p])' = n - 1
      /\ Waits(p) => Forward(p)' /\ Len(todo[p])' = n
      /\ Stops(p) => ~Forward(p)' /\ (Head(todo[p]) \notin Settled =>
                       outcome'[p] = "failed" /\ todo'[p] = UndoParse(Head(todo[p])))
  BY <1>1, WalkStep DEF Stops, Undo
<1>4. /\ RowThen(p)' = RowThen(p) /\ PlaceThen(p)' = PlaceThen(p)
      /\ PointsThen(p)' = PointsThen(p) /\ HiddenThen(p)' = HiddenThen(p)
      /\ OthersThen(p)' = OthersThen(p)
      /\ Target(p) = "parsing" /\ Target(p)' = "parsing"
  BY RecordStays DEF Target
<1>5. /\ Paths = {"source", "parsing", "chunking", "evidence"}
      /\ PlaceThen(p) \in [Paths -> Content] /\ OnParse(p, n)
  BY DEF Paths, Recorded
<1>6. CASE n = 6
  <2>1. Head(todo[p]) = "run"
    BY <1>2, <1>6
  <2>4. /\ OnlyFiles(p) /\ UNCHANGED <<place, trash[p], backup[p]>>
        /\ (Goes(p) /\ made'[p] # 0) \/ (Stops(p) /\ SameFiles(p))
    BY <1>4, <2>1, FileEffects
  <2>2. ASSUME Goes(p) PROVE (Forward(p) /\ OnParse(p, Len(todo[p])))'
    <3>1. Forward(p)' /\ Len(todo[p])' = 5 /\ ~Stops(p)
      BY <1>3, <1>6, <2>2
    <3>2. OnParse(p, 5)'
      BY <1>4, <1>5, <1>6, <2>2, <2>4, <3>1 DEF OnParse
    <3> QED BY <3>1, <3>2 DEF OnParse
  <2>3. ASSUME Stops(p) PROVE Failed(p)'
    <3>1. outcome'[p] = "failed" /\ InOrder(todo'[p]) /\ Left(p)' = {} /\ ~Goes(p)
      BY <1>3, <2>1, <2>3, ShortCompensations DEF Compensating, Left, Settled, UndoParse
    <3> QED BY <1>4, <1>5, <1>6, <2>3, <2>4, <3>1 DEF Failed, Back, BackSteps, FilesBack,
          PointsBack, Pending, OnParse
  <2> QED BY <2>2, <2>3, <2>4
<1>7. CASE n = 5
  <2>1. Head(todo[p]) = "backup"
    BY <1>2, <1>7
  <2>4. /\ OnlyFiles(p) /\ UNCHANGED <<trash[p], made[p]>>
        /\ \/ Goes(p) /\ Placed("parsing", 0) /\ backup'[p] = place["parsing"]
           \/ Stops(p) /\ SameFiles(p)
    BY <1>4, <2>1, FileEffects
  <2>2. ASSUME Goes(p) PROVE (Forward(p) /\ OnParse(p, Len(todo[p])))'
    <3>1. Forward(p)' /\ Len(todo[p])' = 4 /\ ~Stops(p)
      BY <1>3, <1>7, <2>2
    <3>2. OnParse(p, 4)'
      BY <1>4, <1>5, <1>7, <2>2, <2>4, <3>1 DEF OnParse
    <3> QED BY <3>1, <3>2 DEF OnParse
  <2>3. ASSUME Stops(p) PROVE Failed(p)'
    <3>1. outcome'[p] = "failed" /\ InOrder(todo'[p]) /\ Left(p)' = {} /\ ~Goes(p)
      BY <1>3, <2>1, <2>3, ShortCompensations DEF Compensating, Left, Settled, UndoParse
    <3> QED BY <1>4, <1>5, <1>7, <2>3, <2>4, <3>1 DEF Failed, Back, BackSteps, FilesBack,
          PointsBack, Pending, OnParse
  <2> QED BY <2>2, <2>3, <2>4
<1>8. CASE n = 4
  <2>1. Head(todo[p]) = "promote"
    BY <1>2, <1>8
  <2>4. /\ OnlyPlace(p)
        /\ (Goes(p) /\ Placed("parsing", made[p])) \/ (Stops(p) /\ place' = place)
    BY <1>4, <2>1, FileEffects
  <2>2. ASSUME Goes(p) PROVE (Forward(p) /\ OnParse(p, Len(todo[p])))'
    <3>1. Forward(p)' /\ Len(todo[p])' = 3 /\ ~Stops(p)
      BY <1>3, <1>8, <2>2
    <3>2. OnParse(p, 3)'
      BY <1>4, <1>5, <1>8, <2>2, <2>4, <3>1 DEF OnParse
    <3> QED BY <3>1, <3>2 DEF OnParse
  <2>3. ASSUME Stops(p) PROVE Failed(p)'
    <3>1. outcome'[p] = "failed" /\ InOrder(todo'[p]) /\ Left(p)' = {"unbackup"} /\ ~Goes(p)
      BY <1>3, <2>1, <2>3, ShortCompensations DEF Compensating, Left, Settled, UndoParse
    <3> QED BY <1>4, <1>5, <1>8, <2>3, <2>4, <3>1 DEF Failed, Back, BackSteps, FilesBack,
          PointsBack, Pending, OnParse
  <2> QED BY <2>2, <2>3, <2>4
<1>9. CASE n = 3
  <2>1. Head(todo[p]) = "chunking"
    BY <1>2, <1>9
  <2>4. /\ OnlyFiles(p) /\ UNCHANGED <<backup[p], made[p]>>
        /\ \/ Goes(p) /\ place["chunking"] = 0 /\ SameFiles(p)
           \/ /\ Goes(p) /\ place["chunking"] # 0 /\ Placed("chunking", 0)
              /\ \A x \in Paths : trash'[p][x] = IF x = "chunking" THEN place["chunking"] ELSE trash[p][x]
           \/ Stops(p) /\ SameFiles(p)
    BY <1>4, <2>1, TrashEffect DEF Paths
  <2>2. ASSUME Goes(p) PROVE (Forward(p) /\ OnParse(p, Len(todo[p])))'
    <3>1. Forward(p)' /\ Len(todo[p])' = 2 /\ ~Stops(p)
      BY <1>3, <1>9, <2>2
    <3>2. OnParse(p, 2)'
      BY <1>4, <1>5, <1>9, <2>2, <2>4, <3>1 DEF OnParse
    <3> QED BY <3>1, <3>2 DEF OnParse
  <2>3. ASSUME Stops(p) PROVE Failed(p)'
    <3>1. /\ outcome'[p] = "failed" /\ InOrder(todo'[p])
          /\ Left(p)' = {"unpromote", "unbackup", "undo"} /\ ~Goes(p)
      BY <1>3, <2>1, <2>3, LongCompensations DEF Compensating, Left, Settled, UndoParse
    <3> QED BY <1>4, <1>5, <1>9, <2>3, <2>4, <3>1 DEF Failed, Back, BackSteps, FilesBack,
          PointsBack, Pending, OnParse
  <2> QED BY <2>2, <2>3, <2>4
<1>10. CASE n = 2
  <2>1. Head(todo[p]) = "evidence"
    BY <1>2, <1>10
  <2>4. /\ OnlyFiles(p) /\ UNCHANGED <<backup[p], made[p]>>
        /\ \/ Goes(p) /\ place["evidence"] = 0 /\ SameFiles(p)
           \/ /\ Goes(p) /\ place["evidence"] # 0 /\ Placed("evidence", 0)
              /\ \A x \in Paths : trash'[p][x] = IF x = "evidence" THEN place["evidence"] ELSE trash[p][x]
           \/ Stops(p) /\ SameFiles(p)
    BY <1>4, <2>1, TrashEffect DEF Paths
  <2>2. ASSUME Goes(p) PROVE (Forward(p) /\ OnParse(p, Len(todo[p])))'
    <3>1. Forward(p)' /\ Len(todo[p])' = 1 /\ ~Stops(p)
      BY <1>3, <1>10, <2>2
    <3>2. OnParse(p, 1)'
      BY <1>4, <1>5, <1>10, <2>2, <2>4, <3>1 DEF OnParse
    <3> QED BY <3>1, <3>2 DEF OnParse
  <2>3. ASSUME Stops(p) PROVE Failed(p)'
    <3>1. /\ outcome'[p] = "failed" /\ InOrder(todo'[p])
          /\ Left(p)' = {"unpromote", "unbackup", "undo"} /\ ~Goes(p)
      BY <1>3, <2>1, <2>3, LongCompensations DEF Compensating, Left, Settled, UndoParse
    <3> QED BY <1>4, <1>5, <1>10, <2>3, <2>4, <3>1 DEF Failed, Back, BackSteps, FilesBack,
          PointsBack, Pending, OnParse
  <2> QED BY <2>2, <2>3, <2>4
<1>11. CASE n = 1
  <2>1. Head(todo[p]) = "discard"
    BY <1>2, <1>11
  <2>4. /\ OnlyFiles(p) /\ place' = place /\ made'[p] = made[p]
        /\ Goes(p) /\ trash'[p] = Nothing
    BY <1>4, <2>1, FileEffects
  <2>2. ASSUME Goes(p) PROVE (Forward(p) /\ OnParse(p, Len(todo[p])))'
    <3>1. Forward(p)' /\ Len(todo[p])' = 0 /\ ~Stops(p)
      BY <1>3, <1>11, <2>2
    <3>2. OnParse(p, 0)'
      BY <1>4, <1>5, <1>11, <2>2, <2>4, <3>1 DEF OnParse
    <3> QED BY <3>1, <3>2 DEF OnParse
  <2> QED BY <2>2, <2>4
<1> QED BY <1>2, <1>6, <1>7, <1>8, <1>9, <1>10, <1>11

LEMMA ChunkGoes ==
    ASSUME TypeOK, NEW p \in Procs, Step(p), Smooth', Recorded(p), op[p] = "chunk",
           Walks(p, Chunk), OnChunk(p, Len(todo[p]))
    PROVE  (Forward(p) /\ OnChunk(p, Len(todo[p])))' \/ Failed(p)'
<1> DEFINE n == Len(todo[p])
<1> USE DEF StoresAsThen, PointsAsThen, Found, Moved, OnlyFiles, OnlyPlace, OnlyIndex, OnlyStores,
            SameIndex, SameStores, SameFiles, SameMemory, Placed
<1>1. Chunk \in Seq(Steps) /\ Len(Chunk) = 3
  BY DEF Chunk, Steps
<1>2. /\ n \in 1..3
      /\ n = 3 => Head(todo[p]) = "backup"
      /\ n = 2 => Head(todo[p]) = "promote"
      /\ n = 1 => Head(todo[p]) = "discard"
  <2>1. n \in 1..Len(Chunk) /\ Head(todo[p]) = Chunk[Len(Chunk) - n + 1]
    BY <1>1, WalkStep
  <2> HIDE DEF n
  <2> QED BY <2>1 DEF Chunk
<1>3. /\ Goes(p) => Forward(p)' /\ Len(todo[p])' = n - 1
      /\ Waits(p) => Forward(p)' /\ Len(todo[p])' = n
      /\ Stops(p) => ~Forward(p)' /\ (Head(todo[p]) \notin Settled =>
                       outcome'[p] = "failed" /\ todo'[p] = UndoParse(Head(todo[p])))
  BY <1>1, WalkStep DEF Stops, Undo
<1>4. /\ RowThen(p)' = RowThen(p) /\ PlaceThen(p)' = PlaceThen(p)
      /\ PointsThen(p)' = PointsThen(p) /\ HiddenThen(p)' = HiddenThen(p)
      /\ OthersThen(p)' = OthersThen(p)
      /\ Target(p) = "chunking" /\ Target(p)' = "chunking"
  BY RecordStays DEF Target
<1>5. /\ Paths = {"source", "parsing", "chunking", "evidence"}
      /\ PlaceThen(p) \in [Paths -> Content] /\ OnChunk(p, n)
  BY DEF Paths, Recorded
<1>6. CASE n = 3
  <2>1. Head(todo[p]) = "backup"
    BY <1>2, <1>6
  <2>4. /\ OnlyFiles(p) /\ UNCHANGED <<trash[p], made[p]>>
        /\ \/ Goes(p) /\ Placed("chunking", 0) /\ backup'[p] = place["chunking"]
           \/ Stops(p) /\ SameFiles(p)
    BY <1>4, <2>1, FileEffects
  <2>2. ASSUME Goes(p) PROVE (Forward(p) /\ OnChunk(p, Len(todo[p])))'
    <3>1. Forward(p)' /\ Len(todo[p])' = 2 /\ ~Stops(p)
      BY <1>3, <1>6, <2>2
    <3>2. OnChunk(p, 2)'
      BY <1>4, <1>5, <1>6, <2>2, <2>4, <3>1 DEF OnChunk
    <3> QED BY <3>1, <3>2 DEF OnChunk
  <2>3. ASSUME Stops(p) PROVE Failed(p)'
    <3>1. outcome'[p] = "failed" /\ InOrder(todo'[p]) /\ Left(p)' = {} /\ ~Goes(p)
      BY <1>3, <2>1, <2>3, ShortCompensations DEF Compensating, Left, Settled, UndoParse
    <3> QED BY <1>4, <1>5, <1>6, <2>3, <2>4, <3>1 DEF Failed, Back, BackSteps, FilesBack,
          PointsBack, Pending, OnChunk
  <2> QED BY <2>2, <2>3, <2>4
<1>7. CASE n = 2
  <2>1. Head(todo[p]) = "promote"
    BY <1>2, <1>7
  <2>4. /\ OnlyPlace(p)
        /\ (Goes(p) /\ Placed("chunking", made[p])) \/ (Stops(p) /\ place' = place)
    BY <1>4, <2>1, FileEffects
  <2>2. ASSUME Goes(p) PROVE (Forward(p) /\ OnChunk(p, Len(todo[p])))'
    <3>1. Forward(p)' /\ Len(todo[p])' = 1 /\ ~Stops(p)
      BY <1>3, <1>7, <2>2
    <3>2. OnChunk(p, 1)'
      BY <1>4, <1>5, <1>7, <2>2, <2>4, <3>1 DEF OnChunk
    <3> QED BY <3>1, <3>2 DEF OnChunk
  <2>3. ASSUME Stops(p) PROVE Failed(p)'
    <3>1. outcome'[p] = "failed" /\ InOrder(todo'[p]) /\ Left(p)' = {"unbackup"} /\ ~Goes(p)
      BY <1>3, <2>1, <2>3, ShortCompensations DEF Compensating, Left, Settled, UndoParse
    <3> QED BY <1>4, <1>5, <1>7, <2>3, <2>4, <3>1 DEF Failed, Back, BackSteps, FilesBack,
          PointsBack, Pending, OnChunk
  <2> QED BY <2>2, <2>3, <2>4
<1>8. CASE n = 1
  <2>1. Head(todo[p]) = "discard"
    BY <1>2, <1>8
  <2>4. /\ OnlyFiles(p) /\ place' = place /\ made'[p] = made[p]
        /\ Goes(p) /\ trash'[p] = Nothing
    BY <1>4, <2>1, FileEffects
  <2>2. ASSUME Goes(p) PROVE (Forward(p) /\ OnChunk(p, Len(todo[p])))'
    <3>1. Forward(p)' /\ Len(todo[p])' = 0 /\ ~Stops(p)
      BY <1>3, <1>8, <2>2
    <3>2. OnChunk(p, 0)'
      BY <1>4, <1>5, <1>8, <2>2, <2>4, <3>1 DEF OnChunk
    <3> QED BY <3>1, <3>2 DEF OnChunk
  <2> QED BY <2>2, <2>4
<1> QED BY <1>2, <1>6, <1>7, <1>8

\* The replacement of the points: what it has read is what it found, and it touches
\* no point that it does not make and has not read.
LEMMA ReplaceGoes ==
    ASSUME TypeOK, TypeOK', NEW p \in Procs, Step(p), Smooth', Recorded(p), made[p] # 0
    PROVE  /\ Head(todo[p]) = "scan" /\ Replacing(p, 3) =>
                /\ SameFiles(p) /\ SameStores /\ kept'[p] = kept[p]
                /\ \/ Goes(p) /\ Replacing(p, 2)'
                   \/ Stops(p) /\ PointsAsThen(p)'
           /\ Head(todo[p]) = "upsert" /\ Replacing(p, 2) =>
                /\ SameFiles(p) /\ SameStores /\ kept'[p] = kept[p]
                /\ \/ Goes(p) /\ Replacing(p, 1)'
                   \/ Waits(p) /\ Replacing(p, 2)'
                   \/ Stops(p) /\ HadThen(p)' /\ Stored' \subseteq HadIds(p)' \cup PointsOf(made'[p])
           /\ Head(todo[p]) = "stale" /\ Replacing(p, 1) =>
                /\ SameFiles(p) /\ SameStores /\ kept'[p] = kept[p]
                /\ \/ Goes(p) /\ Replacing(p, 0)'
                   \/ Stops(p) /\ HadThen(p)' /\ Stored' \subseteq HadIds(p)' \cup PointsOf(made'[p])
<1>1. /\ points \in [PointIds -> Content] /\ hidden \subseteq Stored
      /\ made[p] \in Nat /\ PointsOf(made[p]) \subseteq PointIds
  <2>1. made[p] \in Content
    BY DEF TypeOK
  <2>2. made[p] \in 1..MaxVersions /\ MaxVersions \in Nat
    BY <2>1, LifecycleAssumption DEF Content
  <2>3. PointsOf(made[p]) \subseteq PointIds
    BY <2>2 DEF PointsOf, PointIds
  <2> QED BY <2>2, <2>3 DEF TypeOK
<1>2. /\ PointsThen(p)' = PointsThen(p) /\ HiddenThen(p)' = HiddenThen(p)
      /\ PointsThen(p) \in [PointIds -> Content]
      /\ HiddenThen(p) \subseteq {i \in PointIds : PointsThen(p)[i] # 0}
  BY RecordStays DEF Recorded
<1>3. HadThen(p) => HadIds(p) = {i \in PointIds : PointsThen(p)[i] # 0} /\ had[p].at = PointsThen(p)
  BY DEF HadThen, HadIds
<1>4. SameMemory(p) /\ HadThen(p) => HadThen(p)' /\ HadIds(p)' = HadIds(p)
  BY <1>2 DEF SameMemory, HadThen, HadIds
<1>5. CASE Head(todo[p]) = "scan" /\ Replacing(p, 3)
  <2>1. PointsAsThen(p)
    BY <1>5 DEF Replacing
  <2>2. /\ SameFiles(p) /\ SameIndex /\ SameStores /\ kept'[p] = kept[p]
        /\ (Goes(p) /\ had'[p] = [at |-> points, hidden |-> hidden]) \/ Stops(p)
    BY <1>5, OtherEffects
  <2>3. PointsAsThen(p)'
    BY <1>2, <2>1, <2>2 DEF PointsAsThen, SameIndex
  <2>4. Goes(p) /\ had'[p] = [at |-> points, hidden |-> hidden] => Replacing(p, 2)'
    BY <1>2, <2>1, <2>2, <2>3 DEF Replacing, HadThen, PointsAsThen, SameFiles
  <2> QED BY <1>5, <2>2, <2>3, <2>4
<1>6. CASE Head(todo[p]) = "upsert" /\ Replacing(p, 2)
  <2>1. /\ HadThen(p) /\ hidden \subseteq HiddenThen(p)
        /\ \A i \in PointIds \ PointsOf(made[p]) : points[i] = PointsThen(p)[i]
    BY <1>6 DEF Replacing
  <2>2. /\ OnlyIndex(p)
        /\ \/ /\ Goes(p) /\ SameIndex
              /\ \A i \in PointsOf(made[p]) : points[i] = made[p] /\ i \notin hidden
           \/ /\ Waits(p) \/ Stops(p)
              /\ SameIndex \/ \E i \in PointsOf(made[p]) : Write(i, made[p])
    BY <1>6, IndexEffects
  <2>3. /\ HadThen(p)' /\ hidden' \subseteq HiddenThen(p)
        /\ \A i \in PointIds \ PointsOf(made[p]) : points'[i] = PointsThen(p)[i]
    BY <1>1, <1>4, <2>1, <2>2 DEF OnlyIndex, SameIndex, Write
  <2>4. Stored' \subseteq HadIds(p)' \cup PointsOf(made[p])
    BY <1>3, <1>4, <2>1, <2>2, <2>3 DEF OnlyIndex, Stored
  <2>5. Replacing(p, 2)'
    BY <1>2, <2>2, <2>3 DEF Replacing, OnlyIndex, SameFiles
  <2>6. Goes(p) /\ SameIndex /\ (\A i \in PointsOf(made[p]) : points[i] = made[p] /\ i \notin hidden)
          => Replacing(p, 1)'
    BY <1>2, <2>2, <2>3 DEF Replacing, OnlyIndex, SameFiles, SameIndex
  <2> QED BY <1>6, <2>2, <2>3, <2>4, <2>5, <2>6 DEF OnlyIndex, SameFiles, SameMemory
<1>7. CASE Head(todo[p]) = "stale" /\ Replacing(p, 1)
  <2>1. /\ HadThen(p) /\ hidden \subseteq HiddenThen(p)
        /\ \A i \in PointIds \ PointsOf(made[p]) : points[i] = PointsThen(p)[i]
        /\ \A i \in PointsOf(made[p]) : points[i] = made[p] /\ i \notin hidden
    BY <1>7 DEF Replacing
  <2>2. /\ OnlyIndex(p)
        /\ \/ Goes(p) /\ Remove(HadIds(p) \ PointsOf(made[p]))
           \/ Stops(p) /\ (SameIndex \/ Remove(HadIds(p) \ PointsOf(made[p])))
    BY <1>7, IndexEffects
  <2>3. HadThen(p)' /\ HadIds(p)' = HadIds(p) /\ made'[p] = made[p]
    BY <1>4, <2>1, <2>2 DEF OnlyIndex, SameFiles
  <2>4. Stored' \subseteq Stored /\ Stored \subseteq HadIds(p) \cup PointsOf(made[p])
    BY <1>1, <1>3, <2>1, <2>2 DEF SameIndex, Remove, Stored
  <2>5. ASSUME Remove(HadIds(p) \ PointsOf(made[p])) PROVE Whole(made[p])'
    <3>1. \A i \in PointIds : points'[i] = IF i \in PointsOf(made[p]) THEN made[p] ELSE 0
      BY <1>1, <1>2, <1>3, <2>1, <2>5 DEF Remove
    <3>2. hidden' \cap PointsOf(made[p]) = {}
      BY <2>1, <2>5 DEF Remove
    <3>3. Stored' = PointsOf(made[p])
      BY <1>1, <3>1 DEF Stored
    <3>4. hidden' \subseteq Stored'
      BY DEF TypeOK
    <3> QED BY <2>3, <3>1, <3>2, <3>3, <3>4 DEF Whole, Visible
  <2>6. Whole(made[p])' => Replacing(p, 0)'
    BY DEF Replacing
  <2> QED BY <1>7, <2>2, <2>3, <2>4, <2>5, <2>6 DEF OnlyIndex, SameFiles, SameMemory
<1> QED BY <1>5, <1>6, <1>7

LEMMA BuildGoes ==
    ASSUME TypeOK, TypeOK', NEW p \in Procs, Step(p), Smooth', Recorded(p), op[p] = "build",
           Walks(p, Build), OnBuild(p, Len(todo[p]))
    PROVE  (Forward(p) /\ OnBuild(p, Len(todo[p])))' \/ Failed(p)'
<1> DEFINE n == Len(todo[p])
<1> USE DEF StoresAsThen, PointsAsThen, Found, Moved, OnlyFiles, OnlyPlace, OnlyIndex, OnlyStores,
            SameIndex, SameStores, SameFiles, SameMemory, Placed
<1>1. Build \in Seq(Steps) /\ Len(Build) = 5
  BY DEF Build, Replace, Steps
<1>2. /\ n \in 1..5
      /\ n = 5 => Head(todo[p]) = "check"
      /\ n = 4 => Head(todo[p]) = "write"
      /\ n = 3 => Head(todo[p]) = "scan"
      /\ n = 2 => Head(todo[p]) = "upsert"
      /\ n = 1 => Head(todo[p]) = "stale"
  <2>1. n \in 1..Len(Build) /\ Head(todo[p]) = Build[Len(Build) - n + 1]
    BY <1>1, WalkStep
  <2> HIDE DEF n
  <2> QED BY <2>1 DEF Build, Replace
<1>3. /\ Goes(p) => Forward(p)' /\ Len(todo[p])' = n - 1
      /\ Waits(p) => Forward(p)' /\ Len(todo[p])' = n
      /\ Stops(p) => ~Forward(p)' /\ (Head(todo[p]) \notin Settled =>
                       outcome'[p] = "failed" /\ todo'[p] = UndoBuild(Head(todo[p])))
  BY <1>1, WalkStep DEF Stops, Undo
<1>4. /\ RowThen(p)' = RowThen(p) /\ PlaceThen(p)' = PlaceThen(p)
      /\ PointsThen(p)' = PointsThen(p) /\ HiddenThen(p)' = HiddenThen(p)
      /\ OthersThen(p)' = OthersThen(p)
  BY RecordStays
<1>5. /\ Paths = {"source", "parsing", "chunking", "evidence"}
      /\ PlaceThen(p) \in [Paths -> Content] /\ OnBuild(p, n)
  BY DEF Paths, Recorded
<1>6. /\ SameIndex /\ made'[p] = made[p] /\ Whole(made[p]) => Whole(made[p])'
      /\ SameIndex => Stored' = Stored
  BY DEF Whole, Visible, Stored
<1>7. CASE n = 5
  <2>1. Head(todo[p]) = "check"
    BY <1>2, <1>7
  <2>4. /\ SameFiles(p) /\ SameIndex /\ SameStores /\ had'[p] = had[p]
        /\ \/ Goes(p) /\ Recoverable(p) /\ kept'[p] = [evidence |-> place["evidence"], at |-> points]
           \/ Stops(p)
    BY <1>4, <2>1, OtherEffects
  <2>2. ASSUME Goes(p) PROVE (Forward(p) /\ OnBuild(p, Len(todo[p])))'
    <3>1. Forward(p)' /\ Len(todo[p])' = 4 /\ ~Stops(p)
      BY <1>3, <1>7, <2>2
    <3>2. OnBuild(p, 4)'
      BY <1>4, <1>5, <1>6, <1>7, <2>2, <2>4, <3>1 DEF OnBuild, Replacing, KeptThen
    <3> QED BY <3>1, <3>2 DEF OnBuild
  <2>3. ASSUME Stops(p) PROVE Failed(p)'
    <3>1. outcome'[p] = "failed" /\ InOrder(todo'[p]) /\ Left(p)' = {} /\ ~Goes(p)
      BY <1>3, <2>1, <2>3, ShortCompensations DEF Compensating, Left, Settled, UndoBuild
    <3> QED BY <1>4, <1>5, <1>7, <2>3, <2>4, <3>1 DEF Failed, Back, BackSteps, FilesBack,
          PointsBack, Pending, OnBuild, Replacing
  <2> QED BY <2>2, <2>3, <2>4
<1>8. CASE n = 4
  <2>1. Head(todo[p]) = "write"
    BY <1>2, <1>8
  <2>4. /\ OnlyPlace(p)
        /\ (Goes(p) /\ Placed("evidence", made[p])) \/ (Stops(p) /\ place' = place)
    BY <1>4, <2>1, FileEffects
  <2>2. ASSUME Goes(p) PROVE (Forward(p) /\ OnBuild(p, Len(todo[p])))'
    <3>1. Forward(p)' /\ Len(todo[p])' = 3 /\ ~Stops(p)
      BY <1>3, <1>8, <2>2
    <3>2. OnBuild(p, 3)'
      BY <1>4, <1>5, <1>6, <1>8, <2>2, <2>4, <3>1 DEF OnBuild, Replacing, KeptThen
    <3> QED BY <3>1, <3>2 DEF OnBuild
  <2>3. ASSUME Stops(p) PROVE Failed(p)'
    <3>1. outcome'[p] = "failed" /\ InOrder(todo'[p]) /\ Left(p)' = {} /\ ~Goes(p)
      BY <1>3, <2>1, <2>3, ShortCompensations DEF Compensating, Left, Settled, UndoBuild
    <3> QED BY <1>4, <1>5, <1>8, <2>3, <2>4, <3>1 DEF Failed, Back, BackSteps, FilesBack,
          PointsBack, Pending, OnBuild, Replacing
  <2> QED BY <2>2, <2>3, <2>4
<1>9. CASE n = 3
  <2>1. Head(todo[p]) = "scan" /\ Replacing(p, 3) /\ made[p] # 0
    BY <1>2, <1>5, <1>9 DEF OnBuild
  <2>4. /\ SameFiles(p) /\ SameStores /\ kept'[p] = kept[p]
        /\ \/ Goes(p) /\ Replacing(p, 2)'
           \/ Stops(p) /\ PointsAsThen(p)'
    BY <2>1, ReplaceGoes
  <2>2. ASSUME Goes(p) PROVE (Forward(p) /\ OnBuild(p, Len(todo[p])))'
    <3>1. Forward(p)' /\ Len(todo[p])' = 2 /\ ~Stops(p) /\ Replacing(p, 2)'
      BY <1>3, <1>9, <2>2, <2>4
    <3>2. OnBuild(p, 2)'
      BY <1>4, <1>5, <1>9, <2>4, <3>1 DEF OnBuild, KeptThen
    <3> QED BY <3>1, <3>2 DEF OnBuild
  <2>3. ASSUME Stops(p) PROVE Failed(p)'
    <3>1. outcome'[p] = "failed" /\ InOrder(todo'[p]) /\ Left(p)' = {"unwrite"} /\ ~Goes(p) /\ ~Waits(p)
      BY <1>3, <2>1, <2>3, ShortCompensations DEF Compensating, Left, Settled, UndoBuild
    <3> QED BY <1>4, <1>5, <1>9, <2>3, <2>4, <3>1 DEF Failed, Back, BackSteps, FilesBack,
          PointsBack, Pending, KeptThen, OnBuild
  <2> QED BY <2>2, <2>3, <2>4
<1>10. CASE n = 2
  <2>1. Head(todo[p]) = "upsert" /\ Replacing(p, 2) /\ made[p] # 0
    BY <1>2, <1>5, <1>10 DEF OnBuild
  <2>4. /\ SameFiles(p) /\ SameStores /\ kept'[p] = kept[p]
        /\ \/ Goes(p) /\ Replacing(p, 1)'
           \/ Waits(p) /\ Replacing(p, 2)'
           \/ Stops(p) /\ HadThen(p)' /\ Stored' \subseteq HadIds(p)' \cup PointsOf(made'[p])
    BY <2>1, ReplaceGoes
  <2>2. ASSUME Goes(p) PROVE (Forward(p) /\ OnBuild(p, Len(todo[p])))'
    <3>1. Forward(p)' /\ Len(todo[p])' = 1 /\ ~Stops(p) /\ Replacing(p, 1)'
      BY <1>3, <1>10, <2>2, <2>4
    <3>2. OnBuild(p, 1)'
      BY <1>4, <1>5, <1>10, <2>4, <3>1 DEF OnBuild, KeptThen
    <3> QED BY <3>1, <3>2 DEF OnBuild
  <2>5. ASSUME Waits(p) PROVE (Forward(p) /\ OnBuild(p, Len(todo[p])))'
    <3>1. Forward(p)' /\ Len(todo[p])' = 2 /\ ~Stops(p) /\ Replacing(p, 2)'
      BY <1>3, <1>10, <2>4, <2>5
    <3>2. OnBuild(p, 2)'
      BY <1>4, <1>5, <1>10, <2>4, <3>1 DEF OnBuild, KeptThen
    <3> QED BY <3>1, <3>2 DEF OnBuild
  <2>3. ASSUME Stops(p) PROVE Failed(p)'
    <3>1. /\ outcome'[p] = "failed" /\ InOrder(todo'[p])
          /\ Left(p)' = {"unstore", "restore", "unwrite"} /\ ~Goes(p) /\ ~Waits(p)
      BY <1>3, <2>1, <2>3, LongCompensations DEF Compensating, Left, Settled, UndoBuild
    <3> QED BY <1>4, <1>5, <1>10, <2>3, <2>4, <3>1 DEF Failed, Back, BackSteps, FilesBack,
          PointsBack, Pending, KeptThen, OnBuild
  <2> QED BY <2>2, <2>3, <2>4, <2>5
<1>11. CASE n = 1
  <2>1. Head(todo[p]) = "stale" /\ Replacing(p, 1) /\ made[p] # 0
    BY <1>2, <1>5, <1>11 DEF OnBuild
  <2>4. /\ SameFiles(p) /\ SameStores /\ kept'[p] = kept[p]
        /\ \/ Goes(p) /\ Replacing(p, 0)'
           \/ Stops(p) /\ HadThen(p)' /\ Stored' \subseteq HadIds(p)' \cup PointsOf(made'[p])
    BY <2>1, ReplaceGoes
  <2>2. ASSUME Goes(p) PROVE (Forward(p) /\ OnBuild(p, Len(todo[p])))'
    <3>1. Forward(p)' /\ Len(todo[p])' = 0 /\ ~Stops(p) /\ Replacing(p, 0)'
      BY <1>3, <1>11, <2>2, <2>4
    <3>2. OnBuild(p, 0)'
      BY <1>4, <1>5, <1>11, <2>4, <3>1 DEF OnBuild, KeptThen
    <3> QED BY <3>1, <3>2 DEF OnBuild
  <2>3. ASSUME Stops(p) PROVE Failed(p)'
    <3>1. /\ outcome'[p] = "failed" /\ InOrder(todo'[p])
          /\ Left(p)' = {"unstore", "restore", "unwrite"} /\ ~Goes(p) /\ ~Waits(p)
      BY <1>3, <2>1, <2>3, LongCompensations DEF Compensating, Left, Settled, UndoBuild
    <3> QED BY <1>4, <1>5, <1>11, <2>3, <2>4, <3>1 DEF Failed, Back, BackSteps, FilesBack,
          PointsBack, Pending, KeptThen, OnBuild
  <2> QED BY <2>2, <2>3, <2>4
<1> QED BY <1>2, <1>7, <1>8, <1>9, <1>10, <1>11

LEMMA ReparseGoes ==
    ASSUME TypeOK, TypeOK', NEW p \in Procs, Step(p), Smooth', Recorded(p), op[p] = "reparse",
           Walks(p, Reparse), OnReparse(p, Len(todo[p]))
    PROVE  (Forward(p) /\ OnReparse(p, Len(todo[p])))' \/ Failed(p)'
<1> DEFINE n == Len(todo[p])
<1> USE DEF StoresAsThen, PointsAsThen, Found, Moved, OnlyFiles, OnlyPlace, OnlyIndex, OnlyStores,
            SameIndex, SameStores, SameFiles, SameMemory, Placed
<1>1. Reparse \in Seq(Steps) /\ Len(Reparse) = 10
  BY DEF Reparse, Replace, Steps
<1>2. /\ n \in 1..10
      /\ n = 10 => Head(todo[p]) = "run"
      /\ n = 9 => Head(todo[p]) = "check"
      /\ n = 8 => Head(todo[p]) = "scan"
      /\ n = 7 => Head(todo[p]) = "upsert"
      /\ n = 6 => Head(todo[p]) = "stale"
      /\ n = 5 => Head(todo[p]) = "write"
      /\ n = 4 => Head(todo[p]) = "backup"
      /\ n = 3 => Head(todo[p]) = "promote"
      /\ n = 2 => Head(todo[p]) = "chunking"
      /\ n = 1 => Head(todo[p]) = "discard"
  <2>1. n \in 1..Len(Reparse) /\ Head(todo[p]) = Reparse[Len(Reparse) - n + 1]
    BY <1>1, WalkStep
  <2> HIDE DEF n
  <2> QED BY <2>1 DEF Reparse, Replace
<1>3. /\ Goes(p) => Forward(p)' /\ Len(todo[p])' = n - 1
      /\ Waits(p) => Forward(p)' /\ Len(todo[p])' = n
      /\ Stops(p) => ~Forward(p)' /\ (Head(todo[p]) \notin Settled =>
                       outcome'[p] = "failed" /\ todo'[p] = UndoReparse(Head(todo[p])))
  BY <1>1, WalkStep DEF Stops, Undo
<1>4. /\ RowThen(p)' = RowThen(p) /\ PlaceThen(p)' = PlaceThen(p)
      /\ PointsThen(p)' = PointsThen(p) /\ HiddenThen(p)' = HiddenThen(p)
      /\ OthersThen(p)' = OthersThen(p)
      /\ Target(p) = "parsing" /\ Target(p)' = "parsing"
  BY RecordStays DEF Target
<1>5. /\ Paths = {"source", "parsing", "chunking", "evidence"}
      /\ PlaceThen(p) \in [Paths -> Content] /\ OnReparse(p, n)
  BY DEF Paths, Recorded
<1>6. /\ SameIndex /\ made'[p] = made[p] /\ Whole(made[p]) => Whole(made[p])'
      /\ SameIndex => Stored' = Stored
  BY DEF Whole, Visible, Stored
<1>7. CASE n = 10
  <2>1. Head(todo[p]) = "run"
    BY <1>2, <1>7
  <2>4. /\ OnlyFiles(p) /\ UNCHANGED <<place, trash[p], backup[p]>>
        /\ (Goes(p) /\ made'[p] # 0) \/ (Stops(p) /\ SameFiles(p))
    BY <1>4, <2>1, FileEffects
  <2>2. ASSUME Goes(p) PROVE (Forward(p) /\ OnReparse(p, Len(todo[p])))'
    <3>1. Forward(p)' /\ Len(todo[p])' = 9 /\ ~Stops(p)
      BY <1>3, <1>7, <2>2
    <3>2. OnReparse(p, 9)'
      BY <1>4, <1>5, <1>6, <1>7, <2>2, <2>4, <3>1 DEF OnReparse, Replacing, KeptThen
    <3> QED BY <3>1, <3>2 DEF OnReparse
  <2>3. ASSUME Stops(p) PROVE Failed(p)'
    <3>1. outcome'[p] = "failed" /\ InOrder(todo'[p]) /\ Left(p)' = {} /\ ~Goes(p)
      BY <1>3, <2>1, <2>3, ShortCompensations DEF Compensating, Left, Settled, UndoReparse
    <3> QED BY <1>4, <1>5, <1>7, <2>3, <2>4, <3>1 DEF Failed, Back, BackSteps, FilesBack,
          PointsBack, Pending, OnReparse, Replacing
  <2> QED BY <2>2, <2>3, <2>4
<1>8. CASE n = 9
  <2>1. Head(todo[p]) = "check"
    BY <1>2, <1>8
  <2>4. /\ SameFiles(p) /\ SameIndex /\ SameStores /\ had'[p] = had[p]
        /\ \/ Goes(p) /\ Recoverable(p) /\ kept'[p] = [evidence |-> place["evidence"], at |-> points]
           \/ Stops(p)
    BY <1>4, <2>1, OtherEffects
  <2>2. ASSUME Goes(p) PROVE (Forward(p) /\ OnReparse(p, Len(todo[p])))'
    <3>1. Forward(p)' /\ Len(todo[p])' = 8 /\ ~Stops(p)
      BY <1>3, <1>8, <2>2
    <3>2. OnReparse(p, 8)'
      BY <1>4, <1>5, <1>6, <1>8, <2>2, <2>4, <3>1 DEF OnReparse, Replacing, KeptThen, Recoverable
    <3> QED BY <3>1, <3>2 DEF OnReparse
  <2>3. ASSUME Stops(p) PROVE Failed(p)'
    <3>1. outcome'[p] = "failed" /\ InOrder(todo'[p]) /\ Left(p)' = {} /\ ~Goes(p)
      BY <1>3, <2>1, <2>3, ShortCompensations DEF Compensating, Left, Settled, UndoReparse
    <3> QED BY <1>4, <1>5, <1>8, <2>3, <2>4, <3>1 DEF Failed, Back, BackSteps, FilesBack,
          PointsBack, Pending, OnReparse, Replacing
  <2> QED BY <2>2, <2>3, <2>4
<1>9. CASE n = 8
  <2>1. Head(todo[p]) = "scan" /\ Replacing(p, 3) /\ made[p] # 0
    BY <1>2, <1>5, <1>9 DEF OnReparse
  <2>4. /\ SameFiles(p) /\ SameStores /\ kept'[p] = kept[p]
        /\ \/ Goes(p) /\ Replacing(p, 2)'
           \/ Stops(p) /\ PointsAsThen(p)'
    BY <2>1, ReplaceGoes
  <2>2. ASSUME Goes(p) PROVE (Forward(p) /\ OnReparse(p, Len(todo[p])))'
    <3>1. Forward(p)' /\ Len(todo[p])' = 7 /\ ~Stops(p) /\ Replacing(p, 2)'
      BY <1>3, <1>9, <2>2, <2>4
    <3>2. OnReparse(p, 7)'
      BY <1>4, <1>5, <1>9, <2>4, <3>1 DEF OnReparse, KeptThen
    <3> QED BY <3>1, <3>2 DEF OnReparse
  <2>3. ASSUME Stops(p) PROVE Failed(p)'
    <3>1. outcome'[p] = "failed" /\ InOrder(todo'[p]) /\ Left(p)' = {} /\ ~Goes(p) /\ ~Waits(p)
      BY <1>3, <2>1, <2>3, ShortCompensations DEF Compensating, Left, Settled, UndoReparse
    <3> QED BY <1>4, <1>5, <1>9, <2>3, <2>4, <3>1 DEF Failed, Back, BackSteps, FilesBack,
          PointsBack, Pending, KeptThen, OnReparse
  <2> QED BY <2>2, <2>3, <2>4
<1>10. CASE n = 7
  <2>1. Head(todo[p]) = "upsert" /\ Replacing(p, 2) /\ made[p] # 0
    BY <1>2, <1>5, <1>10 DEF OnReparse
  <2>4. /\ SameFiles(p) /\ SameStores /\ kept'[p] = kept[p]
        /\ \/ Goes(p) /\ Replacing(p, 1)'
           \/ Waits(p) /\ Replacing(p, 2)'
           \/ Stops(p) /\ HadThen(p)' /\ Stored' \subseteq HadIds(p)' \cup PointsOf(made'[p])
    BY <2>1, ReplaceGoes
  <2>2. ASSUME Goes(p) PROVE (Forward(p) /\ OnReparse(p, Len(todo[p])))'
    <3>1. Forward(p)' /\ Len(todo[p])' = 6 /\ ~Stops(p) /\ Replacing(p, 1)'
      BY <1>3, <1>10, <2>2, <2>4
    <3>2. OnReparse(p, 6)'
      BY <1>4, <1>5, <1>10, <2>4, <3>1 DEF OnReparse, KeptThen
    <3> QED BY <3>1, <3>2 DEF OnReparse
  <2>5. ASSUME Waits(p) PROVE (Forward(p) /\ OnReparse(p, Len(todo[p])))'
    <3>1. Forward(p)' /\ Len(todo[p])' = 7 /\ ~Stops(p) /\ Replacing(p, 2)'
      BY <1>3, <1>10, <2>4, <2>5
    <3>2. OnReparse(p, 7)'
      BY <1>4, <1>5, <1>10, <2>4, <3>1 DEF OnReparse, KeptThen
    <3> QED BY <3>1, <3>2 DEF OnReparse
  <2>3. ASSUME Stops(p) PROVE Failed(p)'
    <3>1. /\ outcome'[p] = "failed" /\ InOrder(todo'[p])
          /\ Left(p)' = {"unstore", "restore"} /\ ~Goes(p) /\ ~Waits(p)
      BY <1>3, <2>1, <2>3, ShortCompensations DEF Compensating, Left, Settled, UndoReparse
    <3> QED BY <1>4, <1>5, <1>10, <2>3, <2>4, <3>1 DEF Failed, Back, BackSteps, FilesBack,
          PointsBack, Pending, KeptThen, OnReparse
  <2> QED BY <2>2, <2>3, <2>4, <2>5
<1>11. CASE n = 6
  <2>1. Head(todo[p]) = "stale" /\ Replacing(p, 1) /\ made[p] # 0
    BY <1>2, <1>5, <1>11 DEF OnReparse
  <2>4. /\ SameFiles(p) /\ SameStores /\ kept'[p] = kept[p]
        /\ \/ Goes(p) /\ Replacing(p, 0)'
           \/ Stops(p) /\ HadThen(p)' /\ Stored' \subseteq HadIds(p)' \cup PointsOf(made'[p])
    BY <2>1, ReplaceGoes
  <2>2. ASSUME Goes(p) PROVE (Forward(p) /\ OnReparse(p, Len(todo[p])))'
    <3>1. Forward(p)' /\ Len(todo[p])' = 5 /\ ~Stops(p) /\ Replacing(p, 0)'
      BY <1>3, <1>11, <2>2, <2>4
    <3>2. OnReparse(p, 5)'
      BY <1>4, <1>5, <1>11, <2>4, <3>1 DEF OnReparse, KeptThen
    <3> QED BY <3>1, <3>2 DEF OnReparse
  <2>3. ASSUME Stops(p) PROVE Failed(p)'
    <3>1. /\ outcome'[p] = "failed" /\ InOrder(todo'[p])
          /\ Left(p)' = {"unstore", "restore"} /\ ~Goes(p) /\ ~Waits(p)
      BY <1>3, <2>1, <2>3, ShortCompensations DEF Compensating, Left, Settled, UndoReparse
    <3> QED BY <1>4, <1>5, <1>11, <2>3, <2>4, <3>1 DEF Failed, Back, BackSteps, FilesBack,
          PointsBack, Pending, KeptThen, OnReparse
  <2> QED BY <2>2, <2>3, <2>4
<1>12. CASE n = 5
  <2>1. Head(todo[p]) = "write"
    BY <1>2, <1>12
  <2>4. /\ OnlyPlace(p)
        /\ (Goes(p) /\ Placed("evidence", made[p])) \/ (Stops(p) /\ place' = place)
    BY <1>4, <2>1, FileEffects
  <2>2. ASSUME Goes(p) PROVE (Forward(p) /\ OnReparse(p, Len(todo[p])))'
    <3>1. Forward(p)' /\ Len(todo[p])' = 4 /\ ~Stops(p)
      BY <1>3, <1>12, <2>2
    <3>2. OnReparse(p, 4)'
      BY <1>4, <1>5, <1>6, <1>12, <2>2, <2>4, <3>1 DEF OnReparse, Replacing, KeptThen
    <3> QED BY <3>1, <3>2 DEF OnReparse
  <2>3. ASSUME Stops(p) PROVE Failed(p)'
    <3>1. outcome'[p] = "failed" /\ InOrder(todo'[p]) /\ Left(p)' = {"repoint", "unwrite"} /\ ~Goes(p)
      BY <1>3, <2>1, <2>3, ShortCompensations DEF Compensating, Left, Settled, UndoReparse
    <3> QED BY <1>4, <1>5, <1>12, <2>3, <2>4, <3>1 DEF Failed, Back, BackSteps, FilesBack,
          PointsBack, Pending, OnReparse, KeptThen
  <2> QED BY <2>2, <2>3, <2>4
<1>13. CASE n = 4
  <2>1. Head(todo[p]) = "backup"
    BY <1>2, <1>13
  <2>4. /\ OnlyFiles(p) /\ UNCHANGED <<trash[p], made[p]>>
        /\ \/ Goes(p) /\ Placed("parsing", 0) /\ backup'[p] = place["parsing"]
           \/ Stops(p) /\ SameFiles(p)
    BY <1>4, <2>1, FileEffects
  <2>2. ASSUME Goes(p) PROVE (Forward(p) /\ OnReparse(p, Len(todo[p])))'
    <3>1. Forward(p)' /\ Len(todo[p])' = 3 /\ ~Stops(p)
      BY <1>3, <1>13, <2>2
    <3>2. OnReparse(p, 3)'
      BY <1>4, <1>5, <1>6, <1>13, <2>2, <2>4, <3>1 DEF OnReparse, Replacing, KeptThen
    <3> QED BY <3>1, <3>2 DEF OnReparse
  <2>3. ASSUME Stops(p) PROVE Failed(p)'
    <3>1. outcome'[p] = "failed" /\ InOrder(todo'[p]) /\ Left(p)' = {"repoint", "unwrite"} /\ ~Goes(p)
      BY <1>3, <2>1, <2>3, ShortCompensations DEF Compensating, Left, Settled, UndoReparse
    <3> QED BY <1>4, <1>5, <1>13, <2>3, <2>4, <3>1 DEF Failed, Back, BackSteps, FilesBack,
          PointsBack, Pending, OnReparse, KeptThen
  <2> QED BY <2>2, <2>3, <2>4
<1>14. CASE n = 3
  <2>1. Head(todo[p]) = "promote"
    BY <1>2, <1>14
  <2>4. /\ OnlyPlace(p)
        /\ (Goes(p) /\ Placed("parsing", made[p])) \/ (Stops(p) /\ place' = place)
    BY <1>4, <2>1, FileEffects
  <2>2. ASSUME Goes(p) PROVE (Forward(p) /\ OnReparse(p, Len(todo[p])))'
    <3>1. Forward(p)' /\ Len(todo[p])' = 2 /\ ~Stops(p)
      BY <1>3, <1>14, <2>2
    <3>2. OnReparse(p, 2)'
      BY <1>4, <1>5, <1>6, <1>14, <2>2, <2>4, <3>1 DEF OnReparse, Replacing, KeptThen
    <3> QED BY <3>1, <3>2 DEF OnReparse
  <2>3. ASSUME Stops(p) PROVE Failed(p)'
    <3>1. /\ outcome'[p] = "failed" /\ InOrder(todo'[p])
          /\ Left(p)' = {"unbackup", "repoint", "unwrite"} /\ ~Goes(p)
      BY <1>3, <2>1, <2>3, LongCompensations DEF Compensating, Left, Settled, UndoReparse
    <3> QED BY <1>4, <1>5, <1>14, <2>3, <2>4, <3>1 DEF Failed, Back, BackSteps, FilesBack,
          PointsBack, Pending, OnReparse, KeptThen
  <2> QED BY <2>2, <2>3, <2>4
<1>15. CASE n = 2
  <2>1. Head(todo[p]) = "chunking"
    BY <1>2, <1>15
  <2>4. /\ OnlyFiles(p) /\ UNCHANGED <<backup[p], made[p]>>
        /\ \/ Goes(p) /\ place["chunking"] = 0 /\ SameFiles(p)
           \/ /\ Goes(p) /\ place["chunking"] # 0 /\ Placed("chunking", 0)
              /\ \A x \in Paths : trash'[p][x] = IF x = "chunking" THEN place["chunking"] ELSE trash[p][x]
           \/ Stops(p) /\ SameFiles(p)
    BY <1>4, <2>1, TrashEffect DEF Paths
  <2>2. ASSUME Goes(p) PROVE (Forward(p) /\ OnReparse(p, Len(todo[p])))'
    <3>1. Forward(p)' /\ Len(todo[p])' = 1 /\ ~Stops(p)
      BY <1>3, <1>15, <2>2
    <3>2. OnReparse(p, 1)'
      BY <1>4, <1>5, <1>6, <1>15, <2>2, <2>4, <3>1 DEF OnReparse, Replacing, KeptThen
    <3> QED BY <3>1, <3>2 DEF OnReparse
  <2>3. ASSUME Stops(p) PROVE Failed(p)'
    <3>1. /\ outcome'[p] = "failed" /\ InOrder(todo'[p])
          /\ Left(p)' = {"repoint", "unwrite", "unpromote", "unbackup"} /\ ~Goes(p)
      BY <1>3, <2>1, <2>3, LongCompensations DEF Compensating, Left, Settled, UndoReparse
    <3> QED BY <1>4, <1>5, <1>15, <2>3, <2>4, <3>1 DEF Failed, Back, BackSteps, FilesBack,
          PointsBack, Pending, OnReparse, KeptThen
  <2> QED BY <2>2, <2>3, <2>4
<1>16. CASE n = 1
  <2>1. Head(todo[p]) = "discard"
    BY <1>2, <1>16
  <2>4. /\ OnlyFiles(p) /\ place' = place /\ made'[p] = made[p]
        /\ Goes(p) /\ trash'[p] = Nothing
    BY <1>4, <2>1, FileEffects
  <2>2. ASSUME Goes(p) PROVE (Forward(p) /\ OnReparse(p, Len(todo[p])))'
    <3>1. Forward(p)' /\ Len(todo[p])' = 0 /\ ~Stops(p)
      BY <1>3, <1>16, <2>2
    <3>2. OnReparse(p, 0)'
      BY <1>4, <1>5, <1>6, <1>16, <2>2, <2>4, <3>1 DEF OnReparse, Replacing, KeptThen
    <3> QED BY <3>1, <3>2 DEF OnReparse
  <2> QED BY <2>2, <2>4
<1> QED BY <1>2, <1>7, <1>8, <1>9, <1>10, <1>11, <1>12, <1>13, <1>14, <1>15, <1>16

LEMMA UploadGoes ==
    ASSUME TypeOK, NEW p \in Procs, Step(p), Smooth', Recorded(p), op[p] = "upload",
           Walks(p, Upload), OnUpload(p, Len(todo[p]))
    PROVE  (Forward(p) /\ OnUpload(p, Len(todo[p])))' \/ Failed(p)' \/ Partial(p)'
<1> DEFINE n == Len(todo[p])
<1> USE DEF StoresAsThen, PointsAsThen, Found, Moved, OnlyFiles, OnlyPlace, OnlyIndex, OnlyStores,
            SameIndex, SameStores, SameFiles, SameMemory, Placed
<1>1. Upload \in Seq(Steps) /\ Len(Upload) = 4
  BY DEF Upload, Steps
<1>2. /\ n \in 1..4
      /\ n = 4 => Head(todo[p]) = "lookup"
      /\ n = 3 => Head(todo[p]) = "store"
      /\ n = 2 => Head(todo[p]) = "insert"
      /\ n = 1 => Head(todo[p]) = "refresh"
  <2>1. n \in 1..Len(Upload) /\ Head(todo[p]) = Upload[Len(Upload) - n + 1]
    BY <1>1, WalkStep
  <2> HIDE DEF n
  <2> QED BY <2>1 DEF Upload
<1>3. /\ Goes(p) => Forward(p)' /\ Len(todo[p])' = n - 1
      /\ Waits(p) => Forward(p)' /\ Len(todo[p])' = n
      /\ Stops(p) => ~Forward(p)' /\ (Head(todo[p]) \notin Settled =>
                       outcome'[p] = "failed" /\ todo'[p] = UndoUpload(Head(todo[p])))
  BY <1>1, WalkStep DEF Stops, Undo
<1>4. /\ RowThen(p)' = RowThen(p) /\ PlaceThen(p)' = PlaceThen(p)
      /\ PointsThen(p)' = PointsThen(p) /\ HiddenThen(p)' = HiddenThen(p)
      /\ OthersThen(p)' = OthersThen(p)
  BY RecordStays
<1>5. /\ Paths = {"source", "parsing", "chunking", "evidence"}
      /\ PlaceThen(p) \in [Paths -> Content] /\ OnUpload(p, n)
  BY DEF Paths, Recorded
<1>6. CASE n = 4
  <2>1. Head(todo[p]) = "lookup"
    BY <1>2, <1>6
  <2>4. OnlyStores(p) /\ SameStores /\ (Goes(p) \/ Stops(p))
    BY <1>4, <2>1, OtherEffects
  <2>2. ASSUME Goes(p) PROVE (Forward(p) /\ OnUpload(p, Len(todo[p])))'
    <3>1. Forward(p)' /\ Len(todo[p])' = 3 /\ ~Stops(p)
      BY <1>3, <1>6, <2>2
    <3>2. OnUpload(p, 3)'
      BY <1>4, <1>5, <1>6, <2>2, <2>4, <3>1 DEF OnUpload
    <3> QED BY <3>1, <3>2 DEF OnUpload
  <2>3. ASSUME Stops(p) PROVE Failed(p)'
    <3>1. outcome'[p] = "failed" /\ InOrder(todo'[p]) /\ Left(p)' = {} /\ ~Goes(p)
      BY <1>3, <2>1, <2>3, ShortCompensations DEF Compensating, Left, Settled, UndoUpload
    <3> QED BY <1>4, <1>5, <1>6, <2>3, <2>4, <3>1 DEF Failed, Back, BackSteps, FilesBack,
          PointsBack, Pending, OnUpload
  <2> QED BY <2>2, <2>3, <2>4
<1>7. CASE n = 3
  <2>1. Head(todo[p]) = "store"
    BY <1>2, <1>7
  <2>4. /\ OnlyPlace(p)
        /\ (Goes(p) /\ Placed("source", 1)) \/ (Stops(p) /\ place' = place)
    BY <1>4, <2>1, FileEffects
  <2>2. ASSUME Goes(p) PROVE (Forward(p) /\ OnUpload(p, Len(todo[p])))'
    <3>1. Forward(p)' /\ Len(todo[p])' = 2 /\ ~Stops(p)
      BY <1>3, <1>7, <2>2
    <3>2. OnUpload(p, 2)'
      BY <1>4, <1>5, <1>7, <2>2, <2>4, <3>1 DEF OnUpload
    <3> QED BY <3>1, <3>2 DEF OnUpload
  <2>3. ASSUME Stops(p) PROVE Failed(p)'
    <3>1. outcome'[p] = "failed" /\ InOrder(todo'[p]) /\ Left(p)' = {"unplace"} /\ ~Goes(p)
      BY <1>3, <2>1, <2>3, ShortCompensations DEF Compensating, Left, Settled, UndoUpload
    <3> QED BY <1>4, <1>5, <1>7, <2>3, <2>4, <3>1 DEF Failed, Back, BackSteps, FilesBack,
          PointsBack, Pending, OnUpload
  <2> QED BY <2>2, <2>3, <2>4
<1>8. CASE n = 2
  <2>1. Head(todo[p]) = "insert"
    BY <1>2, <1>8
  <2>4. /\ OnlyStores(p) /\ others' = others
        /\ (Goes(p) /\ row') \/ (Stops(p) /\ row' = row)
    BY <1>4, <2>1, OtherEffects
  <2>2. ASSUME Goes(p) PROVE (Forward(p) /\ OnUpload(p, Len(todo[p])))'
    <3>1. Forward(p)' /\ Len(todo[p])' = 1 /\ ~Stops(p)
      BY <1>3, <1>8, <2>2
    <3>2. OnUpload(p, 1)'
      BY <1>4, <1>5, <1>8, <2>2, <2>4, <3>1 DEF OnUpload
    <3> QED BY <3>1, <3>2 DEF OnUpload
  <2>3. ASSUME Stops(p) PROVE Failed(p)'
    <3>1. outcome'[p] = "failed" /\ InOrder(todo'[p]) /\ Left(p)' = {"unplace"} /\ ~Goes(p)
      BY <1>3, <2>1, <2>3, ShortCompensations DEF Compensating, Left, Settled, UndoUpload
    <3> QED BY <1>4, <1>5, <1>8, <2>3, <2>4, <3>1 DEF Failed, Back, BackSteps, FilesBack,
          PointsBack, Pending, OnUpload
  <2> QED BY <2>2, <2>3, <2>4
<1>9. CASE n = 1
  <2>1. Head(todo[p]) = "refresh"
    BY <1>2, <1>9
  <2>4. OnlyStores(p) /\ SameStores /\ (Goes(p) \/ Stops(p))
    BY <1>4, <2>1, OtherEffects
  <2>2. ASSUME Goes(p) PROVE (Forward(p) /\ OnUpload(p, Len(todo[p])))'
    <3>1. Forward(p)' /\ Len(todo[p])' = 0 /\ ~Stops(p)
      BY <1>3, <1>9, <2>2
    <3>2. OnUpload(p, 0)'
      BY <1>4, <1>5, <1>9, <2>2, <2>4, <3>1 DEF OnUpload
    <3> QED BY <3>1, <3>2 DEF OnUpload
  <2>3. ASSUME Stops(p) PROVE Partial(p)'
    <3>1. outcome'[p] = "partial" /\ todo'[p] = <<>> /\ op'[p] = "upload" /\ ~Goes(p)
      BY <1>3, <2>1, <2>3, RecordStays DEF Stops, Settled, Undo, UndoUpload
    <3> QED BY <1>4, <1>5, <1>9, <2>3, <2>4, <3>1 DEF Partial, OnUpload
  <2> QED BY <2>2, <2>3, <2>4
<1> QED BY <1>2, <1>6, <1>7, <1>8, <1>9

LEMMA DeleteGoes ==
    ASSUME TypeOK, NEW p \in Procs, Step(p), Smooth', Recorded(p), op[p] = "delete",
           Walks(p, Delete), OnDelete(p, Len(todo[p]))
    PROVE  (Forward(p) /\ OnDelete(p, Len(todo[p])))' \/ Failed(p)' \/ Partial(p)'
<1> DEFINE n == Len(todo[p])
<1> USE DEF StoresAsThen, PointsAsThen, Found, Moved, OnlyFiles, OnlyPlace, OnlyIndex, OnlyStores,
            SameIndex, SameStores, SameFiles, SameMemory, Placed
<1>1. Delete \in Seq(Steps) /\ Len(Delete) = 11
  BY DEF Delete, Steps
<1>2. /\ n \in 1..11
      /\ n = 11 => Head(todo[p]) = "source"
      /\ n = 10 => Head(todo[p]) = "parsing"
      /\ n = 9 => Head(todo[p]) = "chunking"
      /\ n = 8 => Head(todo[p]) = "evidence"
      /\ n = 7 => Head(todo[p]) = "snapshot"
      /\ n = 6 => Head(todo[p]) = "hide"
      /\ n = 5 => Head(todo[p]) = "commit"
      /\ n = 4 => Head(todo[p]) = "ungraph"
      /\ n = 3 => Head(todo[p]) = "unpoint"
      /\ n = 2 => Head(todo[p]) = "purge"
      /\ n = 1 => Head(todo[p]) = "untext"
  <2>1. n \in 1..Len(Delete) /\ Head(todo[p]) = Delete[Len(Delete) - n + 1]
    BY <1>1, WalkStep
  <2> HIDE DEF n
  <2> QED BY <2>1 DEF Delete
<1>3. /\ Goes(p) => Forward(p)' /\ Len(todo[p])' = n - 1
      /\ Waits(p) => Forward(p)' /\ Len(todo[p])' = n
      /\ Stops(p) => ~Forward(p)' /\ (Head(todo[p]) \notin Settled =>
                       outcome'[p] = "failed" /\ todo'[p] = UndoDelete(Head(todo[p])))
  BY <1>1, WalkStep DEF Stops, Undo
<1>4. /\ RowThen(p)' = RowThen(p) /\ PlaceThen(p)' = PlaceThen(p)
      /\ PointsThen(p)' = PointsThen(p) /\ HiddenThen(p)' = HiddenThen(p)
      /\ OthersThen(p)' = OthersThen(p)
  BY RecordStays
<1>5. /\ Paths = {"source", "parsing", "chunking", "evidence"}
      /\ PlaceThen(p) \in [Paths -> Content] /\ OnDelete(p, n)
  BY DEF Paths, Recorded
<1>6. CASE n = 11
  <2>1. Head(todo[p]) = "source"
    BY <1>2, <1>6
  <2>4. /\ OnlyFiles(p) /\ UNCHANGED <<backup[p], made[p]>>
        /\ \/ Goes(p) /\ place["source"] = 0 /\ SameFiles(p)
           \/ /\ Goes(p) /\ place["source"] # 0 /\ Placed("source", 0)
              /\ \A x \in Paths : trash'[p][x] = IF x = "source" THEN place["source"] ELSE trash[p][x]
           \/ Stops(p) /\ SameFiles(p)
    BY <1>4, <2>1, TrashEffect DEF Paths
  <2>6. Gone(11) = {} /\ Gone(10) = {"source"}
    BY <1>5 DEF Gone, Turn
  <2>2. ASSUME Goes(p) PROVE (Forward(p) /\ OnDelete(p, Len(todo[p])))'
    <3>1. Forward(p)' /\ Len(todo[p])' = 10 /\ ~Stops(p)
      BY <1>3, <1>6, <2>2
    <3>2. OnDelete(p, 10)'
      BY <2>6, <1>4, <1>5, <1>6, <2>2, <2>4, <3>1 DEF OnDelete
    <3> QED BY <3>1, <3>2 DEF OnDelete
  <2>3. ASSUME Stops(p) PROVE Failed(p)'
    <3>1. outcome'[p] = "failed" /\ InOrder(todo'[p]) /\ Left(p)' = {"undo"} /\ ~Goes(p)
      BY <1>3, <2>1, <2>3, ShortCompensations DEF Compensating, Left, Settled, UndoDelete
    <3> QED BY <2>6, <1>4, <1>5, <1>6, <2>3, <2>4, <3>1 DEF Failed, Back, BackSteps, FilesBack,
          PointsBack, Pending, OnDelete
  <2> QED BY <2>2, <2>3, <2>4
<1>7. CASE n = 10
  <2>1. Head(todo[p]) = "parsing"
    BY <1>2, <1>7
  <2>4. /\ OnlyFiles(p) /\ UNCHANGED <<backup[p], made[p]>>
        /\ \/ Goes(p) /\ place["parsing"] = 0 /\ SameFiles(p)
           \/ /\ Goes(p) /\ place["parsing"] # 0 /\ Placed("parsing", 0)
              /\ \A x \in Paths : trash'[p][x] = IF x = "parsing" THEN place["parsing"] ELSE trash[p][x]
           \/ Stops(p) /\ SameFiles(p)
    BY <1>4, <2>1, TrashEffect DEF Paths
  <2>6. Gone(10) = {"source"} /\ Gone(9) = {"source", "parsing"}
    BY <1>5 DEF Gone, Turn
  <2>2. ASSUME Goes(p) PROVE (Forward(p) /\ OnDelete(p, Len(todo[p])))'
    <3>1. Forward(p)' /\ Len(todo[p])' = 9 /\ ~Stops(p)
      BY <1>3, <1>7, <2>2
    <3>2. OnDelete(p, 9)'
      BY <2>6, <1>4, <1>5, <1>7, <2>2, <2>4, <3>1 DEF OnDelete
    <3> QED BY <3>1, <3>2 DEF OnDelete
  <2>3. ASSUME Stops(p) PROVE Failed(p)'
    <3>1. outcome'[p] = "failed" /\ InOrder(todo'[p]) /\ Left(p)' = {"undo"} /\ ~Goes(p)
      BY <1>3, <2>1, <2>3, ShortCompensations DEF Compensating, Left, Settled, UndoDelete
    <3> QED BY <2>6, <1>4, <1>5, <1>7, <2>3, <2>4, <3>1 DEF Failed, Back, BackSteps, FilesBack,
          PointsBack, Pending, OnDelete
  <2> QED BY <2>2, <2>3, <2>4
<1>8. CASE n = 9
  <2>1. Head(todo[p]) = "chunking"
    BY <1>2, <1>8
  <2>4. /\ OnlyFiles(p) /\ UNCHANGED <<backup[p], made[p]>>
        /\ \/ Goes(p) /\ place["chunking"] = 0 /\ SameFiles(p)
           \/ /\ Goes(p) /\ place["chunking"] # 0 /\ Placed("chunking", 0)
              /\ \A x \in Paths : trash'[p][x] = IF x = "chunking" THEN place["chunking"] ELSE trash[p][x]
           \/ Stops(p) /\ SameFiles(p)
    BY <1>4, <2>1, TrashEffect DEF Paths
  <2>6. Gone(9) = {"source", "parsing"} /\ Gone(8) = {"source", "parsing", "chunking"}
    BY <1>5 DEF Gone, Turn
  <2>2. ASSUME Goes(p) PROVE (Forward(p) /\ OnDelete(p, Len(todo[p])))'
    <3>1. Forward(p)' /\ Len(todo[p])' = 8 /\ ~Stops(p)
      BY <1>3, <1>8, <2>2
    <3>2. OnDelete(p, 8)'
      BY <2>6, <1>4, <1>5, <1>8, <2>2, <2>4, <3>1 DEF OnDelete
    <3> QED BY <3>1, <3>2 DEF OnDelete
  <2>3. ASSUME Stops(p) PROVE Failed(p)'
    <3>1. outcome'[p] = "failed" /\ InOrder(todo'[p]) /\ Left(p)' = {"undo"} /\ ~Goes(p)
      BY <1>3, <2>1, <2>3, ShortCompensations DEF Compensating, Left, Settled, UndoDelete
    <3> QED BY <2>6, <1>4, <1>5, <1>8, <2>3, <2>4, <3>1 DEF Failed, Back, BackSteps, FilesBack,
          PointsBack, Pending, OnDelete
  <2> QED BY <2>2, <2>3, <2>4
<1>9. CASE n = 8
  <2>1. Head(todo[p]) = "evidence"
    BY <1>2, <1>9
  <2>4. /\ OnlyFiles(p) /\ UNCHANGED <<backup[p], made[p]>>
        /\ \/ Goes(p) /\ place["evidence"] = 0 /\ SameFiles(p)
           \/ /\ Goes(p) /\ place["evidence"] # 0 /\ Placed("evidence", 0)
              /\ \A x \in Paths : trash'[p][x] = IF x = "evidence" THEN place["evidence"] ELSE trash[p][x]
           \/ Stops(p) /\ SameFiles(p)
    BY <1>4, <2>1, TrashEffect DEF Paths
  <2>6. /\ Gone(8) = {"source", "parsing", "chunking"}
        /\ Gone(7) = {"source", "parsing", "chunking", "evidence"}
    BY <1>5 DEF Gone, Turn
  <2>2. ASSUME Goes(p) PROVE (Forward(p) /\ OnDelete(p, Len(todo[p])))'
    <3>1. Forward(p)' /\ Len(todo[p])' = 7 /\ ~Stops(p)
      BY <1>3, <1>9, <2>2
    <3>2. OnDelete(p, 7)'
      BY <2>6, <1>4, <1>5, <1>9, <2>2, <2>4, <3>1 DEF OnDelete
    <3> QED BY <3>1, <3>2 DEF OnDelete
  <2>3. ASSUME Stops(p) PROVE Failed(p)'
    <3>1. outcome'[p] = "failed" /\ InOrder(todo'[p]) /\ Left(p)' = {"undo"} /\ ~Goes(p)
      BY <1>3, <2>1, <2>3, ShortCompensations DEF Compensating, Left, Settled, UndoDelete
    <3> QED BY <2>6, <1>4, <1>5, <1>9, <2>3, <2>4, <3>1 DEF Failed, Back, BackSteps, FilesBack,
          PointsBack, Pending, OnDelete
  <2> QED BY <2>2, <2>3, <2>4
<1>10. CASE n = 7
  <2>1. Head(todo[p]) = "snapshot"
    BY <1>2, <1>10
  <2>4. /\ SameFiles(p) /\ SameIndex /\ SameStores /\ kept'[p] = kept[p]
        /\ (Goes(p) /\ had'[p] = [at |-> points, hidden |-> hidden]) \/ Stops(p)
    BY <1>4, <2>1, OtherEffects
  <2>6. /\ Gone(7) = {"source", "parsing", "chunking", "evidence"}
        /\ Gone(6) = {"source", "parsing", "chunking", "evidence"}
    BY <1>5 DEF Gone, Turn
  <2>2. ASSUME Goes(p) PROVE (Forward(p) /\ OnDelete(p, Len(todo[p])))'
    <3>1. Forward(p)' /\ Len(todo[p])' = 6 /\ ~Stops(p)
      BY <1>3, <1>10, <2>2
    <3>2. OnDelete(p, 6)'
      BY <2>6, <1>4, <1>5, <1>10, <2>2, <2>4, <3>1 DEF OnDelete, HadThen
    <3> QED BY <3>1, <3>2 DEF OnDelete
  <2>3. ASSUME Stops(p) PROVE Failed(p)'
    <3>1. outcome'[p] = "failed" /\ InOrder(todo'[p]) /\ Left(p)' = {"undo"} /\ ~Goes(p)
      BY <1>3, <2>1, <2>3, ShortCompensations DEF Compensating, Left, Settled, UndoDelete
    <3> QED BY <2>6, <1>4, <1>5, <1>10, <2>3, <2>4, <3>1 DEF Failed, Back, BackSteps, FilesBack,
          PointsBack, Pending, OnDelete
  <2> QED BY <2>2, <2>3, <2>4
<1>11. CASE n = 6
  <2>1. Head(todo[p]) = "hide"
    BY <1>2, <1>11
  <2>4. /\ OnlyIndex(p) /\ points' = points
        /\ \/ Goes(p) /\ SameIndex /\ (HadIds(p) \ had[p].hidden) \cap Visible = {}
           \/ (Waits(p) \/ Stops(p)) /\ hidden \subseteq hidden' /\ hidden' \subseteq Stored
    BY <1>4, <2>1, IndexEffects
  <2>6. /\ Gone(6) = {"source", "parsing", "chunking", "evidence"}
        /\ Gone(5) = {"source", "parsing", "chunking", "evidence"}
    BY <1>5 DEF Gone, Turn
  <2>2. ASSUME Goes(p) PROVE (Forward(p) /\ OnDelete(p, Len(todo[p])))'
    <3>1. Forward(p)' /\ Len(todo[p])' = 5 /\ ~Stops(p) /\ ~Waits(p)
      BY <1>3, <1>11, <2>2
    <3>2. OnDelete(p, 5)'
      BY <2>6, <1>4, <1>5, <1>11, <2>2, <2>4, <3>1 DEF OnDelete, Visible, Stored, HadThen, HadIds
    <3> QED BY <3>1, <3>2 DEF OnDelete
  <2>3. ASSUME Stops(p) PROVE Failed(p)'
    <3>1. /\ outcome'[p] = "failed" /\ InOrder(todo'[p])
          /\ Left(p)' = {"unhide", "undo"} /\ ~Goes(p) /\ ~Waits(p)
      BY <1>3, <2>1, <2>3, ShortCompensations DEF Compensating, Left, Settled, UndoDelete
    <3> QED BY <2>6, <1>4, <1>5, <1>11, <2>3, <2>4, <3>1 DEF Failed, Back, BackSteps, FilesBack,
          PointsBack, Pending, OnDelete, HadThen
  <2>5. ASSUME Waits(p) PROVE (Forward(p) /\ OnDelete(p, Len(todo[p])))'
    <3>1. Forward(p)' /\ Len(todo[p])' = 6 /\ ~Goes(p) /\ ~Stops(p)
      BY <1>3, <1>11, <2>5
    <3>2. OnDelete(p, 6)'
      BY <1>4, <1>5, <1>11, <2>4, <2>5, <3>1, <2>6 DEF OnDelete, HadThen, HadIds
    <3> QED BY <3>1, <3>2 DEF OnDelete
  <2> QED BY <2>2, <2>3, <2>4, <2>5
<1>12. CASE n = 5
  <2>1. Head(todo[p]) = "commit"
    BY <1>2, <1>12
  <2>4. /\ OnlyStores(p) /\ others' = others
        /\ (Goes(p) /\ ~row') \/ (Stops(p) /\ row' = row)
    BY <1>4, <2>1, OtherEffects
  <2>6. /\ Gone(5) = {"source", "parsing", "chunking", "evidence"}
        /\ Gone(4) = {"source", "parsing", "chunking", "evidence"}
    BY <1>5 DEF Gone, Turn
  <2>2. ASSUME Goes(p) PROVE (Forward(p) /\ OnDelete(p, Len(todo[p])))'
    <3>1. Forward(p)' /\ Len(todo[p])' = 4 /\ ~Stops(p)
      BY <1>3, <1>12, <2>2
    <3>2. OnDelete(p, 4)'
      BY <2>6, <1>4, <1>5, <1>12, <2>2, <2>4, <3>1 DEF OnDelete, Visible, Stored
    <3> QED BY <3>1, <3>2 DEF OnDelete
  <2>3. ASSUME Stops(p) PROVE Failed(p)'
    <3>1. outcome'[p] = "failed" /\ InOrder(todo'[p]) /\ Left(p)' = {"undo", "show"} /\ ~Goes(p)
      BY <1>3, <2>1, <2>3, ShortCompensations DEF Compensating, Left, Settled, UndoDelete
    <3> QED BY <2>6, <1>4, <1>5, <1>12, <2>3, <2>4, <3>1 DEF Failed, Back, BackSteps, FilesBack,
          PointsBack, Pending, OnDelete, HadThen
  <2> QED BY <2>2, <2>3, <2>4
<1>13. CASE n = 4
  <2>1. Head(todo[p]) = "ungraph"
    BY <1>2, <1>13
  <2>4. /\ OnlyStores(p) /\ row' = row
        /\ (Goes(p) /\ others' = others \ {"graph"}) \/ Stops(p)
    BY <1>4, <2>1, OtherEffects DEF Cleared
  <2>6. /\ Gone(4) = {"source", "parsing", "chunking", "evidence"}
        /\ Gone(3) = {"source", "parsing", "chunking", "evidence"}
    BY <1>5 DEF Gone, Turn
  <2>2. ASSUME Goes(p) PROVE (Forward(p) /\ OnDelete(p, Len(todo[p])))'
    <3>1. Forward(p)' /\ Len(todo[p])' = 3 /\ ~Stops(p)
      BY <1>3, <1>13, <2>2
    <3>2. OnDelete(p, 3)'
      BY <2>6, <1>4, <1>5, <1>13, <2>2, <2>4, <3>1 DEF OnDelete, Visible, Stored
    <3> QED BY <3>1, <3>2 DEF OnDelete
  <2>3. ASSUME Stops(p) PROVE Partial(p)'
    <3>1. outcome'[p] = "partial" /\ todo'[p] = <<>> /\ op'[p] = "delete" /\ ~Goes(p)
      BY <1>3, <2>1, <2>3, RecordStays DEF Stops, Settled, Undo, UndoDelete
    <3> QED BY <1>4, <1>5, <1>13, <2>3, <2>4, <3>1 DEF Partial, OnDelete, Visible, Stored
  <2> QED BY <2>2, <2>3, <2>4
<1>14. CASE n = 3
  <2>1. Head(todo[p]) = "unpoint"
    BY <1>2, <1>14
  <2>4. /\ OnlyIndex(p)
        /\ \/ Goes(p) /\ Remove(PointIds)
           \/ Stops(p) /\ (SameIndex \/ Remove(PointIds))
    BY <1>4, <2>1, IndexEffects
  <2>6. /\ Gone(3) = {"source", "parsing", "chunking", "evidence"}
        /\ Gone(2) = {"source", "parsing", "chunking", "evidence"}
    BY <1>5 DEF Gone, Turn
  <2>2. ASSUME Goes(p) PROVE (Forward(p) /\ OnDelete(p, Len(todo[p])))'
    <3>1. Forward(p)' /\ Len(todo[p])' = 2 /\ ~Stops(p)
      BY <1>3, <1>14, <2>2
    <3>2. OnDelete(p, 2)'
      BY <2>6, <1>4, <1>5, <1>14, <2>2, <2>4, <3>1 DEF OnDelete, Visible, Stored, Remove
    <3> QED BY <3>1, <3>2 DEF OnDelete
  <2>3. ASSUME Stops(p) PROVE Partial(p)'
    <3>1. outcome'[p] = "partial" /\ todo'[p] = <<>> /\ op'[p] = "delete" /\ ~Goes(p)
      BY <1>3, <2>1, <2>3, RecordStays DEF Stops, Settled, Undo, UndoDelete
    <3> QED BY <1>4, <1>5, <1>14, <2>3, <2>4, <3>1 DEF Partial, OnDelete, Visible, Stored, Remove
  <2> QED BY <2>2, <2>3, <2>4
<1>15. CASE n = 2
  <2>1. Head(todo[p]) = "purge"
    BY <1>2, <1>15
  <2>4. /\ OnlyFiles(p) /\ place' = place /\ made'[p] = made[p]
        /\ \/ Goes(p) /\ trash'[p] = Nothing
           \/ Stops(p) /\ SameFiles(p)
    BY <1>4, <2>1, FileEffects
  <2>6. /\ Gone(2) = {"source", "parsing", "chunking", "evidence"}
        /\ Gone(1) = {"source", "parsing", "chunking", "evidence"}
    BY <1>5 DEF Gone, Turn
  <2>2. ASSUME Goes(p) PROVE (Forward(p) /\ OnDelete(p, Len(todo[p])))'
    <3>1. Forward(p)' /\ Len(todo[p])' = 1 /\ ~Stops(p)
      BY <1>3, <1>15, <2>2
    <3>2. OnDelete(p, 1)'
      BY <2>6, <1>4, <1>5, <1>15, <2>2, <2>4, <3>1 DEF OnDelete, Visible, Stored
    <3> QED BY <3>1, <3>2 DEF OnDelete
  <2>3. ASSUME Stops(p) PROVE Partial(p)'
    <3>1. outcome'[p] = "partial" /\ todo'[p] = <<>> /\ op'[p] = "delete" /\ ~Goes(p)
      BY <1>3, <2>1, <2>3, RecordStays DEF Stops, Settled, Undo, UndoDelete
    <3> QED BY <1>4, <1>5, <1>15, <2>3, <2>4, <3>1 DEF Partial, OnDelete, Visible, Stored
  <2> QED BY <2>2, <2>3, <2>4
<1>16. CASE n = 1
  <2>1. Head(todo[p]) = "untext"
    BY <1>2, <1>16
  <2>4. /\ OnlyStores(p) /\ row' = row
        /\ (Goes(p) /\ others' = others \ {"text"}) \/ Stops(p)
    BY <1>4, <2>1, OtherEffects DEF Cleared
  <2>6. /\ Gone(1) = {"source", "parsing", "chunking", "evidence"}
        /\ Gone(0) = {"source", "parsing", "chunking", "evidence"}
    BY <1>5 DEF Gone, Turn
  <2>2. ASSUME Goes(p) PROVE (Forward(p) /\ OnDelete(p, Len(todo[p])))'
    <3>1. Forward(p)' /\ Len(todo[p])' = 0 /\ ~Stops(p)
      BY <1>3, <1>16, <2>2
    <3>2. OnDelete(p, 0)'
      BY <2>6, <1>4, <1>5, <1>16, <2>2, <2>4, <3>1 DEF OnDelete, Visible, Stored
    <3> QED BY <3>1, <3>2 DEF OnDelete
  <2>3. ASSUME Stops(p) PROVE Partial(p)'
    <3>1. outcome'[p] = "partial" /\ todo'[p] = <<>> /\ op'[p] = "delete" /\ ~Goes(p)
      BY <1>3, <2>1, <2>3, RecordStays DEF Stops, Settled, Undo, UndoDelete
    <3> QED BY <1>4, <1>5, <1>16, <2>3, <2>4, <3>1 DEF Partial, OnDelete, Visible, Stored
  <2> QED BY <2>2, <2>3, <2>4
<1> QED BY <1>2, <1>6, <1>7, <1>8, <1>9, <1>10, <1>11, <1>12, <1>13, <1>14, <1>15, <1>16

LEMMA PublishGoes ==
    ASSUME TypeOK, TypeOK', NEW p \in Procs, Step(p), Smooth', Recorded(p), op[p] = "publish",
           Walks(p, Publish), OnPublish(p, Len(todo[p]))
    PROVE  (Forward(p) /\ OnPublish(p, Len(todo[p])))' \/ FailedPublication(p)'
<1> DEFINE n == Len(todo[p])
<1> USE DEF OnlyPlace, OnlyFiles, OnlyStores, SameFiles
<1>1. Publish \in Seq(Steps) /\ Len(Publish) = 7
  BY DEF Publish, Replace, Steps
<1>2. /\ n \in 1..7
      /\ n = 7 => Head(todo[p]) = "write"
      /\ n = 6 => Head(todo[p]) = "text"
      /\ n = 5 => Head(todo[p]) = "scan"
      /\ n = 4 => Head(todo[p]) = "upsert"
      /\ n = 3 => Head(todo[p]) = "stale"
      /\ n = 2 => Head(todo[p]) = "sparse"
      /\ n = 1 => Head(todo[p]) = "visual"
  <2>1. n \in 1..Len(Publish) /\ Head(todo[p]) = Publish[Len(Publish) - n + 1]
    BY <1>1, WalkStep
  <2> HIDE DEF n
  <2> QED BY <2>1 DEF Publish, Replace
<1>3. /\ Goes(p) => Forward(p)' /\ Len(todo[p])' = n - 1
      /\ Waits(p) => Forward(p)' /\ Len(todo[p])' = n
      /\ Stops(p) => ~Forward(p)'
  BY <1>1, WalkStep
<1>4. OnPublish(p, n) /\ made[p] # 0
  BY DEF OnPublish
<1>5. /\ PointsThen(p)' = PointsThen(p) /\ HiddenThen(p)' = HiddenThen(p)
      /\ SameIndex /\ PointsAsThen(p) => PointsAsThen(p)'
      /\ SameIndex /\ made'[p] = made[p] /\ Whole(made[p]) => Whole(made[p])'
  BY RecordStays DEF SameIndex, PointsAsThen, Whole, Visible, Stored
<1>6. ASSUME Stops(p)
      PROVE  /\ outcome'[p] = "failed" /\ InOrder(todo'[p])
             /\ Left(p)' \subseteq WithdrawSteps
             /\ Followed(todo[p], "unstore", "unpoint")' /\ Followed(todo[p], "restore", "unpoint")'
             /\ Head(todo[p]) \in {"scan", "upsert", "stale", "sparse", "visual"} =>
                  "unpoint" \in Left(p)'
  <2>1. Head(todo[p]) \in {"write", "text", "scan", "upsert", "stale", "sparse", "visual"}
    BY <1>2
  <2>2. outcome'[p] = "failed" /\ todo'[p] = UndoPublish(Head(todo[p]))
    BY <1>6, <2>1 DEF Stops, Undo, Settled
  <2>3. /\ Withdrawing(todo'[p])
        /\ Head(todo[p]) \in {"scan", "upsert", "stale", "sparse", "visual"} =>
             "unpoint" \in LabelsOf(todo'[p])
    BY <2>1, <2>2, WithdrawingCompensations DEF UndoPublish
  <2> QED BY <2>2, <2>3 DEF Withdrawing, Left, Followed
<1>7. Stops(p) /\ (Head(todo[p]) \in {"write", "text"} => PointsAsThen(p)') => FailedPublication(p)'
  BY <1>2, <1>6 DEF FailedPublication, Withdrawn
<1>8. CASE n = 7
  <2>1. Head(todo[p]) = "write" /\ PointsAsThen(p)
    BY <1>2, <1>4, <1>8 DEF OnPublish, Replacing
  <2>2. /\ SameIndex /\ made'[p] = made[p]
        /\ (Goes(p) /\ Placed("evidence", made[p])) \/ Stops(p)
    BY <2>1, FileEffects
  <2>3. Goes(p) /\ Placed("evidence", made[p]) => Forward(p)' /\ Len(todo[p])' = 6 /\ OnPublish(p, 6)'
    BY <1>3, <1>4, <1>5, <1>8, <2>1, <2>2 DEF OnPublish, Replacing, Placed, Paths
  <2>4. Forward(p)' /\ Len(todo[p])' = 6 /\ OnPublish(p, 6)' => OnPublish(p, Len(todo[p]))'
    BY DEF OnPublish
  <2> QED BY <1>5, <1>7, <2>1, <2>2, <2>3, <2>4
<1>9. CASE n = 6
  <2>1. Head(todo[p]) = "text" /\ PointsAsThen(p)
    BY <1>2, <1>4, <1>9 DEF OnPublish, Replacing
  <2>2. /\ SameIndex /\ place' = place /\ made'[p] = made[p]
        /\ (Goes(p) /\ others' = others \cup {"text"}) \/ Stops(p)
    BY <2>1, OtherEffects
  <2>3. Goes(p) /\ others' = others \cup {"text"} =>
          Forward(p)' /\ Len(todo[p])' = 5 /\ OnPublish(p, 5)'
    BY <1>3, <1>4, <1>5, <1>9, <2>1, <2>2 DEF OnPublish, Replacing
  <2>4. Forward(p)' /\ Len(todo[p])' = 5 /\ OnPublish(p, 5)' => OnPublish(p, Len(todo[p]))'
    BY DEF OnPublish
  <2> QED BY <1>5, <1>7, <2>1, <2>2, <2>3, <2>4
<1>10. ASSUME NEW k \in 1..3, n = k + 2
       PROVE  (Forward(p) /\ OnPublish(p, Len(todo[p])))' \/ FailedPublication(p)'
  <2>1. /\ Replacing(p, k)
        /\ Head(todo[p]) = IF k = 3 THEN "scan" ELSE IF k = 2 THEN "upsert" ELSE "stale"
    BY <1>2, <1>4, <1>10 DEF OnPublish
  <2>2. /\ SameFiles(p) /\ SameStores
        /\ \/ Goes(p) /\ Replacing(p, k - 1)'
           \/ Waits(p) /\ Replacing(p, k)'
           \/ Stops(p)
    BY <1>4, <2>1, ReplaceGoes
  <2>3. /\ made'[p] = made[p] /\ made[p] # 0
        /\ place'["evidence"] = made[p] /\ "text" \in others'
    BY <1>4, <1>10, <2>2 DEF OnPublish, SameStores
  <2>4. ASSUME NEW j \in {k - 1, k}, Replacing(p, j)' PROVE OnPublish(p, j + 2)'
    <3>1. (j + 2) - 2 = j /\ ~(j + 2 <= 1) /\ ~(j + 2 <= 0)
      BY <1>10
    <3> HIDE DEF n
    <3> QED BY <2>3, <2>4, <3>1 DEF OnPublish
  <2>5. ASSUME NEW m \in Nat, Len(todo[p])' = m, OnPublish(p, m)'
        PROVE  OnPublish(p, Len(todo[p]))'
    BY <2>5 DEF OnPublish
  <2>6. Goes(p) /\ Replacing(p, k - 1)' => Forward(p)' /\ OnPublish(p, Len(todo[p]))'
    <3>1. (k - 1) + 2 = k + 1 /\ k + 1 \in Nat /\ n - 1 = k + 1
      BY <1>10
    <3>2. Replacing(p, k - 1)' => OnPublish(p, k + 1)'
      BY <2>4, <3>1
    <3> QED BY <1>3, <2>5, <3>1, <3>2
  <2>7. Waits(p) /\ Replacing(p, k)' => Forward(p)' /\ OnPublish(p, Len(todo[p]))'
    <3>1. Replacing(p, k)' => OnPublish(p, k + 2)'
      BY <2>4
    <3> QED BY <1>3, <1>10, <2>5, <3>1
  <2> QED BY <1>7, <2>1, <2>2, <2>6, <2>7
<1>11. CASE n = 2
  <2>1. Head(todo[p]) = "sparse" /\ Whole(made[p])
    BY <1>2, <1>4, <1>11 DEF OnPublish, Replacing
  <2>2. /\ SameIndex /\ place' = place /\ made'[p] = made[p]
        /\ (Goes(p) /\ others' = others \cup {"sparse"}) \/ Stops(p)
    BY <2>1, OtherEffects
  <2>3. Goes(p) /\ others' = others \cup {"sparse"} =>
          Forward(p)' /\ Len(todo[p])' = 1 /\ OnPublish(p, 1)'
    BY <1>3, <1>4, <1>5, <1>11, <2>1, <2>2 DEF OnPublish, Replacing
  <2>4. Forward(p)' /\ Len(todo[p])' = 1 /\ OnPublish(p, 1)' => OnPublish(p, Len(todo[p]))'
    BY DEF OnPublish
  <2> QED BY <1>7, <2>1, <2>2, <2>3, <2>4
<1>12. CASE n = 1
  <2>1. Head(todo[p]) = "visual" /\ Whole(made[p])
    BY <1>2, <1>4, <1>12 DEF OnPublish, Replacing
  <2>2. /\ SameIndex /\ place' = place /\ made'[p] = made[p]
        /\ (Goes(p) /\ others' = others \cup {"visual"}) \/ Stops(p)
    BY <2>1, OtherEffects
  <2>3. Goes(p) /\ others' = others \cup {"visual"} =>
          Forward(p)' /\ Len(todo[p])' = 0 /\ OnPublish(p, 0)'
    BY <1>3, <1>4, <1>5, <1>12, <2>1, <2>2 DEF OnPublish, Replacing
  <2>4. Forward(p)' /\ Len(todo[p])' = 0 /\ OnPublish(p, 0)' => OnPublish(p, Len(todo[p]))'
    BY DEF OnPublish
  <2> QED BY <1>7, <2>1, <2>2, <2>3, <2>4
<1> HIDE DEF n
<1>13. n \in {7, 6, 2, 1} \/ \E k \in 1..3 : n = k + 2
  <2>1. n = 5 => n = 3 + 2
    OBVIOUS
  <2>2. n = 4 => n = 2 + 2
    OBVIOUS
  <2>3. n = 3 => n = 1 + 2
    OBVIOUS
  <2> QED BY <1>2, <2>1, <2>2, <2>3
<1> QED BY <1>8, <1>9, <1>10, <1>11, <1>12, <1>13

LEMMA ExtractGoes ==
    ASSUME TypeOK, NEW p \in Procs, Step(p), Smooth', Recorded(p), op[p] = "extract",
           Walks(p, Extract), OnExtract(p, Len(todo[p]))
    PROVE  (Forward(p) /\ OnExtract(p, Len(todo[p])))' \/ FailedExtraction(p)'
<1>1. Extract \in Seq(Steps) /\ Len(Extract) = 1 /\ Extract[1] = "graph"
  BY DEF Extract, Steps
<1>2. Len(todo[p]) = 1 /\ Head(todo[p]) = "graph"
  <2>1. Len(todo[p]) \in 1..1 /\ Head(todo[p]) = Extract[1 - Len(todo[p]) + 1]
    BY <1>1, WalkStep
  <2>2. Len(todo[p]) = 1
    BY <2>1
  <2> QED BY <1>1, <2>1, <2>2
<1>3. /\ Goes(p) => Forward(p)' /\ Len(todo[p])' = 0
      /\ Stops(p) => outcome'[p] = "failed" /\ todo'[p] = <<>>
  <2>1. Goes(p) => Forward(p)' /\ Len(todo[p])' = Len(todo[p]) - 1
    BY <1>1, WalkStep
  <2> QED BY <1>2, <2>1 DEF Stops, Undo, Settled
<1>4. /\ OnlyStores(p)
      /\ (Goes(p) /\ others' = others \cup {"graph"}) \/ Stops(p)
  BY <1>2, OtherEffects
<1>5. PointsAsThen(p)'
  BY <1>4, RecordStays DEF OnExtract, PointsAsThen, OnlyStores, SameIndex
<1> QED BY <1>3, <1>4, <1>5 DEF OnExtract, FailedExtraction

-----------------------------------------------------------------------------
(* An operation that puts back what it found *)

\* What is left after a compensating step.
LEMMA BackMoves ==
    ASSUME TypeOK, NEW p \in Procs, todo[p] # <<>>, outcome[p] = "failed", InOrder(todo[p])
    PROVE  /\ Head(todo[p]) \in Left(p) /\ ~Stops(p)
           /\ Goes(p) => /\ outcome'[p] = "failed" /\ InOrder(todo'[p])
                         /\ Left(p)' = Left(p) \ {Head(todo[p])}
           /\ Waits(p) => /\ outcome'[p] = "failed" /\ InOrder(todo'[p]) /\ Left(p)' = Left(p)
           /\ Head(todo[p]) = "restore" => "unstore" \notin Left(p)
           /\ Head(todo[p]) = "unbackup" => "unpromote" \notin Left(p)
           /\ "unstore" \in Left(p) => "restore" \in Left(p)
           /\ "unpromote" \in Left(p) => "unbackup" \in Left(p)
<1>1. todo[p] \in Seq(Steps)
  BY DEF TypeOK
<1> QED BY <1>1, LeftTail DEF Goes, Waits, Stops, Forward, Left

\* A compensating step that does its work leaves the rest to the steps after it.
LEMMA FilesGoBack ==
    ASSUME TypeOK, NEW p \in Procs, Step(p), Smooth', Recorded(p), todo[p] # <<>>, Failed(p),
           Head(todo[p]) \in {"unplace", "undo", "unpromote", "unbackup", "unwrite"}
    PROVE  Failed(p)'
<1>1. /\ RowThen(p)' = RowThen(p) /\ PlaceThen(p)' = PlaceThen(p)
      /\ PointsThen(p)' = PointsThen(p) /\ HiddenThen(p)' = HiddenThen(p)
      /\ OthersThen(p)' = OthersThen(p) /\ Target(p)' = Target(p)
      /\ Target(p) \in {"parsing", "chunking"} /\ Paths = {"source", "parsing", "chunking", "evidence"}
  BY RecordStays DEF Target, Paths
<1>2. /\ outcome[p] = "failed" /\ InOrder(todo[p]) /\ Left(p) \subseteq BackSteps
      /\ StoresAsThen(p) /\ FilesBack(p) /\ PointsBack(p)
  BY DEF Failed, Back
<1>3. OnlyFiles(p) /\ made'[p] = made[p] /\ (Goes(p) \/ Waits(p))
  BY <1>2, FileEffects, UndoEffect DEF OnlyPlace
<1>4. StoresAsThen(p)'
  BY <1>1, <1>2, <1>3 DEF OnlyFiles, SameStores, StoresAsThen
<1>5. /\ outcome'[p] = "failed" /\ InOrder(todo'[p])
      /\ Left(p)' = Left(p) \/ Left(p)' = Left(p) \ {Head(todo[p])}
      /\ Left(p)' \subseteq BackSteps
  BY <1>2, <1>3, BackMoves
<1>6. PointsBack(p)'
  <2>1. /\ HadThen(p)' <=> HadThen(p)
        /\ HadIds(p)' = HadIds(p) /\ Stored' = Stored
        /\ PointsAsThen(p)' <=> PointsAsThen(p)
        /\ kept'[p] = kept[p] /\ points' = points
    BY <1>1, <1>3 DEF OnlyFiles, SameIndex, SameMemory, HadThen, HadIds, Stored, PointsAsThen
  <2>2. \A a \in {"repoint", "restore", "unhide", "show", "unstore"} : a \in Left(p)' <=> a \in Left(p)
    BY <1>5
  <2>3. PointsOf(made[p])' = PointsOf(made[p])
    BY <1>3 DEF PointsOf
  <2> QED BY <1>1, <1>2, <2>1, <2>2, <2>3 DEF PointsBack
<1>7. FilesBack(p)'
  <2>1. CASE Head(todo[p]) = "unplace"
    <3>1. /\ OnlyPlace(p) /\ Placed("source", 0)
          /\ "unplace" \in Left(p) /\ Left(p)' = Left(p) \ {"unplace"}
      BY <1>2, <2>1, FileEffects, BackMoves
    <3> QED BY <1>1, <1>2, <3>1 DEF FilesBack, Pending, Placed, OnlyPlace, OnlyFiles, SameMemory
  <2>2. CASE Head(todo[p]) = "undo"
    <3>1. /\ OnlyFiles(p) /\ UNCHANGED <<backup[p], made[p]>> /\ "undo" \in Left(p)
          /\ \/ /\ Left(p)' = Left(p) \ {"undo"} /\ SameFiles(p)
                /\ \A r \in Paths : trash[p][r] = 0
             \/ /\ Left(p)' = Left(p)
                /\ \E r \in Paths :
                     /\ trash[p][r] # 0 /\ place[r] = 0 /\ Placed(r, trash[p][r])
                     /\ \A x \in Paths : trash'[p][x] = IF x = r THEN 0 ELSE trash[p][x]
      BY <1>2, <2>2, UndoEffect, BackMoves
    <3> QED BY <1>1, <1>2, <3>1 DEF FilesBack, Pending, Placed, OnlyFiles, SameFiles, SameMemory
  <2>3. CASE Head(todo[p]) = "unpromote"
    <3>1. /\ OnlyPlace(p) /\ Placed(Target(p), 0) /\ Left(p)' = Left(p) \ {"unpromote"}
          /\ "unbackup" \in Left(p)
      BY <1>2, <2>3, FileEffects, BackMoves
    <3> QED BY <1>1, <1>2, <3>1 DEF FilesBack, Pending, Placed, OnlyPlace, OnlyFiles, SameMemory
  <2>4. CASE Head(todo[p]) = "unbackup"
    <3>1. /\ OnlyPlace(p) /\ Left(p)' = Left(p) \ {"unbackup"} /\ "unbackup" \in Left(p)
          /\ "unpromote" \notin Left(p)
          /\ \/ backup[p] = 0 /\ place' = place
             \/ place[Target(p)] = 0 /\ Placed(Target(p), backup[p])
      BY <1>2, <2>4, FileEffects, BackMoves
    <3> QED BY <1>1, <1>2, <3>1 DEF FilesBack, Pending, Placed, OnlyPlace, OnlyFiles, SameMemory
  <2>5. CASE Head(todo[p]) = "unwrite"
    <3>1. /\ OnlyPlace(p) /\ Placed("evidence", kept[p].evidence) /\ Left(p)' = Left(p) \ {"unwrite"}
          /\ "unwrite" \in Left(p)
      BY <1>2, <2>5, FileEffects, BackMoves
    <3> QED BY <1>1, <1>2, <3>1 DEF FilesBack, Pending, Placed, OnlyPlace, OnlyFiles, SameMemory
  <2> QED BY <2>1, <2>2, <2>3, <2>4, <2>5
<1> QED BY <1>4, <1>5, <1>6, <1>7 DEF Failed, Back

LEMMA PointsGoBack ==
    ASSUME TypeOK, TypeOK', NEW p \in Procs, Step(p), Smooth', Recorded(p), todo[p] # <<>>, Failed(p),
           Head(todo[p]) \in {"unstore", "restore", "repoint", "unhide", "show"}
    PROVE  Failed(p)'
<1>1. /\ RowThen(p)' = RowThen(p) /\ PlaceThen(p)' = PlaceThen(p)
      /\ PointsThen(p)' = PointsThen(p) /\ HiddenThen(p)' = HiddenThen(p)
      /\ OthersThen(p)' = OthersThen(p) /\ Target(p)' = Target(p)
      /\ PointsThen(p) \in [PointIds -> Content]
      /\ HiddenThen(p) \subseteq {i \in PointIds : PointsThen(p)[i] # 0}
  BY RecordStays DEF Recorded
<1>2. /\ outcome[p] = "failed" /\ InOrder(todo[p]) /\ Left(p) \subseteq BackSteps
      /\ StoresAsThen(p) /\ FilesBack(p) /\ PointsBack(p)
  BY DEF Failed, Back
<1>3. OnlyIndex(p) /\ Goes(p)
  BY <1>2, IndexEffects
<1>4. StoresAsThen(p)'
  BY <1>1, <1>2, <1>3 DEF OnlyIndex, SameStores, StoresAsThen
<1>5. /\ outcome'[p] = "failed" /\ InOrder(todo'[p]) /\ Head(todo[p]) \in Left(p)
      /\ Left(p)' = Left(p) \ {Head(todo[p])} /\ Left(p)' \subseteq BackSteps
  BY <1>2, <1>3, BackMoves
<1>6. FilesBack(p)'
  <2>1. place' = place /\ trash'[p] = trash[p] /\ backup'[p] = backup[p] /\ kept'[p] = kept[p]
    BY <1>3 DEF OnlyIndex, SameFiles, SameMemory
  <2>2. \A a \in {"unplace", "undo", "unpromote", "unbackup", "unwrite"} :
          a \in Left(p)' <=> a \in Left(p)
    BY <1>5
  <2> QED BY <1>1, <1>2, <2>1, <2>2 DEF FilesBack, Pending
<1>7. /\ points \in [PointIds -> Content] /\ points' \in [PointIds -> Content]
      /\ hidden \subseteq Stored /\ hidden' \subseteq Stored' /\ Stored \subseteq PointIds
  BY DEF TypeOK, Stored
<1>8. HadThen(p) => /\ HadThen(p)' /\ HadIds(p)' = HadIds(p)
                    /\ HadIds(p) = {i \in PointIds : PointsThen(p)[i] # 0}
                    /\ had[p].at = PointsThen(p) /\ had[p].hidden = HiddenThen(p)
  BY <1>1, <1>3 DEF OnlyIndex, SameMemory, HadThen, HadIds
<1>9. PointsBack(p)'
  <2>1. CASE Head(todo[p]) = "unstore"
    <3>1. "unstore" \in Left(p) /\ "restore" \in Left(p) /\ Left(p)' = Left(p) \ {"unstore"}
      BY <1>2, <1>5, <2>1, BackMoves
    <3>2. HadThen(p) /\ {"repoint", "unhide", "show"} \cap Left(p) = {}
      BY <1>2, <3>1 DEF PointsBack
    <3>3. Stored' \subseteq HadIds(p)
      BY <1>2, <2>1, <3>1, IndexEffects DEF PointsBack, Remove, Stored
    <3> QED BY <1>8, <3>1, <3>2, <3>3 DEF PointsBack
  <2>2. CASE Head(todo[p]) = "restore"
    <3>1. "unstore" \notin Left(p) /\ "restore" \in Left(p) /\ Left(p)' = Left(p) \ {"restore"}
      BY <1>2, <1>5, <2>2, BackMoves
    <3>2. HadThen(p) /\ {"repoint", "unhide", "show"} \cap Left(p) = {} /\ Stored \subseteq HadIds(p)
      BY <1>2, <3>1 DEF PointsBack
    <3>3. Rewrite(HadIds(p), had[p])
      BY <2>2, IndexEffects
    <3>4. \A i \in PointIds : points'[i] = PointsThen(p)[i]
      BY <1>7, <1>8, <3>2, <3>3 DEF Rewrite, Stored
    <3>5. hidden' = HiddenThen(p)
      BY <1>1, <1>7, <1>8, <3>2, <3>3 DEF Rewrite
    <3>6. points' = PointsThen(p)
      BY <1>1, <1>7, <3>4
    <3> QED BY <1>1, <3>1, <3>2, <3>5, <3>6 DEF PointsBack, PointsAsThen
  <2>3. CASE Head(todo[p]) = "repoint"
    <3>1. "repoint" \in Left(p) /\ Left(p)' = Left(p) \ {"repoint"}
      BY <1>5, <2>3
    <3>2. /\ kept[p].at = PointsThen(p) /\ HiddenThen(p) = {}
          /\ {"restore", "unhide", "show"} \cap Left(p) = {}
      BY <1>2, <3>1 DEF PointsBack
    <3>3. Rewrite(PointIds, [at |-> kept[p].at, hidden |-> {}])
      BY <2>3, IndexEffects
    <3>4. /\ \A i \in PointIds : points'[i] = PointsThen(p)[i]
          /\ hidden' = {}
      BY <1>7, <3>2, <3>3 DEF Rewrite
    <3>5. points' = PointsThen(p)
      BY <1>1, <1>7, <3>4
    <3> QED BY <1>1, <3>1, <3>2, <3>4, <3>5 DEF PointsBack, PointsAsThen
  <2>4. CASE Head(todo[p]) \in {"unhide", "show"}
    <3>1. Head(todo[p]) \in Left(p) /\ Left(p)' = Left(p) \ {Head(todo[p])}
      BY <1>5
    <3>2. /\ HadThen(p) /\ points = PointsThen(p)
          /\ {"restore", "repoint", "unhide", "show"} \cap Left(p)' = {}
      BY <1>2, <2>4, <3>1 DEF PointsBack
    <3>3. /\ points' = points
          /\ hidden' = (hidden \ (HadIds(p) \ had[p].hidden)) \cup (had[p].hidden \cap Stored)
      BY <2>4, IndexEffects
    <3>4. hidden' = HiddenThen(p)
      BY <1>1, <1>7, <1>8, <3>2, <3>3 DEF Stored
    <3> QED BY <1>1, <3>2, <3>3, <3>4 DEF PointsBack, PointsAsThen
  <2> QED BY <2>1, <2>2, <2>3, <2>4
<1> QED BY <1>4, <1>5, <1>6, <1>9 DEF Failed, Back

\* A publication that withdraws what it wrote removes the points last.
LEMMA WithdrawalGoes ==
    ASSUME TypeOK, NEW p \in Procs, Step(p), Smooth', todo[p] # <<>>, FailedPublication(p)
    PROVE  FailedPublication(p)'
<1>1. /\ outcome[p] = "failed" /\ InOrder(todo[p]) /\ Left(p) \subseteq WithdrawSteps
      /\ Followed(todo[p], "unstore", "unpoint") /\ Followed(todo[p], "restore", "unpoint")
      /\ "unpoint" \notin Left(p) => PointsAsThen(p) \/ Stored = {}
  BY DEF FailedPublication, Withdrawn
<1>2. Head(todo[p]) \in Left(p) /\ Head(todo[p]) \in WithdrawSteps
  BY <1>1, BackMoves
<1>3. Goes(p) /\ (Head(todo[p]) \in {"untext", "unsparse", "unvisual", "remove"} => SameIndex)
      /\ (Head(todo[p]) = "unpoint" => Remove(PointIds))
  BY <1>1, <1>2, BackMoves, FileEffects, IndexEffects, OtherEffects
     DEF WithdrawSteps, OnlyPlace, OnlyFiles, OnlyStores
<1>4. /\ outcome'[p] = "failed" /\ InOrder(todo'[p]) /\ Left(p)' = Left(p) \ {Head(todo[p])}
  BY <1>1, <1>3, BackMoves
<1>5. /\ todo[p] \in Seq(Steps) /\ {"unstore", "restore", "unpoint"} \subseteq Steps
      /\ todo'[p] = Tail(todo[p])
  BY <1>3 DEF TypeOK, Steps, Goes
<1>6. /\ Followed(todo[p], "unstore", "unpoint")' /\ Followed(todo[p], "restore", "unpoint")'
      /\ "unpoint" \notin Left(p) => "unstore" \notin Left(p) /\ "restore" \notin Left(p)
  <2>1. \A a, b \in Steps : Followed(todo[p], a, b) =>
          /\ Followed(Tail(todo[p]), a, b)
          /\ a \in LabelsOf(todo[p]) => b \in LabelsOf(todo[p])
    BY <1>1, <1>5, LeftTail
  <2>2. /\ Followed(Tail(todo[p]), "unstore", "unpoint")
        /\ Followed(Tail(todo[p]), "restore", "unpoint")
        /\ "unstore" \in LabelsOf(todo[p]) => "unpoint" \in LabelsOf(todo[p])
        /\ "restore" \in LabelsOf(todo[p]) => "unpoint" \in LabelsOf(todo[p])
    BY <1>1, <1>5, <2>1
  <2>3. Followed(todo'[p], "unstore", "unpoint") /\ Followed(todo'[p], "restore", "unpoint")
    BY <1>5, <2>2
  <2> QED BY <2>2, <2>3 DEF Followed, Left
<1>7. "unpoint" \notin Left(p)' => (PointsAsThen(p) \/ Stored = {})'
  <2>1. CASE Head(todo[p]) = "unpoint"
    <3>1. Stored' = {}
      BY <1>3, <2>1 DEF Remove, Stored
    <3> QED BY <3>1
  <2>2. CASE Head(todo[p]) # "unpoint"
    <3>1. ASSUME "unpoint" \notin Left(p)' PROVE SameIndex /\ (PointsAsThen(p) \/ Stored = {})
      BY <1>1, <1>2, <1>3, <1>4, <1>6, <2>2, <3>1 DEF WithdrawSteps
    <3> QED BY <3>1, RecordStays DEF SameIndex, PointsAsThen, Stored
  <2> QED BY <2>1, <2>2
<1> QED BY <1>1, <1>4, <1>6, <1>7 DEF FailedPublication, Withdrawn

\* One step of an operation that nothing overlaps.
LEMMA StepKeepsCourse ==
    ASSUME TypeOK, TypeOK', ControlInv, NEW p \in Procs, Step(p), Smooth', todo[p] # <<>>, Course(p)
    PROVE  Course(p)'
<1>1. op' = op /\ Recorded(p)' /\ Recorded(p)
  BY RecordStays DEF Course
<1>2. op[p] \in {"upload", "parse", "reparse", "build", "chunk", "publish", "extract", "delete"}
  BY LifecycleAssumption DEF ControlInv
<1>3. CASE Forward(p)
  <2>1. OnWay(p) /\ Walks(p, Flow(op[p]))
    BY <1>3 DEF Course, ControlInv, Walks
  <2>2. CASE op[p] = "upload"
    BY <1>1, <2>1, <2>2, UploadGoes DEF OnWay, Flow, Course, Failed, Partial, Forward
  <2>3. CASE op[p] = "parse"
    BY <1>1, <2>1, <2>3, ParseGoes DEF OnWay, Flow, Course, Failed, Forward
  <2>4. CASE op[p] = "reparse"
    BY <1>1, <2>1, <2>4, ReparseGoes DEF OnWay, Flow, Course, Failed, Forward
  <2>5. CASE op[p] = "build"
    BY <1>1, <2>1, <2>5, BuildGoes DEF OnWay, Flow, Course, Failed, Forward
  <2>6. CASE op[p] = "chunk"
    BY <1>1, <2>1, <2>6, ChunkGoes DEF OnWay, Flow, Course, Failed, Forward
  <2>7. CASE op[p] = "publish"
    BY <1>1, <2>1, <2>7, PublishGoes DEF OnWay, Flow, Course, FailedPublication, Forward
  <2>8. CASE op[p] = "extract"
    <3>1. InOrder(<<>>)
      BY ShortCompensations DEF Compensating
    <3> QED BY <1>1, <2>1, <2>8, <3>1, ExtractGoes DEF OnWay, Flow, Course, FailedExtraction, Forward
  <2>9. CASE op[p] = "delete"
    BY <1>1, <2>1, <2>9, DeleteGoes DEF OnWay, Flow, Course, Failed, Partial, Forward
  <2> QED BY <1>2, <2>2, <2>3, <2>4, <2>5, <2>6, <2>7, <2>8, <2>9
<1>4. CASE ~Forward(p)
  <2>1. outcome[p] = "failed" /\ op[p] # "extract" /\ InOrder(todo[p])
    BY <1>4 DEF Course, Forward
  <2>2. CASE op[p] = "publish"
    <3>1. FailedPublication(p)'
      BY <2>1, <2>2, WithdrawalGoes DEF Course, FailedPublication
    <3> QED BY <1>1, <2>2, <3>1 DEF Course, FailedPublication, Forward
  <2>3. CASE op[p] # "publish"
    <3>1. Failed(p)
      BY <2>1, <2>3 DEF Course, Failed
    <3>2. Head(todo[p]) \in BackSteps
      BY <2>1, <3>1, BackMoves DEF Failed, Back
    <3>3. Failed(p)'
      BY <1>1, <3>1, <3>2, FilesGoBack, PointsGoBack DEF BackSteps
    <3> QED BY <1>1, <2>1, <2>3, <3>3 DEF Course, Failed, Forward
  <2> QED BY <2>2, <2>3
<1> QED BY <1>3, <1>4

-----------------------------------------------------------------------------
(* Where an operation begins, and where it ends *)

\* The flows, by their length.
LEMMA FlowLengths ==
    /\ Len(Upload) = 4 /\ Len(Parse) = 6 /\ Len(Reparse) = 10 /\ Len(Build) = 5 /\ Len(Chunk) = 3
    /\ Len(Publish) = 7 /\ Len(Extract) = 1 /\ Len(Delete) = 11
  BY DEF Upload, Parse, Reparse, Build, Chunk, Publish, Extract, Delete, Replace

\* An operation that starts while no other is at work has everything before it.
LEMMA StartsOnWay ==
    ASSUME TypeOK, TypeOK', FreshInv, NEW p \in Procs, NEW o \in Operations, Start(p, o), Busy = {}
    PROVE  Alone(p)' /\ Course(p)'
<1>1. /\ UNCHANGED <<row, place, points, hidden, others>> /\ Startable(o)
      /\ todo'[p] = Flow(o) /\ op'[p] = o /\ outcome'[p] = "ok" /\ made'[p] = place["parsing"]
      /\ trash'[p] = Nothing
      /\ before'[p] = <<row, place, points, hidden, others>>
      /\ \A q \in Procs \ {p} : todo'[q] = todo[q]
  <2>1. UNCHANGED <<row, place, points, hidden, others>> /\ Startable(o)
    BY DEF Start, database, index
  <2>2. \A q \in Procs \ {p} : todo'[q] = todo[q]
    BY DEF Start, TypeOK
  <2>3. todo'[p] = Flow(o) /\ op'[p] = o /\ outcome'[p] = "ok" /\ made'[p] = place["parsing"]
    BY DEF Start, TypeOK
  <2>4. trash'[p] = Nothing
    BY DEF Start, TypeOK
  <2>5. before'[p] = <<row, place, points, hidden, others>>
    BY DEF Start, FreshInv
  <2> QED BY <2>1, <2>2, <2>3, <2>4, <2>5
<1>2. Alone(p)'
  BY <1>1 DEF Alone, Busy
<1>3. /\ RowThen(p)' = row' /\ PlaceThen(p)' = place' /\ PointsThen(p)' = points'
      /\ HiddenThen(p)' = hidden' /\ OthersThen(p)' = others'
  BY <1>1 DEF RowThen, PlaceThen, PointsThen, HiddenThen, OthersThen
<1>4. Recorded(p)'
  <2>1. before'[p] = <<row', place', points', hidden', others'>>
    BY <1>1
  <2>2. place' \in [Paths -> Content] /\ points' \in [PointIds -> Content] /\ hidden' \subseteq Stored'
    BY DEF TypeOK
  <2> QED BY <1>3, <2>1, <2>2 DEF Recorded, Stored
<1>5. StoresAsThen(p)' /\ PointsAsThen(p)' /\ Found(p, {})' /\ Moved(p, {})'
  BY <1>1, <1>3 DEF StoresAsThen, PointsAsThen, Found, Moved, Nothing
<1>6. OnWay(p)'
  <2>1. ASSUME o = "upload" PROVE OnUpload(p, 4)' /\ Len(todo'[p]) = 4
    <3>1. place = Nothing /\ ~row
      BY <1>1, <2>1 DEF Startable, FreshInv
    <3>2. place'["source"] = 0 /\ Found(p, {"source"})'
      BY <1>1, <1>5, <3>1 DEF Nothing, Paths, Found
    <3> QED BY <1>1, <1>3, <1>5, <2>1, <3>2, FlowLengths DEF OnUpload, StoresAsThen, Flow
  <2>2. ASSUME o = "parse" PROVE OnParse(p, 6)' /\ Len(todo'[p]) = 6
    BY <1>1, <1>5, <2>2, FlowLengths DEF OnParse, Flow
  <2>3. ASSUME o = "reparse" PROVE OnReparse(p, 10)' /\ Len(todo'[p]) = 10
    BY <1>1, <1>5, <2>3, FlowLengths DEF OnReparse, Replacing, Flow
  <2>4. ASSUME o = "build" PROVE OnBuild(p, 5)' /\ Len(todo'[p]) = 5
    BY <1>1, <1>5, <2>4, FlowLengths DEF OnBuild, Replacing, Flow, Startable
  <2>5. ASSUME o = "chunk" PROVE OnChunk(p, 3)' /\ Len(todo'[p]) = 3
    BY <1>1, <1>3, <1>5, <2>5, FlowLengths DEF OnChunk, Flow, Startable
  <2>6. ASSUME o = "publish" PROVE OnPublish(p, 7)' /\ Len(todo'[p]) = 7
    BY <1>1, <1>5, <2>6, FlowLengths DEF OnPublish, Replacing, Flow, Startable
  <2>7. ASSUME o = "extract" PROVE OnExtract(p, 1)' /\ Len(todo'[p]) = 1
    BY <1>1, <1>5, <2>7, FlowLengths DEF OnExtract, Flow
  <2>8. ASSUME o = "delete" PROVE OnDelete(p, 11)' /\ Len(todo'[p]) = 11
    <3>1. Gone(11) = {}
      BY DEF Gone, Turn, Paths
    <3> QED BY <1>1, <1>5, <2>8, <3>1, FlowLengths DEF OnDelete, PointsAsThen, Flow
  <2> QED BY <1>1, <2>1, <2>2, <2>3, <2>4, <2>5, <2>6, <2>7, <2>8 DEF OnWay
<1> QED BY <1>1, <1>2, <1>4, <1>6 DEF Course, Forward

\* The invariant is kept while an operation starts, goes on, or dies.
LEMMA StartKeepsCourse ==
    ASSUME TypeOK, TypeOK', FreshInv, CourseInv, NEW p \in Procs, NEW o \in Operations, Start(p, o)
    PROVE  CourseInv'
<1> SUFFICES ASSUME NEW q \in Procs, Own(q)', Smooth' PROVE Alone(q)' /\ Course(q)'
  BY DEF CourseInv
<1>1. alone'[q] = IF q = p THEN Busy = {} ELSE alone[q] /\ q \notin Busy
  BY DEF Start
<1>2. q # p => todo'[q] = todo[q]
  BY DEF Start, TypeOK
<1>3. q = p /\ Busy = {}
  BY <1>1, <1>2 DEF Own, Busy
<1> QED BY <1>3, StartsOnWay

LEMMA StepsKeepCourse ==
    ASSUME TypeOK, TypeOK', ControlInv, CourseInv, NEW p \in Procs, Step(p)
    PROVE  CourseInv'
<1> SUFFICES ASSUME NEW q \in Procs, Own(q)', Smooth' PROVE Alone(q)' /\ Course(q)'
  BY DEF CourseInv
<1>1. /\ Smooth /\ todo[p] # <<>> /\ alone' = alone
      /\ \A r \in Procs \ {p} : todo'[r] = todo[r]
  BY IntactMoves, LostStays, RecordStays DEF Smooth
<1>2. Own(q)
  <2>1. q # p => todo[q] # <<>>
    BY <1>1 DEF Own
  <2> QED BY <1>1, <2>1 DEF Own
<1>3. Alone(q) /\ Course(q)
  BY <1>1, <1>2 DEF CourseInv
<1>4. q = p
  BY <1>1, <1>3 DEF Alone
<1>5. Course(p)'
  BY <1>1, <1>3, <1>4, StepKeepsCourse
<1>6. Alone(p)'
  BY <1>1, <1>3, <1>4 DEF Alone
<1> QED BY <1>4, <1>5, <1>6

LEMMA IdleKeepsCourse ==
    ASSUME CourseInv, UNCHANGED vars \/ Rival
    PROVE  CourseInv'
<1>1. UNCHANGED <<row, place, points, hidden, others, todo, outcome, op, made, trash, backup, had,
                  kept, before, alone, lost, intact>>
  BY DEF Rival, vars, database, files, index, memory, control, trace
<1> SUFFICES ASSUME NEW p \in Procs, Own(p)', Smooth' PROVE Alone(p)' /\ Course(p)'
  BY DEF CourseInv
<1>2. Alone(p) /\ Course(p)
  BY <1>1 DEF CourseInv, Own, Smooth
<1>3. /\ RowThen(p)' = RowThen(p) /\ PlaceThen(p)' = PlaceThen(p)
      /\ PointsThen(p)' = PointsThen(p) /\ HiddenThen(p)' = HiddenThen(p)
      /\ OthersThen(p)' = OthersThen(p) /\ Target(p)' = Target(p)
  BY <1>1 DEF RowThen, PlaceThen, PointsThen, HiddenThen, OthersThen, Target
<1>4. Recorded(p)' <=> Recorded(p)
  BY <1>1, <1>3 DEF Recorded
<1>5. /\ StoresAsThen(p)' <=> StoresAsThen(p)
      /\ PointsAsThen(p)' <=> PointsAsThen(p)
      /\ HadThen(p)' <=> HadThen(p)
      /\ KeptThen(p)' <=> KeptThen(p)
      /\ Stored' = Stored
      /\ Left(p)' = Left(p)
  BY <1>1, <1>3 DEF StoresAsThen, PointsAsThen, HadThen, KeptThen, Stored, Left
<1>6. Visible' = Visible
  BY <1>1, <1>5 DEF Visible
<1>7. /\ OnUpload(p, Len(todo[p]))' <=> OnUpload(p, Len(todo[p]))
      /\ OnParse(p, Len(todo[p]))' <=> OnParse(p, Len(todo[p]))
      /\ OnChunk(p, Len(todo[p]))' <=> OnChunk(p, Len(todo[p]))
      /\ OnExtract(p, Len(todo[p]))' <=> OnExtract(p, Len(todo[p]))
  BY <1>1, <1>3, <1>5 DEF OnUpload, OnParse, OnChunk, OnExtract, Found, Moved
<1>8. /\ OnReparse(p, Len(todo[p]))' <=> OnReparse(p, Len(todo[p]))
      /\ OnBuild(p, Len(todo[p]))' <=> OnBuild(p, Len(todo[p]))
      /\ OnPublish(p, Len(todo[p]))' <=> OnPublish(p, Len(todo[p]))
  BY <1>1, <1>3, <1>5, <1>6
     DEF OnReparse, OnBuild, OnPublish, Replacing, Whole, Found, Moved
<1>9. OnDelete(p, Len(todo[p]))' <=> OnDelete(p, Len(todo[p]))
  BY <1>1, <1>3, <1>5, <1>6 DEF OnDelete, Found, Moved
<1>10. OnWay(p)' <=> OnWay(p)
  BY <1>1, <1>7, <1>8, <1>9 DEF OnWay
<1>11. Back(p)' <=> Back(p)
  BY <1>1, <1>3, <1>5 DEF Back, FilesBack, PointsBack, Pending, HadThen, HadIds
<1>12. Withdrawn(p)' <=> Withdrawn(p)
  BY <1>1, <1>5 DEF Withdrawn, Followed
<1>13. InOrder(todo[p])' <=> InOrder(todo[p])
  BY <1>1 DEF InOrder, Followed
<1> QED BY <1>1, <1>2, <1>4, <1>5, <1>6, <1>10, <1>11, <1>12, <1>13 DEF Alone, Course, Forward

LEMMA NextKeepsFresh ==
    ASSUME TypeOK, ControlInv, FreshInv, [Next]_vars
    PROVE  FreshInv'
<1>1. ASSUME NEW p \in Procs, NEW o \in Operations, Start(p, o) PROVE FreshInv'
  BY <1>1 DEF FreshInv, Start, TypeOK
<1>2. ASSUME NEW p \in Procs, Step(p) PROVE FreshInv'
  <2>1. todo[p] # <<>>
    BY <1>2, StepMoves DEF Moves
  <2> QED BY <1>2, <2>1, StepFrame DEF FreshInv
<1>3. ASSUME NEW p \in Procs, Crash(p) PROVE FreshInv'
  BY <1>3 DEF FreshInv, Crash, trace
<1>4. ASSUME UNCHANGED vars \/ Rival PROVE FreshInv'
  BY <1>4 DEF FreshInv, Rival, vars, database, files, index, memory, control, trace
<1> QED BY <1>1, <1>2, <1>3, <1>4 DEF Next

LEMMA NextKeepsCourse ==
    ASSUME TypeOK, ControlInv, FreshInv, CourseInv, [Next]_vars
    PROVE  CourseInv'
<1>1. TypeOK'
  BY NextKeepsTypes
<1>2. ASSUME NEW p \in Procs, Crash(p) PROVE CourseInv'
  BY <1>2 DEF Crash, CourseInv, Smooth
<1> QED BY <1>1, <1>2, StartKeepsCourse, StepsKeepCourse, IdleKeepsCourse DEF Next

\* The last step of an operation that nothing overlapped.
LEMMA EndOfCourse ==
    ASSUME TypeOK, ControlInv, CourseInv, [Next]_vars, NEW p \in Procs, todo[p] # <<>>,
           todo'[p] = <<>>, alone[p], Smooth'
    PROVE  Course(p)' /\ Step(p)
<1>1. ASSUME NEW q \in Procs, NEW o \in Operations, Start(q, o) PROVE FALSE
  <2>1. todo[q] = <<>> /\ todo' = [todo EXCEPT ![q] = Flow(o)]
    BY <1>1 DEF Start
  <2>2. q # p /\ todo'[p] = todo[p]
    BY <2>1 DEF TypeOK
  <2> QED BY <2>2
<1>2. ASSUME NEW q \in Procs, Crash(q) PROVE FALSE
  BY <1>2 DEF Crash, Smooth
<1>3. ~(Rival \/ UNCHANGED vars)
  BY DEF Rival, vars, control
<1>4. ASSUME NEW q \in Procs, Step(q) PROVE q = p
  BY <1>4, IntactMoves DEF Smooth
<1>5. Step(p)
  BY <1>1, <1>2, <1>3, <1>4 DEF Next
<1>6. Smooth
  BY <1>5, IntactMoves, LostStays DEF Smooth
<1>7. Course(p)
  BY <1>6 DEF CourseInv, Own
<1> QED BY <1>5, <1>7, NextKeepsTypes, StepKeepsCourse

\* What an operation that has come to its end has done, or put back.
Kinds == {"upload", "parse", "reparse", "build", "chunk", "publish", "extract", "delete"}

LEMMA CourseDone ==
    ASSUME TypeOK, NEW p \in Procs, Course(p), todo[p] = <<>>, outcome[p] = "ok", op[p] \in Kinds
    PROVE  Done(p)
<1>1. OnWay(p) /\ Len(todo[p]) = 0
  BY DEF Course, Forward
<1>2. CASE op[p] = "upload"
  BY <1>1, <1>2 DEF OnWay, OnUpload, Done
<1>3. CASE op[p] = "parse"
  BY <1>1, <1>3 DEF OnWay, OnParse, Done
<1>4. CASE op[p] = "reparse"
  BY <1>1, <1>4 DEF OnWay, OnReparse, Replacing, Done
<1>5. CASE op[p] = "build"
  BY <1>1, <1>5 DEF OnWay, OnBuild, Replacing, Done
<1>6. CASE op[p] = "chunk"
  BY <1>1, <1>6 DEF OnWay, OnChunk, Found, Paths, Done
<1>7. CASE op[p] = "publish"
  BY <1>1, <1>7 DEF OnWay, OnPublish, Replacing, Done
<1>8. CASE op[p] = "extract"
  BY <1>1, <1>8 DEF OnWay, OnExtract, Done
<1>9. CASE op[p] = "delete"
  <2>1. OnDelete(p, 0)
    BY <1>1, <1>9 DEF OnWay
  <2>2. Gone(0) = Paths
    BY DEF Gone, Turn, Paths
  <2>3. place = Nothing
    <3>1. \A r \in Paths : place[r] = 0
      BY <2>1, <2>2 DEF OnDelete
    <3>2. place \in [Paths -> Content]
      BY DEF TypeOK
    <3> QED BY <3>1, <3>2 DEF Nothing
  <2>4. /\ ~row /\ trash[p] = Nothing /\ Stored = {}
        /\ "graph" \notin others /\ "text" \notin others
    BY <2>1 DEF OnDelete
  <2>5. others \subseteq {"sparse", "visual"}
    BY <2>4 DEF TypeOK
  <2> QED BY <1>9, <2>3, <2>4, <2>5 DEF Done
<1> QED BY <1>2, <1>3, <1>4, <1>5, <1>6, <1>7, <1>8, <1>9 DEF Kinds

LEMMA CourseUndone ==
    ASSUME TypeOK, NEW p \in Procs, Course(p), todo[p] = <<>>, outcome[p] = "failed",
           op[p] \notin {"publish", "extract"}
    PROVE  <<row, place, points, hidden, others>> = before[p]
<1>1. Recorded(p) /\ Back(p)
  BY DEF Course
<1>2. Left(p) = {}
  BY DEF Left, LabelsOf
<1>3. PointsAsThen(p)
  BY <1>1, <1>2 DEF Back, PointsBack
<1>4. place = PlaceThen(p)
  <2>1. ASSUME NEW r \in Paths PROVE place[r] = PlaceThen(p)[r]
    BY <1>1, <1>2, <2>1 DEF Back, FilesBack, Pending
  <2> QED BY <1>1, <2>1 DEF Recorded, TypeOK
<1> QED BY <1>1, <1>3, <1>4 DEF Back, StoresAsThen, PointsAsThen, Recorded

LEMMA CourseKeepsGeneration ==
    ASSUME TypeOK, NEW p \in Procs, Course(p), todo[p] = <<>>, op[p] \in Kinds,
           OneOrNone(PointsThen(p), HiddenThen(p))
    PROVE  OneOrNone(points, hidden)
<1>1. PointsAsThen(p) => OneOrNone(points, hidden)
  BY DEF PointsAsThen
<1>2. Visible = {} => OneOrNone(points, hidden)
  BY DEF Visible, Stored, OneOrNone
<1>3. ASSUME made[p] # 0, Whole(made[p]) PROVE OneOrNone(points, hidden)
  <2>1. made[p] \in Versions
    BY <1>3, LifecycleAssumption DEF TypeOK, Content, Versions
  <2> QED BY <1>3, <2>1 DEF Whole, Visible, Stored, OneOrNone
<1>4. CASE outcome[p] = "ok"
  <2>1. OnWay(p) /\ Len(todo[p]) = 0
    BY <1>4 DEF Course, Forward
  <2>2. \/ PointsAsThen(p)
        \/ Visible = {}
        \/ made[p] # 0 /\ Whole(made[p])
    BY <2>1 DEF Kinds, OnWay, OnUpload, OnParse, OnReparse, OnBuild, OnChunk, OnPublish, OnExtract,
                OnDelete, Replacing
  <2> QED BY <1>1, <1>2, <1>3, <2>2
<1>5. CASE outcome[p] = "failed"
  <2>1. Left(p) = {} /\ (Stored = {} => Visible = {})
    BY DEF Left, LabelsOf, Visible
  <2>2. PointsAsThen(p) \/ Visible = {}
    BY <1>5, <2>1 DEF Course, Back, PointsBack, Withdrawn
  <2> QED BY <1>1, <1>2, <2>2
<1>6. CASE outcome[p] = "partial"
  BY <1>1, <1>2, <1>6 DEF Course
<1> QED BY <1>4, <1>5, <1>6 DEF Course

LEMMA InitCourse == Init => FreshInv /\ CourseInv
  BY DEF Init, FreshInv, CourseInv, Own

\* All of it, for an operation that has ended.
EndsWell(p) ==
    Course(p) /\ todo[p] = <<>> /\ op[p] \in Kinds =>
        /\ outcome[p] = "ok" => Done(p)
        /\ outcome[p] = "failed" /\ op[p] \notin {"publish", "extract"} =>
              <<row, place, points, hidden, others>> = before[p]
        /\ OneOrNone(PointsThen(p), HiddenThen(p)) => OneOrNone(points, hidden)

AllEndWell == \A p \in Procs : EndsWell(p)

LEMMA CourseEnds == TypeOK => AllEndWell
  BY CourseDone, CourseUndone, CourseKeepsGeneration DEF AllEndWell, EndsWell

LEMMA LastStep ==
    ASSUME TypeOK, ControlInv, CourseInv, [Next]_vars, NEW p \in Procs, todo[p] # <<>>,
           todo'[p] = <<>>, alone[p], Smooth'
    PROVE  /\ op' = op /\ before' = before
           /\ outcome'[p] = "ok" => Done(p)'
           /\ outcome'[p] = "failed" /\ op[p] \notin {"publish", "extract"} =>
                 <<row, place, points, hidden, others>>' = before[p]
           /\ OneOrNone(PointsThen(p), HiddenThen(p)) => OneOrNone(points, hidden)'
<1>1. Course(p)' /\ Step(p) /\ TypeOK'
  BY EndOfCourse, NextKeepsTypes
<1>2. /\ op' = op /\ before' = before /\ op'[p] \in Kinds
      /\ PointsThen(p)' = PointsThen(p) /\ HiddenThen(p)' = HiddenThen(p)
  BY <1>1, RecordStays, LifecycleAssumption DEF ControlInv, Kinds
<1>3. TypeOK' => AllEndWell'
  BY CourseEnds, PTL
<1>4. EndsWell(p)'
  BY <1>1, <1>3 DEF AllEndWell
<1>5. /\ outcome'[p] = "ok" => Done(p)'
      /\ outcome'[p] = "failed" /\ op'[p] \notin {"publish", "extract"} =>
            <<row, place, points, hidden, others>>' = before'[p]
      /\ OneOrNone(PointsThen(p), HiddenThen(p))' => OneOrNone(points, hidden)'
  BY <1>1, <1>2, <1>4 DEF EndsWell
<1>6. OneOrNone(PointsThen(p), HiddenThen(p)) => OneOrNone(PointsThen(p), HiddenThen(p))'
  BY <1>2 DEF OneOrNone
<1> QED BY <1>2, <1>5, <1>6

\* An operation that nothing overlaps does all it is for or, when it fails before its point of
\* no return and its compensation goes through, leaves the row, the files, the points, their
\* visibility and the stores as it found them.
THEOREM AllOrNothingHolds == Spec => AllOrNothing
<1>1. Init => TypeOK /\ ControlInv /\ FreshInv /\ CourseInv
  BY InitKeepsTypes, InitCourse
<1>2. TypeOK /\ ControlInv /\ FreshInv /\ CourseInv /\ [Next]_vars
      => (TypeOK /\ ControlInv /\ FreshInv /\ CourseInv)'
  BY NextKeepsTypes, NextKeepsFresh, NextKeepsCourse
<1>3. TypeOK /\ ControlInv /\ CourseInv /\ [Next]_vars =>
        \A p \in Procs :
            todo[p] # <<>> /\ todo'[p] = <<>> /\ alone[p] /\ intact' /\ ~lost' =>
                /\ outcome'[p] = "ok" => Done(p)'
                /\ outcome'[p] = "failed" /\ op[p] \notin {"publish", "extract"} =>
                      <<row, place, points, hidden, others>>' = before[p]
  BY LastStep DEF Smooth
<1> QED BY <1>1, <1>2, <1>3, PTL DEF Spec, AllOrNothing

\* Operations that follow one another leave one whole generation of points, or none.
LEMMA StartKeepsGeneration ==
    ASSUME TypeOK, FreshInv, GenerationInv, NEW p \in Procs, NEW o \in Operations, Start(p, o)
    PROVE  GenerationInv'
<1> SUFFICES ASSUME Smooth', overlapped' = "none"
             PROVE  /\ \A q \in Busy' : alone'[q] /\ OneOrNone(PointsThen(q), HiddenThen(q))'
                    /\ Busy' = {} => OneOrNone(points, hidden)'
  BY DEF GenerationInv
<1>1. /\ Busy = {} /\ overlapped = "none" /\ Smooth /\ points' = points /\ hidden' = hidden
      /\ todo' = [todo EXCEPT ![p] = Flow(o)]
      /\ alone' = [q \in Procs |-> IF q = p THEN Busy = {} ELSE alone[q] /\ q \notin Busy]
      /\ before' = [before EXCEPT ![p] = <<row, place, points, hidden, others>>]
  BY DEF Start, Smooth, database, index
<1>2. OneOrNone(points, hidden)
  BY <1>1 DEF GenerationInv
<1>3. \A q \in Busy' : q = p
  BY <1>1 DEF TypeOK, Busy
<1>4. PointsThen(p)' = points /\ HiddenThen(p)' = hidden /\ alone'[p]
  BY <1>1 DEF PointsThen, HiddenThen, FreshInv
<1>5. OneOrNone(PointsThen(p), HiddenThen(p))' /\ OneOrNone(points, hidden)'
  BY <1>1, <1>2, <1>4 DEF OneOrNone
<1> QED BY <1>3, <1>4, <1>5

LEMMA StepKeepsGeneration ==
    ASSUME TypeOK, ControlInv, CourseInv, GenerationInv, NEW p \in Procs, Step(p)
    PROVE  GenerationInv'
<1> SUFFICES ASSUME Smooth', overlapped' = "none"
             PROVE  /\ \A q \in Busy' : alone'[q] /\ OneOrNone(PointsThen(q), HiddenThen(q))'
                    /\ Busy' = {} => OneOrNone(points, hidden)'
  BY DEF GenerationInv
<1>1. /\ Smooth /\ todo[p] # <<>> /\ alone' = alone /\ overlapped = "none" /\ before' = before
      /\ \A r \in Procs \ {p} : todo'[r] = todo[r]
  BY IntactMoves, LostStays, RecordStays DEF Smooth
<1>2. \A q \in Busy : alone[q] /\ OneOrNone(PointsThen(q), HiddenThen(q))
  BY <1>1 DEF GenerationInv
<1>3. p \in Busy /\ Busy' \subseteq Busy
  BY <1>1 DEF Busy
<1>4. \A q \in Busy' : alone'[q] /\ OneOrNone(PointsThen(q), HiddenThen(q))'
  BY <1>1, <1>2, <1>3 DEF OneOrNone, PointsThen, HiddenThen
<1>5. ASSUME Busy' = {} PROVE OneOrNone(points, hidden)'
  <2>1. todo'[p] = <<>> /\ [Next]_vars
    BY <1>5 DEF Busy, Next
  <2> QED BY <1>1, <1>2, <1>3, <2>1, LastStep
<1> QED BY <1>4, <1>5

LEMMA NextKeepsGeneration ==
    ASSUME TypeOK, ControlInv, FreshInv, CourseInv, GenerationInv, [Next]_vars
    PROVE  GenerationInv'
<1>1. ASSUME NEW p \in Procs, Crash(p) PROVE GenerationInv'
  BY <1>1 DEF Crash, GenerationInv, Smooth
<1>2. ASSUME Rival \/ UNCHANGED vars PROVE GenerationInv'
  <2>1. UNCHANGED <<points, hidden, todo, alone, before, overlapped, lost, intact>>
    BY <1>2 DEF Rival, vars, database, index, control, trace
  <2> QED BY <2>1 DEF GenerationInv, Smooth, Busy, OneOrNone, PointsThen, HiddenThen
<1> QED BY <1>1, <1>2, StartKeepsGeneration, StepKeepsGeneration DEF Next

LEMMA InitGeneration == Init => GenerationInv
<1> SUFFICES ASSUME Init PROVE GenerationInv
  OBVIOUS
<1>1. Busy = {} /\ OneOrNone(points, hidden)
  BY DEF Init, Busy, OneOrNone, NoPoints
<1> QED BY <1>1 DEF GenerationInv

\* At rest the points that searches find are one whole generation or none, when operations
\* have followed one another and every compensation went through.
THEOREM OneGenerationHolds == Spec => []OneGeneration
<1>1. Init => TypeOK /\ ControlInv /\ FreshInv /\ CourseInv /\ GenerationInv
  BY InitKeepsTypes, InitCourse, InitGeneration
<1>2. TypeOK /\ ControlInv /\ FreshInv /\ CourseInv /\ GenerationInv /\ [Next]_vars
      => (TypeOK /\ ControlInv /\ FreshInv /\ CourseInv /\ GenerationInv)'
  BY NextKeepsTypes, NextKeepsFresh, NextKeepsCourse, NextKeepsGeneration
<1>3. GenerationInv => OneGeneration
  BY DEF GenerationInv, OneGeneration, Smooth, OneOrNone, Whole, Visible, Stored
<1> QED BY <1>1, <1>2, <1>3, PTL DEF Spec
=============================================================================
