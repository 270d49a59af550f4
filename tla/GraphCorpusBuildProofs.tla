------------------------ MODULE GraphCorpusBuildProofs ------------------------
(***************************************************************************)
(* What every build keeps, for any corpus, any windows, any number of runs *)
(* and interruptions: its inductive invariant and the theorems; and what a *)
(* build is that is called completed, which needs the whole way of a run   *)
(* through its windows.                                                    *)
(***************************************************************************)
EXTENDS GraphCorpusBuild, FiniteSetTheorems, SequenceTheorems, TLAPS

Orders == {w \in Seq(Docs) : IsInjective(w)}
InDocument == {"document", "clean", "chunks", "conclude", "unlink"}
Places == InDocument \cup {"off", "link", "relink", "linking", "save", "linked", "barred",
                           "flagged", "end"}
Calling == {c \in Chunks : task[c] = "calling"}

\* Types, finer than TypeOK where a step needs it.
LogTypes ==
    /\ chunkLog \in [Chunks -> {"none", "stored", "empty", "failed", "cancelled"}]
    /\ docLog \in [Docs -> [status: {"none", "completed", "failed", "provider_blocked", "cancelled"},
                            linked: BOOLEAN, barred: BOOLEAN]]
    /\ \A k \in DOMAIN linkLog : linkLog[k] \in {"cancelled", "failed", "completed"}
    /\ manifest.status \in {"none", "running", "completed", "partial_failure",
                            "provider_blocked", "cancelled"}
    /\ manifest = [status |-> manifest.status, lists |-> manifest.lists]
GraphTypes ==
    /\ evidence \subseteq Chunks /\ torn \subseteq Docs
    /\ \A p \in links : p \subseteq Chunks /\ Cardinality(p) = 2
RunTypes ==
    /\ pc \in Places /\ opts \in [retry: BOOLEAN, reprocess: BOOLEAN]
    /\ left \in Orders /\ rest \in Seq(Orders \ {<<>>})
    /\ linkable \in Seq(Docs) /\ relink \in BOOLEAN
WorkTypes ==
    /\ todo \in Seq(Chunks) /\ seen \subseteq Chunks /\ rebuild \in BOOLEAN /\ force \in BOOLEAN
    /\ blocked \in BOOLEAN /\ row.times \in Nat /\ streak \in 0..Threshold
TaskTypes ==
    /\ task \in [Chunks -> {"idle", "calling", "storing", "stored"}]
    /\ IsFiniteSet(Active) /\ Cardinality(Active) <= MaxConcurrency
TypeInv == LogTypes /\ GraphTypes /\ RunTypes /\ WorkTypes /\ TaskTypes

\* Where the run stands in its window and in its document.
ControlInv ==
    /\ pc \in InDocument => left # <<>> /\ ToSet(left) \cap InWindow = {}
    /\ pc \in {"off", "flagged", "end"} => linkable = <<>>
    /\ pc # "chunks" => task = AllIdle
    /\ pc \in {"clean", "chunks"} /\ rebuild => force
    /\ pc = "clean" => seen = {} /\ rebuild
    /\ pc \in {"clean", "chunks"} => Active \subseteq seen /\ seen \cup ToSet(todo) = Of(Doc)
    /\ blocked => pc \notin {"off", "document", "clean"}
    /\ pc = "chunks" /\ blocked => \E c \in seen \ Active : ~Completed(c)
    /\ pc = "conclude" => AnyFailed \/ docLog[Doc].status = "completed"

\* Facts are stored before the checkpoint; in a rebuild, of every chunk so far.
StoredInv ==
    /\ CompletedIsStored
    /\ \A c \in Chunks : task[c] = "stored" => c \in evidence
    /\ pc \in {"clean", "chunks"} /\ rebuild =>
         \A c \in seen \ Active : chunkLog[c] = "stored" => c \in evidence

\* A document whose chunks are at work is not linked.
LinksInv ==
    /\ LinksAreGrounded
    /\ \A d \in InWindow : docLog[d].status = "completed"
    /\ pc = "chunks" => \A p \in links : p \cap Of(Doc) = {}

\* The calls that were under way when the provider was given up.
RefusedInv ==
    /\ ~blocked => row.times = streak /\ row.of = signature /\ streak < Threshold
    /\ blocked => streak = Threshold /\ row.times + Cardinality(Calling) < Threshold + MaxConcurrency
\* Once it has been given up, the run goes on to its end after the linking of the window.
LateInv == late \in 0..1 /\ (late = 1 => blocked /\ pc \in {"save", "linked", "barred", "flagged", "end"})
ProviderInv == RefusedInv /\ LateInv

-----------------------------------------------------------------------------
(* Sequences *)

\* The documents of a window that follow its first one are others.
LEMMA HeadAndRest ==
    ASSUME NEW s \in Orders, s # <<>>
    PROVE  /\ Head(s) \in Docs /\ Head(s) \in ToSet(s) /\ Tail(s) \in Orders
           /\ ToSet(Tail(s)) \subseteq ToSet(s) /\ Head(s) \notin ToSet(Tail(s))
<1>1. s \in Seq(Docs) /\ \A i, j \in 1..Len(s) : s[i] = s[j] => i = j
  BY DEF Orders, IsInjective
<1>2. Len(s) \in Nat /\ Len(s) > 0
  BY <1>1
<1>3. Tail(s) \in Seq(Docs) /\ Len(Tail(s)) = Len(s) - 1
  BY <1>1, <1>2
<1>4. \A i \in 1..Len(Tail(s)) : Tail(s)[i] = s[i + 1] /\ i + 1 \in 1..Len(s) /\ i + 1 # 1
  BY <1>1, <1>2, <1>3
<1>5. Head(s) = s[1] /\ 1 \in 1..Len(s)
  BY <1>1, <1>2
<1>6. IsInjective(Tail(s))
  <2>1. \A i, j \in 1..Len(Tail(s)) : Tail(s)[i] = Tail(s)[j] => i = j
    BY <1>1, <1>3, <1>4
  <2> QED
    BY <2>1, <1>3 DEF IsInjective
<1> QED
  BY <1>1, <1>3, <1>4, <1>5, <1>6 DEF Orders, ToSet

\* Append adds the element, Tail adds none.
LEMMA AppendedSet ==
    ASSUME NEW S, NEW s \in Seq(S), NEW e \in S
    PROVE  Append(s, e) \in Seq(S) /\ ToSet(Append(s, e)) = ToSet(s) \cup {e}
<1>1. Append(s, e) \in Seq(S) /\ Len(Append(s, e)) = Len(s) + 1 /\ Len(s) \in Nat
  OBVIOUS
<1>2. \A i \in 1..Len(s) : Append(s, e)[i] = s[i]
  OBVIOUS
<1>3. Append(s, e)[Len(s) + 1] = e
  OBVIOUS
<1> QED
  BY <1>1, <1>2, <1>3 DEF ToSet

LEMMA TailSet ==
    ASSUME NEW S, NEW s \in Seq(S), s # <<>>
    PROVE  /\ Head(s) \in S /\ Head(s) \in ToSet(s)
           /\ Tail(s) \in Seq(S) /\ ToSet(Tail(s)) \subseteq ToSet(s)
<1>1. Len(s) \in Nat /\ Len(s) > 0 /\ Tail(s) \in Seq(S) /\ Len(Tail(s)) = Len(s) - 1
  OBVIOUS
<1>2. \A i \in 1..Len(Tail(s)) : Tail(s)[i] = s[i + 1] /\ i + 1 \in 1..Len(s)
  BY <1>1
<1>3. Head(s) = s[1] /\ 1 \in 1..Len(s) /\ s[1] \in S
  BY <1>1
<1> QED
  BY <1>1, <1>2, <1>3 DEF ToSet

\* A slice and what is left after it.
LEMMA Slices ==
    ASSUME NEW S, NEW s \in Seq(S), NEW n \in 1..Len(s)
    PROVE  /\ SubSeq(s, n + 1, Len(s)) \in Seq(S) /\ ToSet(SubSeq(s, 1, n)) \subseteq S
           /\ ToSet(SubSeq(s, 1, n)) \cup ToSet(SubSeq(s, n + 1, Len(s))) = ToSet(s)
           /\ IsFiniteSet(ToSet(SubSeq(s, 1, n))) /\ Cardinality(ToSet(SubSeq(s, 1, n))) <= n
<1> DEFINE a == SubSeq(s, 1, n)
           b == SubSeq(s, n + 1, Len(s))
<1>1. Len(s) \in Nat /\ n \in Nat /\ n <= Len(s) /\ n >= 1
  OBVIOUS
<1>2. a \in Seq(S) /\ Len(a) = n /\ \A i \in 1..n : a[i] = s[i]
  BY <1>1
<1>3. b \in Seq(S) /\ Len(b) = Len(s) - n /\ \A i \in 1..Len(s) - n : b[i] = s[n + i]
  BY <1>1
<1>4. ToSet(a) \subseteq S
  BY <1>2 DEF ToSet
<1> HIDE DEF a, b
<1>5. ToSet(a) \cup ToSet(b) = ToSet(s)
  <2>1. ToSet(a) = {s[i] : i \in 1..n}
    BY <1>2 DEF ToSet
  <2>2. ToSet(b) = {b[i] : i \in 1..Len(s) - n}
    BY <1>1, <1>3 DEF ToSet
  <2>3. ToSet(s) = {s[i] : i \in 1..Len(s)}
    BY <1>1 DEF ToSet
  <2>4. \A i \in 1..Len(s) - n : n + i \in 1..Len(s)
    BY <1>1
  <2>5. \A i \in 1..Len(s) : i > n => i - n \in 1..Len(s) - n /\ b[i - n] = s[i]
    BY <1>1, <1>3
  <2> QED
    BY <2>1, <2>2, <2>3, <2>4, <2>5, <1>1, <1>3
<1>6. IsFiniteSet(ToSet(a)) /\ Cardinality(ToSet(a)) <= n
  <2>1. a \in Surjection(1..n, ToSet(a))
    BY <1>2 DEF Surjection, ToSet
  <2>2. IsFiniteSet(1..n) /\ Cardinality(1..n) = n
    BY FS_Interval, <1>1
  <2> QED
    BY <2>1, <2>2, FS_Surjection
<1> QED
  BY <1>3, <1>4, <1>5, <1>6 DEF a, b

-----------------------------------------------------------------------------
(* Types *)

LEMMA Constants ==
    /\ MaxConcurrency \in Nat \ {0} /\ Threshold \in Nat \ {0}
    /\ \A d \in Docs : Of(d) \subseteq Chunks /\ ChunksOf[d] \in Seq(Of(d))
    /\ \A d, e \in Docs : d # e => Of(d) \cap Of(e) = {}
    /\ Windows \in Seq(Orders \ {<<>>}) /\ Windows # <<>>
<1>1. \A w \in ToSet(Windows) : w \in Orders \ {<<>>}
  <2> SUFFICES ASSUME NEW w \in ToSet(Windows) PROVE w \in Orders \ {<<>>}
    OBVIOUS
  <2>1. w \in Seq(DOMAIN ChunksOf) /\ IsInjective(w) /\ w # <<>>
    BY BuildAssumption DEF BuildAssumption, ToSet
  <2>2. \A i \in 1..Len(w) : w[i] \in Docs
    BY <2>1 DEF Docs, ToSet
  <2>3. w \in Seq(Docs)
    BY <2>1, <2>2
  <2> QED
    BY <2>1, <2>3 DEF Orders
<1>2. Windows \in Seq(Orders \ {<<>>}) /\ Windows # <<>>
  BY <1>1, BuildAssumption DEF BuildAssumption, ToSet
<1> QED
  BY <1>2, BuildAssumption DEF BuildAssumption, Chunks

LEMMA Numbers ==
    /\ MaxConcurrency \in Nat /\ MaxConcurrency > 0
    /\ Threshold \in Nat /\ Threshold > 0 /\ 0 \in 0..Threshold
  BY Constants

LEMMA TypeImplied == TypeInv => TypeOK
  BY DEF TypeInv, LogTypes, GraphTypes, WorkTypes, TaskTypes, TypeOK

\* Nothing is at work.
LEMMA NothingActive == task = AllIdle => Active = {} /\ TaskTypes
<1>1. task = AllIdle => Active = {}
  BY DEF Active, AllIdle
<1>2. AllIdle \in [Chunks -> {"idle", "calling", "storing", "stored"}]
  BY DEF AllIdle
<1>3. IsFiniteSet({}) /\ Cardinality({}) = 0 /\ 0 <= MaxConcurrency
  BY FS_EmptySet, Numbers
<1> QED
  BY <1>1, <1>2, <1>3 DEF TaskTypes

\* The initial state, and the one after every run.
LEMMA TypeInit == Init => TypeInv
<1> SUFFICES ASSUME Init PROVE TypeInv
  OBVIOUS
<1>1. TaskTypes
  BY NothingActive DEF Init
<1>2. <<>> \in Orders
  BY DEF Orders, IsInjective
<1>3. LogTypes /\ GraphTypes
  BY DEF Init, LogTypes, GraphTypes
<1>4. <<>> \in Seq(Orders \ {<<>>}) /\ <<>> \in Seq(Docs) /\ <<>> \in Seq(Chunks)
  OBVIOUS
<1>5. RunTypes
  BY <1>2, <1>4 DEF Init, RunTypes, Places, InDocument, NoOptions
<1>6. WorkTypes
  BY <1>4, Numbers DEF Init, WorkTypes, NoRow
<1> QED
  BY <1>1, <1>3, <1>5, <1>6 DEF TypeInv

LEMMA OffTypes == Off => RunTypes' /\ WorkTypes' /\ TaskTypes'
<1> SUFFICES ASSUME Off PROVE RunTypes' /\ WorkTypes' /\ TaskTypes'
  OBVIOUS
<1>1. TaskTypes'
  <2>1. Active' = {} /\ task' \in [Chunks -> {"idle", "calling", "storing", "stored"}]
    BY DEF Off, Active, AllIdle
  <2> QED
    BY <2>1, FS_EmptySet, Numbers DEF TaskTypes
<1>2. <<>> \in Orders
  BY DEF Orders, IsInjective
<1>3. <<>> \in Seq(Orders \ {<<>>}) /\ <<>> \in Seq(Docs) /\ <<>> \in Seq(Chunks)
  OBVIOUS
<1>4. RunTypes'
  BY <1>2, <1>3 DEF Off, RunTypes, Places, InDocument, NoOptions
<1>5. WorkTypes'
  BY <1>3, Numbers DEF Off, WorkTypes, NoRow
<1> QED
  BY <1>1, <1>4, <1>5

\* Chunks that are at work stop, or go on.
LEMMA FewerActive ==
    ASSUME TaskTypes, task' \in [Chunks -> {"idle", "calling", "storing", "stored"}], Active' \subseteq Active
    PROVE  TaskTypes'
<1>1. IsFiniteSet(Active) /\ Cardinality(Active) \in Nat /\ Cardinality(Active) <= MaxConcurrency
  BY FS_CardinalityType DEF TaskTypes
<1>2. IsFiniteSet(Active') /\ Cardinality(Active') <= Cardinality(Active) /\ Cardinality(Active') \in Nat
  BY <1>1, FS_Subset, FS_CardinalityType
<1> QED
  BY <1>1, <1>2, Constants DEF TaskTypes

LEMMA GraphCalls ==
    /\ Untouched => (GraphTypes => GraphTypes')
    /\ \A d \in Docs : Deleted(d) => (GraphTypes => GraphTypes')
    /\ \A ds : DeleteLinks(ds) => links' \subseteq links
    /\ links' = links \cup Pairs(InWindow) /\ GraphTypes /\ RunTypes =>
         \A p \in links' : p \subseteq Chunks /\ Cardinality(p) = 2
<1>1. Untouched => (GraphTypes => GraphTypes')
  BY DEF Untouched, GraphTypes, graph, history
<1>2. \A d \in Docs : Deleted(d) => (GraphTypes => GraphTypes')
  BY DEF Deleted, DeleteLinks, GraphTypes
<1>3. \A ds : DeleteLinks(ds) => links' \subseteq links
  BY DEF DeleteLinks
<1>4. \A p \in Pairs(InWindow) : p \subseteq evidence /\ Cardinality(p) = 2
  BY DEF Pairs, kSubset
<1> QED
  BY <1>1, <1>2, <1>3, <1>4 DEF GraphTypes

\* The document at work, and what follows it.
LEMMA AtWork ==
    ASSUME TypeInv, ControlInv, pc \in InDocument
    PROVE  /\ Doc \in Docs /\ Doc \in ToSet(left) /\ Tail(left) \in Orders
           /\ ToSet(Tail(left)) \subseteq ToSet(left) /\ Doc \notin ToSet(Tail(left))
           /\ Of(Doc) \subseteq Chunks /\ ChunksOf[Doc] \in Seq(Of(Doc)) /\ ChunksOf[Doc] \in Seq(Chunks)
<1>1. left \in Orders /\ left # <<>>
  BY DEF TypeInv, RunTypes, ControlInv
<1>2. Doc \in Docs /\ Doc \in ToSet(left) /\ Tail(left) \in Orders
           /\ ToSet(Tail(left)) \subseteq ToSet(left) /\ Doc \notin ToSet(Tail(left))
  BY <1>1, HeadAndRest DEF Doc
<1>3. Of(Doc) \subseteq Chunks /\ ChunksOf[Doc] \in Seq(Of(Doc))
  BY <1>2, Constants
<1> QED
  BY <1>2, <1>3

LEMMA FailTypes ==
    ASSUME TypeInv, RunFails, UNCHANGED <<chunkLog, docLog, linkLog>>, GraphTypes'
    PROVE  TypeInv'
<1>1. LogTypes'
  BY DEF TypeInv, LogTypes, RunFails
<1> QED
  BY <1>1, OffTypes DEF RunFails, TypeInv

LEMMA TypeNextRun ==
    ASSUME TypeInv, ControlInv, ProviderInv,
           \/ StartRun \/ Reuse \/ BeginDocument \/ Clean
    PROVE  TypeInv'
<1>t. LogTypes /\ GraphTypes /\ RunTypes /\ WorkTypes /\ TaskTypes
  BY DEF TypeInv
<1>1. CASE StartRun
  <2>1. LogTypes'
    BY <1>1, <1>t DEF StartRun, Save, LogTypes
  <2>2. GraphTypes'
    BY <1>1, <1>t DEF StartRun, graph, history, GraphTypes
  <2>3. RunTypes'
    <3>1. Head(Windows) \in Orders \ {<<>>} /\ Tail(Windows) \in Seq(Orders \ {<<>>})
      BY Constants
    <3> QED
      BY <3>1, <1>1, <1>t DEF StartRun, RunTypes, Places, InDocument
  <2>4. WorkTypes'
    BY <1>1, <1>t DEF StartRun, work, breaker, WorkTypes
  <2>5. TaskTypes'
    BY <1>1, <1>t DEF StartRun, work, TaskTypes, Active
  <2> QED
    BY <2>1, <2>2, <2>3, <2>4, <2>5 DEF TypeInv
<1>2. CASE Reuse
  <2>0. pc \in InDocument
    BY <1>2 DEF Reuse, InDocument
  <2>1. LogTypes'
    BY <1>2, <1>t DEF Reuse, logs, LogTypes
  <2>2. GraphTypes'
    BY <1>2, <1>t DEF Reuse, graph, history, GraphTypes
  <2>3. RunTypes'
    BY <1>2, <1>t DEF Reuse, window, RunTypes, Places, InDocument
  <2>4. WorkTypes'
    BY <1>2, <1>t, <2>0, AtWork DEF Reuse, breaker, WorkTypes
  <2>5. TaskTypes'
    BY <1>2, <1>t DEF Reuse, TaskTypes, Active
  <2> QED
    BY <2>1, <2>2, <2>3, <2>4, <2>5 DEF TypeInv
<1>3. CASE BeginDocument
  <2>0. pc \in InDocument
    BY <1>3 DEF BeginDocument, InDocument
  <2>1. GraphTypes'
    BY <1>3, <1>t, GraphCalls DEF BeginDocument
  <2>2. CASE RunFails
    BY <1>3, <2>1, <2>2, FailTypes DEF BeginDocument
  <2>3. CASE ~RunFails
    <3>0. /\ rebuild' = Rebuild(Doc) /\ force' = (Rebuild(Doc) \/ docLog[Doc].status = "none")
          /\ todo' = ChunksOf[Doc] /\ seen' = {} /\ pc' = IF Rebuild(Doc) THEN "clean" ELSE "chunks"
          /\ UNCHANGED <<manifest, opts, mem, window, task, breaker, chunkLog, docLog, linkLog>>
      BY <1>3, <2>3 DEF BeginDocument
    <3>1. LogTypes'
      BY <3>0, <1>t DEF LogTypes
    <3>2. RunTypes'
      BY <3>0, <1>t DEF window, RunTypes, Places, InDocument
    <3>3. WorkTypes'
      <4>1. Rebuild(Doc) \in BOOLEAN
        BY <2>0, <1>t, AtWork DEF Rebuild, RunTypes
      <4>2. todo' \in Seq(Chunks)
        BY <3>0, <2>0, AtWork
      <4> QED
        BY <3>0, <1>t, <4>1, <4>2 DEF WorkTypes, breaker
    <3>4. TaskTypes'
      BY <3>0, <1>t DEF TaskTypes, Active
    <3> QED
      BY <2>1, <3>1, <3>2, <3>3, <3>4 DEF TypeInv
  <2> QED
    BY <2>2, <2>3
<1>4. CASE Clean
  <2>0. Doc \in Docs
    BY <1>4, AtWork DEF Clean, InDocument
  <2>1. GraphTypes'
    BY <1>4, <1>t, <2>0, GraphCalls DEF Clean
  <2>2. CASE RunFails
    BY <1>4, <2>1, <2>2, FailTypes DEF Clean
  <2>3. CASE ~RunFails
    <3>0. pc' = "chunks" /\ UNCHANGED <<manifest, opts, mem, window, work, breaker, chunkLog, docLog, linkLog>>
      BY <1>4, <2>3 DEF Clean
    <3>1. LogTypes'
      BY <3>0, <1>t DEF LogTypes
    <3>2. RunTypes'
      BY <3>0, <1>t DEF window, RunTypes, Places, InDocument
    <3>3. WorkTypes'
      BY <3>0, <1>t DEF work, breaker, WorkTypes
    <3>4. TaskTypes'
      BY <3>0, <1>t DEF work, TaskTypes, Active
    <3> QED
      BY <2>1, <3>1, <3>2, <3>3, <3>4 DEF TypeInv
  <2> QED
    BY <2>2, <2>3
<1> QED
  BY <1>1, <1>2, <1>3, <1>4

\* A slice has at most MaxConcurrency chunks.
LEMMA SliceTypes == TypeInv /\ BeginSlice => TypeInv'
<1> SUFFICES ASSUME TypeInv, BeginSlice PROVE TypeInv'
  OBVIOUS
<1>t. LogTypes /\ GraphTypes /\ RunTypes /\ WorkTypes /\ TaskTypes
  BY DEF TypeInv
<1> DEFINE n == Min({MaxConcurrency, Len(todo)})
           slice == ToSet(SubSeq(todo, 1, n))
<1>1. todo \in Seq(Chunks) /\ todo # <<>> /\ Len(todo) \in Nat /\ Len(todo) > 0
  BY <1>t DEF WorkTypes, BeginSlice, Schedule
<1>2. n \in {MaxConcurrency, Len(todo)} /\ n <= MaxConcurrency /\ n <= Len(todo)
  <2>1. \E m \in {MaxConcurrency, Len(todo)} : \A k \in {MaxConcurrency, Len(todo)} : m <= k
    BY <1>1, Numbers
  <2> QED
    BY <2>1 DEF Min
<1>3. n \in 1..Len(todo)
  BY <1>1, <1>2, Numbers
<1>4. /\ SubSeq(todo, n + 1, Len(todo)) \in Seq(Chunks) /\ slice \subseteq Chunks
      /\ IsFiniteSet(slice) /\ Cardinality(slice) <= n
  BY <1>1, <1>3, Slices
<1>5. /\ task' \in [Chunks -> {"idle", "calling"}] /\ Active' \subseteq slice
      /\ seen' = seen \cup slice /\ todo' = SubSeq(todo, n + 1, Len(todo))
  BY DEF BeginSlice, Active
<1>6. UNCHANGED <<logs, graph, pc, opts, mem, window, rebuild, force, breaker, history, bounds>>
  BY DEF BeginSlice
<1> HIDE DEF n, slice
<1>7. TaskTypes'
  <2>1. Cardinality(slice) \in Nat /\ IsFiniteSet(Active') /\ Cardinality(Active') \in Nat
        /\ Cardinality(Active') <= Cardinality(slice)
    BY <1>4, <1>5, FS_Subset, FS_CardinalityType
  <2>2. n \in Nat
    BY <1>3, <1>1
  <2>3. Cardinality(Active') <= MaxConcurrency
    BY <2>1, <2>2, <1>2, <1>4, Numbers
  <2>4. task' \in [Chunks -> {"idle", "calling", "storing", "stored"}]
    BY <1>5
  <2> QED
    BY <2>1, <2>3, <2>4 DEF TaskTypes
<1>8. WorkTypes'
  BY <1>4, <1>5, <1>6, <1>t DEF WorkTypes, breaker
<1>9. LogTypes' /\ GraphTypes' /\ RunTypes'
  BY <1>6, <1>t DEF logs, graph, window, history, LogTypes, GraphTypes, RunTypes
<1> QED
  BY <1>7, <1>8, <1>9 DEF TypeInv

LEMMA TypeNextChunk ==
    ASSUME TypeInv, ControlInv, ProviderInv, NEW c \in Chunks,
           Extracted(c) \/ Store(c) \/ SaveChunk(c)
    PROVE  TypeInv'
<1>t. LogTypes /\ GraphTypes /\ RunTypes /\ WorkTypes /\ TaskTypes
  BY DEF TypeInv
<1>r. /\ RunTypes' /\ UNCHANGED <<docLog, linkLog, todo, seen, rebuild, force, torn>>
      /\ links' = links
  BY <1>t DEF Extracted, Store, SaveChunk, window, history, RunTypes, graph
<1>a. TaskTypes'
  <2>1. \E s \in {"idle", "calling", "storing", "stored"} : task' = [task EXCEPT ![c] = s]
    BY DEF Extracted, Store, SaveChunk, Outcome, StoreFails
  <2>2. task[c] # "idle"
    BY DEF Extracted, Store, SaveChunk
  <2>3. task' \in [Chunks -> {"idle", "calling", "storing", "stored"}] /\ Active' \subseteq Active
    BY <2>1, <2>2, <1>t DEF Active, TaskTypes
  <2> QED
    BY <2>3, <1>t, FewerActive
<1>c. chunkLog' \in [Chunks -> {"none", "stored", "empty", "failed", "cancelled"}]
  BY <1>t DEF Extracted, Store, SaveChunk, Outcome, StoreFails, LogTypes
<1>m. \/ UNCHANGED manifest
      \/ manifest' = [status |-> "provider_blocked", lists |-> mem]
  BY DEF Extracted, Store, SaveChunk, NotFatal, Unrecorded, Fatal, Trips
<1>l. LogTypes'
  BY <1>r, <1>c, <1>m, <1>t DEF LogTypes
<1>g. GraphTypes'
  BY <1>t, <1>r DEF Extracted, Store, SaveChunk, GraphTypes, graph
<1>w. WorkTypes'
  <2>1. CASE UNCHANGED breaker
    BY <2>1, <1>t, <1>r DEF WorkTypes, breaker
  <2>2. CASE NotFatal
    BY <2>2, <1>t, <1>r, Numbers DEF WorkTypes, NotFatal, NoRow
  <2>3. ASSUME NEW s \in Signatures, Fatal(s) PROVE WorkTypes'
    <3>1. row'.times \in Nat /\ blocked' \in BOOLEAN
      BY <2>3, <1>t DEF Fatal, Trips, WorkTypes
    <3>2. streak' \in 0..Threshold
      <4>1. CASE blocked
        BY <4>1, <2>3, <1>t DEF Fatal, WorkTypes
      <4>2. CASE ~blocked
        BY <4>2, <2>3, <1>t, Numbers DEF Fatal, WorkTypes, ProviderInv, RefusedInv
      <4> QED
        BY <4>1, <4>2
    <3> QED
      BY <3>1, <3>2, <1>t, <1>r DEF WorkTypes
  <2> QED
    BY <2>1, <2>2, <2>3 DEF Extracted, Store, SaveChunk, Unrecorded
<1> QED
  BY <1>r, <1>a, <1>l, <1>g, <1>w DEF TypeInv

LEMMA TypeNextDocument ==
    ASSUME TypeInv, ControlInv, ProviderInv, SaveDocument \/ Conclude \/ Unlink
    PROVE  TypeInv'
<1>t. LogTypes /\ GraphTypes /\ RunTypes /\ WorkTypes /\ TaskTypes
  BY DEF TypeInv
<1>d. Doc \in Docs /\ Tail(left) \in Orders
  BY AtWork DEF SaveDocument, Conclude, Unlink, InDocument
<1>e. docLog[Doc] \in [status: {"none", "completed", "failed", "provider_blocked", "cancelled"},
                       linked: BOOLEAN, barred: BOOLEAN]
  BY <1>d, <1>t DEF LogTypes
<1>1. CASE SaveDocument
  <2>1. LogTypes'
    <3>1. DocumentStatus \in {"completed", "failed", "provider_blocked"}
      BY DEF DocumentStatus
    <3> QED
      BY <1>1, <1>t, <1>d, <3>1 DEF SaveDocument, Checkpoint, LogTypes
  <2>2. GraphTypes'
    BY <1>1, <1>t DEF SaveDocument, graph, GraphTypes
  <2>3. RunTypes'
    BY <1>1, <1>t DEF SaveDocument, window, RunTypes, Places, InDocument
  <2>4. WorkTypes' /\ TaskTypes'
    BY <1>1, <1>t DEF SaveDocument, work, breaker, WorkTypes, TaskTypes, Active
  <2> QED
    BY <2>1, <2>2, <2>3, <2>4 DEF TypeInv
<1>2. CASE Conclude
  <2>1. LogTypes'
    <3>1. \/ UNCHANGED docLog
          \/ docLog' = [docLog EXCEPT ![Doc] = [docLog[Doc] EXCEPT !.linked = FALSE, !.barred = TRUE]]
      BY <1>2 DEF Conclude, Checkpoint
    <3>2. [docLog[Doc] EXCEPT !.linked = FALSE, !.barred = TRUE] \in
            [status: {"none", "completed", "failed", "provider_blocked", "cancelled"},
             linked: BOOLEAN, barred: BOOLEAN]
      BY <1>e
    <3>3. docLog' \in [Docs -> [status: {"none", "completed", "failed", "provider_blocked", "cancelled"},
                                linked: BOOLEAN, barred: BOOLEAN]]
      BY <3>1, <3>2, <1>d, <1>t DEF LogTypes
    <3>4. manifest' \in {manifest, [manifest EXCEPT !.lists = mem']} /\ UNCHANGED <<chunkLog, linkLog>>
      BY <1>2 DEF Conclude
    <3> QED
      BY <3>3, <3>4, <1>t DEF LogTypes
  <2>2. GraphTypes'
    BY <1>2, <1>t DEF Conclude, graph, history, GraphTypes
  <2>3. RunTypes'
    <3>1. Append(linkable, Doc) \in Seq(Docs)
      BY <1>t, <1>d DEF RunTypes
    <3>2. relink' \in BOOLEAN
      BY <1>2, <1>t DEF Conclude, RunTypes, WorkTypes
    <3>3. pc' \in Places /\ UNCHANGED <<opts, rest>>
      BY <1>2, <1>t DEF Conclude, Advance, Places, InDocument
    <3>4. left' \in Orders /\ linkable' \in Seq(Docs)
      BY <1>2, <1>t, <1>d, <3>1 DEF Conclude, Advance, RunTypes
    <3> QED
      BY <3>2, <3>3, <3>4, <1>t DEF RunTypes
  <2>4. WorkTypes' /\ TaskTypes'
    BY <1>2, <1>t DEF Conclude, work, breaker, WorkTypes, TaskTypes, Active
  <2> QED
    BY <2>1, <2>2, <2>3, <2>4 DEF TypeInv
<1>3. CASE Unlink
  <2>2. GraphTypes'
    BY <1>3, <1>t, GraphCalls DEF Unlink, history, GraphTypes
  <2>1. CASE RunFails
    BY <1>3, <2>1, <2>2, FailTypes DEF Unlink
  <2>3. CASE ~RunFails
    <3>1. /\ manifest' = [manifest EXCEPT !.lists = mem] /\ Advance(linkable)
          /\ UNCHANGED <<opts, mem, rest, linkable, relink, key, work, breaker>>
          /\ UNCHANGED <<chunkLog, docLog, linkLog>>
      BY <1>3, <2>3 DEF Unlink
    <3>2. LogTypes'
      BY <3>1, <1>t DEF LogTypes
    <3>3. RunTypes'
      BY <3>1, <1>t, <1>d DEF Advance, RunTypes, Places, InDocument
    <3>4. WorkTypes' /\ TaskTypes'
      BY <3>1, <1>t DEF work, breaker, WorkTypes, TaskTypes, Active
    <3> QED
      BY <2>2, <3>2, <3>3, <3>4 DEF TypeInv
  <2> QED
    BY <2>1, <2>3
<1> QED
  BY <1>1, <1>2, <1>3

LEMMA TypeNextWindow ==
    ASSUME TypeInv, ControlInv, ProviderInv,
           Link \/ ClearWindow \/ LinkEntities \/ SaveWindow \/ LinkingState \/ EndWindow
    PROVE  TypeInv'
<1>t. LogTypes /\ GraphTypes /\ RunTypes /\ WorkTypes /\ TaskTypes
  BY DEF TypeInv
<1>w. WorkTypes' /\ TaskTypes'
  BY <1>t DEF Link, ClearWindow, LinkEntities, SaveWindow, LinkingState, EndWindow, work, breaker,
              WorkTypes, TaskTypes, Active
<1>s. \A k, s : s \in {"cancelled", "failed", "completed"} /\ SaveLink(k, s) =>
        \A l \in DOMAIN linkLog' : linkLog'[l] \in {"cancelled", "failed", "completed"}
  BY <1>t DEF SaveLink, LogTypes
<1>f. \A k, ks : LinkFails(k, ks) =>
        pc' = "barred" /\ \A l \in DOMAIN linkLog' : linkLog'[l] \in {"cancelled", "failed", "completed"}
  BY <1>s DEF LinkFails
<1>p. {"linked", "barred", "relink", "linking", "save", "flagged", "end", "document"} \subseteq Places
  BY DEF Places, InDocument
<1>u. Link \/ ClearWindow \/ LinkEntities \/ SaveWindow =>
        UNCHANGED <<chunkLog, docLog, manifest, opts, left, rest, linkable, relink>>
  BY DEF Link, ClearWindow, LinkEntities, SaveWindow, window
<1>1. CASE Link
  <2>1. pc' \in Places /\ \A l \in DOMAIN linkLog' : linkLog'[l] \in {"cancelled", "failed", "completed"}
    BY <1>1, <1>f, <1>p, <1>t DEF Link, LogTypes
  <2>2. GraphTypes'
    BY <1>1, <1>t, GraphCalls DEF Link
  <2> QED
    BY <1>1, <2>1, <2>2, <1>u, <1>w, <1>t DEF TypeInv, LogTypes, RunTypes
<1>2. CASE ClearWindow
  <2>1. pc' \in Places /\ \A l \in DOMAIN linkLog' : linkLog'[l] \in {"cancelled", "failed", "completed"}
    BY <1>2, <1>f, <1>s, <1>p DEF ClearWindow
  <2>2. GraphTypes'
    BY <1>2, <1>t, GraphCalls DEF ClearWindow, GraphTypes
  <2> QED
    BY <1>2, <2>1, <2>2, <1>u, <1>w, <1>t DEF TypeInv, LogTypes, RunTypes
<1>3. CASE LinkEntities
  <2>1. pc' \in Places /\ \A l \in DOMAIN linkLog' : linkLog'[l] \in {"cancelled", "failed", "completed"}
    BY <1>3, <1>f, <1>p, <1>t DEF LinkEntities, LogTypes
  <2>2. GraphTypes'
    BY <1>3, <1>t, GraphCalls DEF LinkEntities, history, GraphTypes
  <2> QED
    BY <1>3, <2>1, <2>2, <1>u, <1>w, <1>t DEF TypeInv, LogTypes, RunTypes
<1>4. CASE SaveWindow
  <2>1. pc' \in Places /\ \A l \in DOMAIN linkLog' : linkLog'[l] \in {"cancelled", "failed", "completed"}
    BY <1>4, <1>s, <1>p DEF SaveWindow
  <2>2. GraphTypes'
    BY <1>4, <1>t DEF SaveWindow, graph, GraphTypes
  <2> QED
    BY <1>4, <2>1, <2>2, <1>u, <1>w, <1>t DEF TypeInv, LogTypes, RunTypes
<1>5. CASE LinkingState
  <2> DEFINE d == Head(linkable)
  <2>1. d \in Docs /\ Tail(linkable) \in Seq(Docs)
    BY <1>5, <1>t, TailSet DEF LinkingState, RunTypes
  <2>2. docLog[d] \in [status: {"none", "completed", "failed", "provider_blocked", "cancelled"},
                       linked: BOOLEAN, barred: BOOLEAN]
    BY <2>1, <1>t DEF LogTypes
  <2>3. [docLog[d] EXCEPT !.linked = (pc = "linked"), !.barred = (pc = "barred")] \in
          [status: {"none", "completed", "failed", "provider_blocked", "cancelled"},
           linked: BOOLEAN, barred: BOOLEAN]
    BY <2>2
  <2>4. docLog' = [docLog EXCEPT ![d] = [docLog[d] EXCEPT !.linked = (pc = "linked"), !.barred = (pc = "barred")]]
        /\ UNCHANGED <<chunkLog, linkLog, manifest>>
    BY <1>5 DEF LinkingState, Checkpoint
  <2> HIDE DEF d
  <2>5. LogTypes'
    BY <2>1, <2>3, <2>4, <1>t DEF LogTypes
  <2>6. GraphTypes'
    BY <1>5, <1>t DEF LinkingState, graph, GraphTypes
  <2>7. RunTypes'
    <3>1. linkable' = Tail(linkable) /\ pc' \in {"flagged", pc} /\ UNCHANGED <<opts, left, rest, relink>>
      BY <1>5 DEF LinkingState
    <3> QED
      BY <3>1, <2>1, <1>t, <1>p DEF RunTypes
  <2> QED
    BY <2>5, <2>6, <2>7, <1>w DEF TypeInv
<1>6. CASE EndWindow
  <2>1. LogTypes'
    BY <1>6, <1>t DEF EndWindow, LogTypes
  <2>2. GraphTypes'
    BY <1>6, <1>t DEF EndWindow, graph, history, GraphTypes
  <2>3. RunTypes'
    <3>1. CASE UNCHANGED <<left, rest>>
      BY <1>6, <3>1, <1>t, <1>p DEF EndWindow, RunTypes
    <3>2. CASE rest # <<>> /\ left' = Head(rest) /\ rest' = Tail(rest)
      <4>1. Head(rest) \in Orders /\ Tail(rest) \in Seq(Orders \ {<<>>})
        BY <3>2, <1>t DEF RunTypes
      <4> QED
        BY <1>6, <3>2, <4>1, <1>t, <1>p DEF EndWindow, RunTypes
    <3> QED
      BY <1>6, <3>1, <3>2 DEF EndWindow
  <2> QED
    BY <2>1, <2>2, <2>3, <1>w DEF TypeInv
<1> QED
  BY <1>1, <1>2, <1>3, <1>4, <1>5, <1>6

\* What is under way when a run is interrupted.
LEMMA InFlightTypes ==
    ASSUME TypeInv, ControlInv, InFlight PROVE GraphTypes'
<1>t. GraphTypes /\ RunTypes /\ TaskTypes
  BY DEF TypeInv
<1>1. CASE Untouched
  BY <1>1, <1>t, GraphCalls
<1>2. CASE pc = "chunks" /\ UNCHANGED <<links, history>>
  BY <1>2, <1>t DEF InFlight, Untouched, history, graph, GraphTypes, Deleted
<1>3. CASE pc = "clean" /\ Deleted(Doc)
  BY <1>3, <1>t, AtWork, GraphCalls DEF InDocument
<1>4. CASE UNCHANGED <<evidence, history>> /\ \E ds : DeleteLinks(ds)
  BY <1>4, <1>t, GraphCalls DEF history, GraphTypes
<1>5. CASE UNCHANGED <<evidence, history>> /\ links' = links \cup Pairs(InWindow)
  BY <1>5, <1>t, GraphCalls DEF history, GraphTypes
<1> QED
  BY <1>1, <1>2, <1>3, <1>4, <1>5 DEF InFlight

LEMMA TypeNextEnd ==
    ASSUME TypeInv, ControlInv, ProviderInv, EndRun \/ Cancel \/ Die
    PROVE  TypeInv'
<1>t. LogTypes /\ GraphTypes /\ RunTypes /\ WorkTypes /\ TaskTypes
  BY DEF TypeInv
<1>o. RunTypes' /\ WorkTypes' /\ TaskTypes'
  BY OffTypes DEF EndRun, Cancel, Die
<1>1. CASE EndRun
  <2>1. LogTypes'
    BY <1>1, <1>t DEF EndRun, LogTypes
  <2>2. GraphTypes'
    BY <1>1, <1>t DEF EndRun, graph, history, GraphTypes
  <2> QED
    BY <2>1, <2>2, <1>o DEF TypeInv
<1>2. CASE Cancel
  <2>1. GraphTypes'
    BY <1>2, InFlightTypes DEF Cancel
  <2>2. chunkLog' \in [Chunks -> {"none", "stored", "empty", "failed", "cancelled"}]
    BY <1>2, <1>t DEF Cancel, LogTypes
  <2>3. docLog' \in [Docs -> [status: {"none", "completed", "failed", "provider_blocked", "cancelled"},
                              linked: BOOLEAN, barred: BOOLEAN]]
    <3>1. CASE pc = "chunks"
      <4>1. Doc \in Docs
        BY <3>1, AtWork DEF InDocument
      <4>2. docLog' = [docLog EXCEPT ![Doc] = [status |-> "cancelled", linked |-> FALSE, barred |-> TRUE]]
        BY <3>1, <1>2 DEF Cancel, Checkpoint
      <4> QED
        BY <4>1, <4>2, <1>t DEF LogTypes
    <3>2. CASE pc # "chunks"
      BY <3>2, <1>2, <1>t DEF Cancel, LogTypes
    <3> QED
      BY <3>1, <3>2
  <2>4. LogTypes'
    BY <2>2, <2>3, <1>2, <1>t DEF Cancel, LogTypes
  <2> QED
    BY <2>1, <2>4, <1>o DEF TypeInv
<1>3. CASE Die
  <2>1. GraphTypes'
    BY <1>3, InFlightTypes DEF Die
  <2>2. LogTypes'
    BY <1>3, <1>t DEF Die, logs, LogTypes
  <2> QED
    BY <2>1, <2>2, <1>o DEF TypeInv
<1> QED
  BY <1>1, <1>2, <1>3

LEMMA TypeNext == TypeInv /\ ControlInv /\ ProviderInv /\ [Next]_vars => TypeInv'
<1> SUFFICES ASSUME TypeInv, ControlInv, ProviderInv, [Next]_vars PROVE TypeInv'
  OBVIOUS
<1>1. CASE UNCHANGED vars
  <2>1. LogTypes' /\ GraphTypes' /\ RunTypes'
    BY <1>1 DEF vars, TypeInv, LogTypes, GraphTypes, RunTypes, logs, graph, window, history
  <2>2. WorkTypes' /\ TaskTypes'
    BY <1>1 DEF vars, TypeInv, WorkTypes, TaskTypes, Active, work, breaker
  <2> QED
    BY <2>1, <2>2 DEF TypeInv
<1>2. CASE Next
  BY <1>2, TypeNextRun, SliceTypes, TypeNextChunk, TypeNextDocument, TypeNextWindow, TypeNextEnd
  DEF Next, Steps
<1> QED
  BY <1>1, <1>2

-----------------------------------------------------------------------------
(* Where the run stands *)

LEMMA ControlInit == Init => ControlInv
  BY DEF Init, ControlInv, InDocument

\* Nothing is at work, no document is open, no window either.
LEMMA OffControl == Off => ControlInv'
  BY DEF Off, ControlInv, InDocument

LEMMA AdvanceControl ==
    ASSUME TypeInv, NEW ls \in Seq(Docs), Advance(ls), linkable' = ls, task' = AllIdle,
           left # <<>>, ToSet(Tail(left)) \cap ToSet(ls) = {}, UNCHANGED blocked
    PROVE  ControlInv'
<1>1. left' = Tail(left) /\ pc' \in {"document", "link", "flagged"}
      /\ (pc' = "document" => left' # <<>> /\ ~blocked) /\ (pc' = "flagged" => ls = <<>>)
  BY DEF Advance, Asks
<1> QED
  BY <1>1 DEF ControlInv, InWindow, InDocument

LEMMA ControlNextDocument ==
    ASSUME TypeInv, ControlInv,
           StartRun \/ Reuse \/ BeginDocument \/ Clean \/ SaveDocument \/ Conclude \/ Unlink
    PROVE  ControlInv'
<1>1. CASE StartRun
  <2>1. Head(Windows) # <<>>
    BY Constants
  <2>2. pc' = "document" /\ left' = Head(Windows) /\ UNCHANGED <<linkable, task, blocked>>
    BY <1>1 DEF StartRun, work, breaker
  <2>3. linkable = <<>> /\ task = AllIdle /\ ~blocked
    BY <1>1 DEF StartRun, ControlInv
  <2> QED
    BY <2>1, <2>2, <2>3 DEF ControlInv, InWindow, InDocument, ToSet
<1>2. CASE Reuse
  BY <1>2 DEF Reuse, Reusable, ControlInv, InDocument, InWindow, window, breaker, logs, Doc
<1>3. CASE BeginDocument
  <2>1. CASE RunFails
    BY <2>1, OffControl DEF RunFails
  <2>2. CASE ~RunFails
    <3>1. /\ force' = (Rebuild(Doc) \/ docLog[Doc].status = "none") /\ rebuild' = Rebuild(Doc)
          /\ todo' = ChunksOf[Doc] /\ seen' = {} /\ pc' = IF Rebuild(Doc) THEN "clean" ELSE "chunks"
          /\ UNCHANGED <<window, task, breaker>>
      BY <1>3, <2>2 DEF BeginDocument
    <3>2. pc = "document" /\ ~blocked /\ task = AllIdle
      BY <1>3 DEF BeginDocument, ControlInv
    <3>3. Active' = {} /\ Of(Doc)' = ToSet(todo') /\ InWindow' = InWindow
      BY <3>1, <3>2 DEF Active, AllIdle, Of, window, InWindow, Doc
    <3> QED
      BY <3>1, <3>2, <3>3 DEF ControlInv, InDocument, window, breaker
  <2> QED
    BY <2>1, <2>2
<1>4. CASE Clean
  <2>1. CASE RunFails
    BY <2>1, OffControl DEF RunFails
  <2>2. CASE ~RunFails
    <3>1. pc = "clean" /\ pc' = "chunks" /\ UNCHANGED <<window, breaker, work>>
      BY <1>4, <2>2 DEF Clean
    <3>2. Active' = Active /\ Of(Doc)' = Of(Doc) /\ InWindow' = InWindow
      BY <3>1 DEF work, window, Active, Of, Doc, InWindow
    <3> QED
      BY <3>1, <3>2 DEF ControlInv, InDocument, work, window, breaker
  <2> QED
    BY <2>1, <2>2
<1>5. CASE SaveDocument
  <2>1. /\ pc' = "conclude" /\ Active = {} /\ UNCHANGED <<window, task, blocked, chunkLog, seen>>
        /\ docLog' = [docLog EXCEPT ![Doc] = [status |-> DocumentStatus, linked |-> FALSE, barred |-> FALSE]]
        /\ pc = "chunks"
    BY <1>5 DEF SaveDocument, work, breaker, Checkpoint
  <2>2. task' = AllIdle
    BY <2>1 DEF Active, AllIdle, TypeInv, TaskTypes
  <2>3. Doc \in Docs /\ docLog \in [Docs -> [status: {"none", "completed", "failed", "provider_blocked", "cancelled"},
                                    linked: BOOLEAN, barred: BOOLEAN]]
    BY <2>1, AtWork DEF InDocument, TypeInv, LogTypes
  <2>4. docLog'[Doc].status = DocumentStatus /\ Doc' = Doc
    BY <2>1, <2>3 DEF window, Doc
  <2>5. AnyFailed' = AnyFailed
    BY <2>1 DEF AnyFailed, Completed
  <2>6. AnyFailed \/ DocumentStatus = "completed"
    BY <2>1 DEF ControlInv, DocumentStatus, AnyFailed
  <2>7. left' # <<>> /\ ToSet(left') \cap InWindow' = {}
    BY <2>1 DEF ControlInv, InDocument, window, InWindow
  <2> QED
    BY <2>1, <2>2, <2>4, <2>5, <2>6, <2>7 DEF ControlInv, InDocument
<1>6. CASE Conclude
  <2>1. pc = "conclude" /\ left # <<>> /\ ToSet(left) \cap InWindow = {} /\ task = AllIdle
        /\ UNCHANGED <<task, blocked>> /\ linkable \in Seq(Docs)
    BY <1>6 DEF Conclude, ControlInv, InDocument, work, breaker, TypeInv, RunTypes
  <2>2. Doc \in Docs /\ Doc \in ToSet(left) /\ ToSet(Tail(left)) \subseteq ToSet(left) /\ Doc \notin ToSet(Tail(left))
    BY <2>1, AtWork DEF InDocument
  <2>3. CASE LinksIt
    <3>1. linkable' = Append(linkable, Doc) /\ Advance(linkable')
      BY <1>6, <2>3 DEF Conclude
    <3>2. linkable' \in Seq(Docs) /\ ToSet(linkable') = InWindow \cup {Doc}
      BY <2>1, <2>2, <3>1, AppendedSet DEF InWindow
    <3> QED
      BY <2>1, <2>2, <3>1, <3>2, AdvanceControl
  <2>4. CASE ~LinksIt
    <3>1. pc' = "unlink" /\ UNCHANGED <<linkable, left>>
      BY <1>6, <2>4 DEF Conclude
    <3> QED
      BY <2>1, <3>1 DEF ControlInv, InDocument, InWindow
  <2> QED
    BY <2>3, <2>4
<1>7. CASE Unlink
  <2>1. CASE RunFails
    BY <2>1, OffControl DEF RunFails
  <2>2. CASE ~RunFails
    <3>1. Advance(linkable) /\ UNCHANGED <<linkable, task, blocked>> /\ pc = "unlink"
      BY <1>7, <2>2 DEF Unlink, work, breaker
    <3>2. left # <<>> /\ ToSet(left) \cap InWindow = {} /\ task = AllIdle /\ linkable \in Seq(Docs)
      BY <3>1 DEF ControlInv, InDocument, TypeInv, RunTypes
    <3>3. ToSet(Tail(left)) \subseteq ToSet(left)
      BY <3>1, AtWork DEF InDocument
    <3> QED
      BY <3>1, <3>2, <3>3, AdvanceControl DEF InWindow
  <2> QED
    BY <2>1, <2>2
<1> QED
  BY <1>1, <1>2, <1>3, <1>4, <1>5, <1>6, <1>7

LEMMA ControlNextSlice == TypeInv /\ ControlInv /\ BeginSlice => ControlInv'
<1> SUFFICES ASSUME TypeInv, ControlInv, BeginSlice PROVE ControlInv'
  OBVIOUS
<1> DEFINE n == Min({MaxConcurrency, Len(todo)})
           slice == ToSet(SubSeq(todo, 1, n))
<1>1. todo \in Seq(Chunks) /\ todo # <<>> /\ Len(todo) \in Nat /\ Len(todo) > 0
  BY DEF TypeInv, WorkTypes, BeginSlice, Schedule
<1>2. n \in 1..Len(todo)
  <2>1. \E m \in {MaxConcurrency, Len(todo)} : \A k \in {MaxConcurrency, Len(todo)} : m <= k
    BY <1>1, Numbers
  <2> QED
    BY <2>1, <1>1, Numbers DEF Min
<1>3. slice \cup ToSet(SubSeq(todo, n + 1, Len(todo))) = ToSet(todo)
  BY <1>1, <1>2, Slices
<1>4. /\ Active' \subseteq slice /\ seen' = seen \cup slice /\ todo' = SubSeq(todo, n + 1, Len(todo))
      /\ pc = "chunks" /\ pc' = "chunks" /\ ~blocked'
      /\ UNCHANGED <<window, rebuild, force>>
  BY DEF BeginSlice, Active, breaker, Schedule, Asks
<1> HIDE DEF n, slice
<1>5. Of(Doc)' = Of(Doc) /\ InWindow' = InWindow /\ left' = left /\ linkable' = linkable
  BY <1>4 DEF window, Of, Doc, InWindow
<1>6. Active' \subseteq seen' /\ seen' \cup ToSet(todo') = Of(Doc)'
  BY <1>3, <1>4, <1>5 DEF ControlInv
<1> QED
  BY <1>4, <1>5, <1>6 DEF ControlInv, InDocument

\* What a step of one chunk does: it goes on, or it has an outcome.
LEMMA ChunkStep ==
    ASSUME TypeInv, ControlInv, NEW c \in Chunks, Extracted(c) \/ Store(c) \/ SaveChunk(c)
    PROVE  /\ pc = "chunks" /\ c \in Active /\ c \in seen /\ Active' \subseteq Active
           /\ UNCHANGED <<pc, window, rebuild, force, todo, seen, docLog, links, torn>>
           /\ \A b \in Chunks : b # c => chunkLog'[b] = chunkLog[b] /\ task'[b] = task[b]
           /\ Active \ {c} \subseteq Active'
           /\ evidence \subseteq evidence'
           /\ \/ chunkLog' = chunkLog /\ c \in Active'
              \/ chunkLog'[c] \in {"empty", "failed"} /\ c \notin Active'
              \/ task[c] = "stored" /\ chunkLog'[c] = "stored" /\ c \notin Active'
<1>t. /\ task \in [Chunks -> {"idle", "calling", "storing", "stored"}]
      /\ chunkLog \in [Chunks -> {"none", "stored", "empty", "failed", "cancelled"}]
  BY DEF TypeInv, TaskTypes, LogTypes
<1>1. task[c] # "idle" /\ c \in Active
  BY DEF Extracted, Store, SaveChunk, Active
<1>2. pc = "chunks" /\ c \in seen
  BY <1>1 DEF ControlInv, AllIdle
<1>3. UNCHANGED <<pc, window, rebuild, force, todo, seen, docLog, links, torn>> /\ evidence \subseteq evidence'
  BY DEF Extracted, Store, SaveChunk, graph, history
<1>4. \E s \in {"idle", "calling", "storing", "stored"} : task' = [task EXCEPT ![c] = s]
  BY DEF Extracted, Store, SaveChunk, Outcome, StoreFails
<1>5. \/ chunkLog' = chunkLog /\ \E s \in {"storing", "stored"} : task' = [task EXCEPT ![c] = s]
      \/ /\ chunkLog' = [chunkLog EXCEPT ![c] = "empty"] \/ chunkLog' = [chunkLog EXCEPT ![c] = "failed"]
         /\ task' = [task EXCEPT ![c] = "idle"]
      \/ /\ task[c] = "stored" /\ chunkLog' = [chunkLog EXCEPT ![c] = "stored"]
         /\ task' = [task EXCEPT ![c] = "idle"]
  BY DEF Extracted, Store, SaveChunk, Outcome, StoreFails
<1>6. \A b \in Chunks : b # c => chunkLog'[b] = chunkLog[b] /\ task'[b] = task[b]
  BY <1>4, <1>5, <1>t
<1>7. Active' \subseteq Active /\ Active \ {c} \subseteq Active'
  BY <1>1, <1>6 DEF Active
<1>8. \/ chunkLog' = chunkLog /\ c \in Active'
      \/ chunkLog'[c] \in {"empty", "failed"} /\ c \notin Active'
      \/ task[c] = "stored" /\ chunkLog'[c] = "stored" /\ c \notin Active'
  BY <1>5, <1>t DEF Active
<1> QED
  BY <1>1, <1>2, <1>3, <1>6, <1>7, <1>8

LEMMA ControlNextChunk ==
    ASSUME TypeInv, ControlInv, NEW c \in Chunks, Extracted(c) \/ Store(c) \/ SaveChunk(c)
    PROVE  ControlInv'
<1>1. /\ pc = "chunks" /\ c \in Active /\ c \in seen /\ Active' \subseteq Active
      /\ UNCHANGED <<pc, window, rebuild, force, todo, seen>>
      /\ \A b \in Chunks : b # c => chunkLog'[b] = chunkLog[b]
  BY ChunkStep
<1>2. Of(Doc)' = Of(Doc) /\ InWindow' = InWindow /\ left' = left /\ linkable' = linkable
  BY <1>1 DEF window, Of, Doc, InWindow
<1>3. blocked' => \E b \in seen' \ Active' : ~Completed(b)'
  <2>1. CASE blocked
    <3>1. PICK b \in seen \ Active : ~Completed(b)
      BY <1>1, <2>1 DEF ControlInv
    <3>2. b \in Chunks /\ b # c /\ b \in seen' \ Active'
      BY <1>1, <3>1 DEF TypeInv, WorkTypes
    <3>3. ~Completed(b)'
      BY <1>1, <3>1, <3>2 DEF Completed
    <3> QED
      BY <3>2, <3>3
  <2>2. CASE ~blocked /\ blocked'
    <3>1. chunkLog' = [chunkLog EXCEPT ![c] = "failed"] /\ task' = [task EXCEPT ![c] = "idle"]
      BY <2>2 DEF Extracted, Store, SaveChunk, NotFatal, Outcome, breaker
    <3>2. chunkLog'[c] = "failed" /\ task'[c] = "idle"
      BY <3>1 DEF TypeInv, LogTypes, TaskTypes
    <3>3. ~Completed(c)' /\ c \in seen' \ Active'
      BY <1>1, <3>2 DEF Completed, Active
    <3> QED
      BY <3>3
  <2> QED
    BY <2>1, <2>2
<1> QED
  BY <1>1, <1>2, <1>3 DEF ControlInv, InDocument

LEMMA ControlNextWindow ==
    ASSUME TypeInv, ControlInv,
           Link \/ ClearWindow \/ LinkEntities \/ SaveWindow \/ LinkingState \/ EndWindow
    PROVE  ControlInv'
<1>1. UNCHANGED <<task, blocked>> /\ pc # "chunks"
  BY DEF Link, ClearWindow, LinkEntities, SaveWindow, LinkingState, EndWindow, work, breaker
<1>2. task' = AllIdle
  BY <1>1 DEF ControlInv
<1>3. CASE Link \/ ClearWindow \/ LinkEntities \/ SaveWindow
  <2>1. pc' \in {"link", "relink", "linking", "save", "linked", "barred"}
    BY <1>3 DEF Link, ClearWindow, LinkEntities, SaveWindow, LinkFails
  <2> QED
    BY <2>1, <1>2 DEF ControlInv, InDocument
<1>4. CASE LinkingState
  <2>1. pc' \in {"linked", "barred", "flagged"} /\ (pc' = "flagged" => linkable' = <<>>)
    BY <1>4 DEF LinkingState
  <2> QED
    BY <2>1, <1>2 DEF ControlInv, InDocument
<1>5. CASE EndWindow
  <2>1. linkable' = <<>>
    BY <1>5 DEF EndWindow, ControlInv
  <2>2. pc' = "end" \/ (pc' = "document" /\ rest # <<>> /\ ~blocked /\ left' = Head(rest))
    BY <1>5 DEF EndWindow, Asks
  <2>3. rest # <<>> => Head(rest) # <<>>
    BY DEF TypeInv, RunTypes
  <2>4. InWindow' = {}
    BY <2>1 DEF InWindow, ToSet
  <2> QED
    BY <2>1, <2>2, <2>3, <2>4, <1>1, <1>2 DEF ControlInv, InDocument
<1> QED
  BY <1>3, <1>4, <1>5

LEMMA ControlNext == TypeInv /\ ControlInv /\ [Next]_vars => ControlInv'
<1> SUFFICES ASSUME TypeInv, ControlInv, [Next]_vars PROVE ControlInv'
  OBVIOUS
<1>1. CASE UNCHANGED vars
  BY <1>1 DEF vars, ControlInv, logs, graph, window, work, breaker, InWindow, Active, Of, Doc,
              Completed, AnyFailed, InDocument
<1>2. CASE Next
  BY <1>2, ControlNextDocument, ControlNextSlice, ControlNextChunk, ControlNextWindow, OffControl
  DEF Next, Steps, EndRun, Cancel, Die
<1> QED
  BY <1>1, <1>2

-----------------------------------------------------------------------------
(* Facts and checkpoints *)

\* The facts of the other documents stay.
LEMMA DeletedKeeps ==
    ASSUME NEW d \in Docs, Deleted(d), CompletedIsStored, UNCHANGED chunkLog
    PROVE  CompletedIsStored'
<1> SUFFICES ASSUME NEW e \in Docs \ torn', NEW c \in Of(e), chunkLog[c] = "stored"
             PROVE  c \in evidence'
  BY DEF CompletedIsStored, Of
<1>1. e # d /\ e \in Docs \ torn
  BY DEF Deleted
<1>2. c \in evidence /\ c \notin Of(d)
  BY <1>1, Constants DEF CompletedIsStored
<1> QED
  BY <1>2 DEF Deleted

LEMMA StoredInit == Init => StoredInv
  BY Constants DEF Init, StoredInv, CompletedIsStored, AllIdle

\* The run goes on: nothing is stored, started or deleted.
LEMMA StoredKept ==
    ASSUME StoredInv, evidence \subseteq evidence', torn \subseteq torn', UNCHANGED chunkLog,
           task' = AllIdle, pc' \notin {"clean", "chunks"}
    PROVE  StoredInv'
<1>1. CompletedIsStored'
  BY DEF StoredInv, CompletedIsStored, Of
<1> QED
  BY <1>1 DEF StoredInv, AllIdle

LEMMA StoredNextDocument ==
    ASSUME TypeInv, ControlInv, ControlInv', StoredInv, BeginDocument \/ Clean \/ SaveDocument
    PROVE  StoredInv'
<1>1. CASE BeginDocument
  <2>1. UNCHANGED <<evidence, torn, chunkLog>> /\ task = AllIdle
    BY <1>1 DEF BeginDocument, Untouched, graph, history, ControlInv
  <2>2. CASE RunFails
    BY <2>1, <2>2, StoredKept DEF RunFails, Off
  <2>3. CASE ~RunFails
    <3>1. UNCHANGED task /\ seen' = {}
      BY <1>1, <2>3 DEF BeginDocument
    <3>2. CompletedIsStored'
      BY <2>1 DEF StoredInv, CompletedIsStored, Of
    <3> QED
      BY <2>1, <3>1, <3>2 DEF StoredInv, AllIdle
  <2> QED
    BY <2>2, <2>3
<1>2. CASE Clean
  <2>1. UNCHANGED chunkLog /\ task = AllIdle /\ Doc \in Docs /\ seen = {}
    BY <1>2, AtWork DEF Clean, ControlInv, InDocument
  <2>2. CompletedIsStored'
    <3>1. CASE Deleted(Doc)
      BY <3>1, <2>1, DeletedKeeps DEF StoredInv
    <3>2. CASE Untouched
      BY <3>2, <2>1 DEF Untouched, graph, history, StoredInv, CompletedIsStored, Of
    <3> QED
      BY <1>2, <3>1, <3>2 DEF Clean
  <2>3. task' = AllIdle /\ seen' = {}
    BY <1>2, <2>1 DEF Clean, work, RunFails, Off
  <2> QED
    BY <2>2, <2>3 DEF StoredInv, AllIdle
<1>3. CASE SaveDocument
  <2>1. /\ UNCHANGED <<evidence, chunkLog, task>> /\ pc = "chunks" /\ pc' = "conclude" /\ Active = {}
        /\ torn' = IF rebuild /\ todo = <<>> THEN torn \ {Doc} ELSE torn
    BY <1>3 DEF SaveDocument, graph, work
  <2>2. CompletedIsStored'
    <3>1. CASE rebuild /\ todo = <<>>
      <4>0. ToSet(todo) = {}
        BY <3>1 DEF ToSet
      <4>1. seen = Of(Doc)
        BY <2>1, <4>0 DEF ControlInv
      <4>2. \A c \in Of(Doc) : chunkLog[c] = "stored" => c \in evidence
        BY <2>1, <3>1, <4>1 DEF StoredInv
      <4> QED
        BY <2>1, <3>1, <4>2 DEF StoredInv, CompletedIsStored, Of
    <3>2. CASE ~(rebuild /\ todo = <<>>)
      BY <2>1, <3>2 DEF StoredInv, CompletedIsStored, Of
    <3> QED
      BY <3>1, <3>2
  <2> QED
    BY <2>1, <2>2 DEF StoredInv
<1> QED
  BY <1>1, <1>2, <1>3

\* A rebuild takes no chunk over: what it has seen is at work or has an outcome.
LEMMA StoredNextSlice == TypeInv /\ ControlInv /\ StoredInv /\ BeginSlice => StoredInv'
<1> SUFFICES ASSUME TypeInv, ControlInv, StoredInv, BeginSlice PROVE StoredInv'
  OBVIOUS
<1> DEFINE slice == ToSet(SubSeq(todo, 1, Min({MaxConcurrency, Len(todo)})))
           reused == {c \in slice : ~force /\ (Completed(c) \/ Spared(c))}
<1>1. /\ task' = [c \in Chunks |-> IF c \in slice \ reused THEN "calling" ELSE "idle"]
      /\ seen' = seen \cup slice /\ pc = "chunks"
      /\ UNCHANGED <<chunkLog, evidence, torn, rebuild, force>>
  BY DEF BeginSlice, logs, graph, history
<1>2. rebuild => reused = {}
  BY <1>1 DEF ControlInv
<1> HIDE DEF slice, reused
<1>3. \A c \in Chunks : task'[c] # "stored"
  BY <1>1
<1>4. rebuild => \A c \in seen' \ Active' : c \in seen /\ c \in Chunks
  <2>1. seen' \subseteq Chunks
    BY SliceTypes DEF TypeInv, WorkTypes
  <2> QED
    BY <2>1, <1>1, <1>2 DEF Active
<1>5. Active = {}
  BY DEF BeginSlice
<1>6. CompletedIsStored'
  BY <1>1 DEF StoredInv, CompletedIsStored, Of
<1> QED
  BY <1>1, <1>3, <1>4, <1>5, <1>6 DEF StoredInv

LEMMA StoredNextChunk ==
    ASSUME TypeInv, ControlInv, StoredInv, NEW c \in Chunks, Extracted(c) \/ Store(c) \/ SaveChunk(c)
    PROVE  StoredInv'
<1>1. /\ pc = "chunks" /\ c \in Active /\ c \in seen /\ Active' \subseteq Active
      /\ UNCHANGED <<pc, rebuild, seen, torn>>
      /\ \A b \in Chunks : b # c => chunkLog'[b] = chunkLog[b] /\ task'[b] = task[b]
      /\ Active \ {c} \subseteq Active' /\ evidence \subseteq evidence'
      /\ \/ chunkLog' = chunkLog /\ c \in Active'
         \/ chunkLog'[c] \in {"empty", "failed"} /\ c \notin Active'
         \/ task[c] = "stored" /\ chunkLog'[c] = "stored" /\ c \notin Active'
  BY ChunkStep
<1>2. task'[c] = "stored" => c \in evidence'
  <2>1. CASE Extracted(c)
    BY <2>1 DEF Extracted, Outcome, TypeInv, TaskTypes
  <2>2. CASE Store(c)
    BY <2>2 DEF Store, StoreFails, Outcome, TypeInv, TaskTypes
  <2>3. CASE SaveChunk(c)
    BY <2>3 DEF SaveChunk, Outcome, TypeInv, TaskTypes
  <2> QED
    BY <2>1, <2>2, <2>3
<1>3. \A b \in Chunks : chunkLog'[b] = "stored" => chunkLog[b] = "stored" \/ b \in evidence'
  BY <1>1 DEF StoredInv
<1>4. CompletedIsStored'
  BY <1>1, <1>3, Constants DEF StoredInv, CompletedIsStored, Of
<1>5. \A b \in Chunks : task'[b] = "stored" => b \in evidence'
  BY <1>1, <1>2 DEF StoredInv
<1>6. rebuild' => \A b \in seen' \ Active' : chunkLog'[b] = "stored" => b \in evidence'
  <2> SUFFICES ASSUME rebuild, NEW b \in seen \ Active', chunkLog'[b] = "stored" PROVE b \in evidence'
    BY <1>1
  <2>1. b \in Chunks
    BY DEF TypeInv, WorkTypes
  <2>2. CASE b # c
    BY <2>1, <2>2, <1>1 DEF StoredInv
  <2>3. CASE b = c
    BY <2>3, <1>1 DEF StoredInv
  <2> QED
    BY <2>2, <2>3
<1> QED
  BY <1>1, <1>4, <1>5, <1>6 DEF StoredInv

\* An interrupted run: what is under way may only add facts, or tear a document.
LEMMA StoredNextEnd ==
    ASSUME TypeInv, ControlInv, StoredInv, Cancel \/ Die
    PROVE  StoredInv'
<1>1. task' = AllIdle /\ pc' = "off" /\ InFlight
  BY DEF Cancel, Die, Off
<1>2. \A c \in Chunks : chunkLog'[c] = "stored" => chunkLog[c] = "stored"
  <2>1. CASE Cancel
    BY <2>1 DEF Cancel
  <2>2. CASE Die
    BY <2>2 DEF Die, logs
  <2> QED
    BY <2>1, <2>2
<1>3. CompletedIsStored'
  <2>1. CASE evidence \subseteq evidence' /\ UNCHANGED history
    BY <2>1, <1>2, Constants DEF history, StoredInv, CompletedIsStored, Of
  <2>2. CASE pc = "clean" /\ Deleted(Doc)
    <3>1. Doc \in Docs
      BY <2>2, AtWork DEF InDocument
    <3>2. UNCHANGED chunkLog
      BY <2>2 DEF Cancel, Die, logs
    <3> QED
      BY <2>2, <3>1, <3>2, DeletedKeeps DEF StoredInv
  <2>3. (evidence \subseteq evidence' /\ UNCHANGED history) \/ (pc = "clean" /\ Deleted(Doc))
    BY <1>1 DEF InFlight, Untouched, graph
  <2> QED
    BY <2>1, <2>2, <2>3
<1> QED
  BY <1>1, <1>3 DEF StoredInv, AllIdle

LEMMA StoredNext == TypeInv /\ ControlInv /\ ControlInv' /\ StoredInv /\ [Next]_vars => StoredInv'
<1> SUFFICES ASSUME TypeInv, ControlInv, ControlInv', StoredInv, [Next]_vars PROVE StoredInv'
  OBVIOUS
<1>1. CASE UNCHANGED vars
  BY <1>1 DEF vars, StoredInv, CompletedIsStored, logs, graph, work, history, Of, Active
<1>2. CASE StartRun \/ Reuse \/ Conclude \/ Unlink \/ EndRun
  <2>1. UNCHANGED <<evidence, torn, chunkLog>>
    BY <1>2 DEF StartRun, Reuse, Conclude, Unlink, EndRun, graph, history, logs
  <2>2. task' = AllIdle
    BY <1>2 DEF StartRun, Reuse, Conclude, Unlink, EndRun, work, Off, RunFails, ControlInv
  <2>3. pc' \notin {"clean", "chunks"}
    BY <1>2 DEF StartRun, Reuse, Conclude, Unlink, EndRun, Off, RunFails, Advance
  <2> QED
    BY <2>1, <2>2, <2>3, StoredKept
<1>3. CASE Link \/ ClearWindow \/ LinkEntities \/ SaveWindow \/ LinkingState \/ EndWindow
  <2>1. UNCHANGED <<evidence, torn, chunkLog, task>> /\ pc # "chunks" /\ pc' \notin {"clean", "chunks"}
    BY <1>3 DEF Link, ClearWindow, LinkEntities, SaveWindow, LinkingState, EndWindow, work, graph,
                history, Untouched, LinkFails
  <2> QED
    BY <2>1, StoredKept DEF ControlInv
<1> QED
  BY <1>1, <1>2, <1>3, StoredNextDocument, StoredNextSlice, StoredNextChunk, StoredNextEnd DEF Next, Steps

-----------------------------------------------------------------------------
(* Links *)

LEMMA LinksInit == Init => LinksInv
  BY DEF Init, LinksInv, LinksAreGrounded, InWindow, ToSet

\* No link is new, no fact of one is lost, no document of one loses its status.
LEMMA LinksKept ==
    ASSUME LinksAreGrounded, links' \subseteq links,
           \A p \in links' : p \subseteq evidence => p \subseteq evidence',
           \A p \in links' : \A d \in Docs :
              p \cap Of(d) # {} => (docLog[d].status = "completed" => docLog'[d].status = "completed")
    PROVE  LinksAreGrounded'
  BY DEF LinksAreGrounded, Of

LEMMA LinksDeleted ==
    ASSUME NEW d \in Docs, Deleted(d), LinksAreGrounded, UNCHANGED docLog
    PROVE  LinksAreGrounded' /\ \A p \in links' : p \cap Of(d) = {}
<1>1. links' \subseteq links /\ \A p \in links' : p \cap Of(d) = {}
  BY DEF Deleted, DeleteLinks
<1>2. \A p \in links' : p \subseteq evidence => p \subseteq evidence'
  BY <1>1 DEF Deleted
<1> QED
  BY <1>1, <1>2, LinksKept

\* The links of a window are between its documents, which are completed.
LEMMA LinksAdded ==
    ASSUME TypeInv, LinksInv, links' = links \cup Pairs(InWindow), UNCHANGED <<evidence, docLog>>
    PROVE  LinksAreGrounded'
<1> SUFFICES ASSUME NEW p \in Pairs(InWindow)
             PROVE  /\ p \subseteq evidence
                    /\ \A d \in Docs : p \cap Of(d) # {} => docLog[d].status = "completed"
  BY DEF LinksInv, LinksAreGrounded, Of
<1>1. p \subseteq evidence /\ \A c \in p : \E e \in InWindow : c \in Of(e)
  BY DEF Pairs, kSubset
<1>2. InWindow \subseteq Docs
  BY DEF InWindow, ToSet, TypeInv, RunTypes
<1>3. ASSUME NEW d \in Docs, p \cap Of(d) # {} PROVE docLog[d].status = "completed"
  <2>1. PICK c \in p : c \in Of(d)
    BY <1>3
  <2>2. PICK e \in InWindow : c \in Of(e)
    BY <1>1
  <2>3. d = e
    BY <2>1, <2>2, <1>2, Constants
  <2> QED
    BY <2>2, <2>3 DEF LinksInv
<1> QED
  BY <1>1, <1>3

LEMMA LinksNextDocument ==
    ASSUME TypeInv, ControlInv, LinksInv, BeginDocument \/ Clean \/ SaveDocument \/ Conclude \/ Unlink
    PROVE  LinksInv'
<1>d. Doc \in Docs /\ Doc \notin InWindow
  BY AtWork DEF BeginDocument, Clean, SaveDocument, Conclude, Unlink, InDocument, ControlInv
<1>t. docLog \in [Docs -> [status: {"none", "completed", "failed", "provider_blocked", "cancelled"},
                           linked: BOOLEAN, barred: BOOLEAN]]
  BY DEF TypeInv, LogTypes
<1>w. InWindow \subseteq Docs
  BY DEF InWindow, ToSet, TypeInv, RunTypes
<1>f. RunFails => InWindow' = {} /\ pc' = "off"
  BY DEF RunFails, Off, InWindow, ToSet
<1>1. CASE BeginDocument
  <2>1. UNCHANGED <<links, evidence, docLog>>
    BY <1>1 DEF BeginDocument, Untouched, graph
  <2>2. LinksAreGrounded'
    BY <2>1 DEF LinksInv, LinksAreGrounded, Of
  <2>3. CASE RunFails
    BY <2>2, <2>3, <1>f DEF LinksInv
  <2>4. CASE ~RunFails
    <3>1. UNCHANGED <<left, linkable>> /\ pc' = IF Rebuild(Doc) THEN "clean" ELSE "chunks"
      BY <1>1, <2>4 DEF BeginDocument, window
    <3>2. pc' = "chunks" => docLog[Doc].status # "completed"
      BY <3>1 DEF Rebuild
    <3>3. pc' = "chunks" => \A p \in links' : p \cap Of(Doc)' = {}
      BY <3>1, <3>2, <2>1, <1>d DEF LinksInv, LinksAreGrounded, Of, Doc
    <3>4. \A d \in InWindow' : docLog'[d].status = "completed"
      BY <3>1, <2>1 DEF LinksInv, InWindow
    <3> QED
      BY <2>2, <3>3, <3>4 DEF LinksInv
  <2> QED
    BY <2>3, <2>4
<1>2. CASE Clean
  <2>1. UNCHANGED docLog /\ (Deleted(Doc) \/ Untouched)
    BY <1>2 DEF Clean
  <2>2. LinksAreGrounded'
    <3>1. CASE Deleted(Doc)
      BY <2>1, <3>1, <1>d, LinksDeleted DEF LinksInv
    <3>2. CASE Untouched
      BY <2>1, <3>2 DEF Untouched, graph, LinksInv, LinksAreGrounded, Of
    <3> QED
      BY <2>1, <3>1, <3>2
  <2>3. CASE RunFails
    BY <2>2, <2>3, <1>f DEF LinksInv
  <2>4. CASE ~RunFails
    <3>1. Deleted(Doc) /\ UNCHANGED <<left, linkable>>
      BY <1>2, <2>4 DEF Clean, window
    <3>2. \A p \in links' : p \cap Of(Doc)' = {}
      BY <3>1 DEF Deleted, DeleteLinks, Of, Doc
    <3>3. \A d \in InWindow' : docLog'[d].status = "completed"
      BY <3>1, <2>1 DEF LinksInv, InWindow
    <3> QED
      BY <2>2, <3>2, <3>3 DEF LinksInv
  <2> QED
    BY <2>3, <2>4
<1>3. CASE SaveDocument
  <2>1. /\ UNCHANGED <<links, evidence, left, linkable>> /\ pc = "chunks" /\ pc' = "conclude"
        /\ \A d \in Docs : d # Doc => docLog'[d] = docLog[d]
    BY <1>3, <1>t DEF SaveDocument, Checkpoint, graph, window
  <2>2. LinksAreGrounded'
    BY <2>1 DEF LinksInv, LinksAreGrounded, Of
  <2>3. \A d \in InWindow' : docLog'[d].status = "completed"
    BY <2>1, <1>d, <1>w DEF LinksInv, InWindow
  <2> QED
    BY <2>1, <2>2, <2>3 DEF LinksInv
<1>4. CASE Conclude
  <2>1. UNCHANGED <<links, evidence>> /\ pc = "conclude" /\ pc' # "chunks" /\ linkable \in Seq(Docs)
    BY <1>4 DEF Conclude, graph, Advance, TypeInv, RunTypes
  <2>2. \A d \in Docs : docLog'[d].status = docLog[d].status
    <3>1. \/ UNCHANGED docLog
          \/ docLog' = [docLog EXCEPT ![Doc] = [docLog[Doc] EXCEPT !.linked = FALSE, !.barred = TRUE]]
      BY <1>4 DEF Conclude, Checkpoint
    <3>2. docLog[Doc] \in [status: {"none", "completed", "failed", "provider_blocked", "cancelled"},
                           linked: BOOLEAN, barred: BOOLEAN]
      BY <1>t, <1>d
    <3>3. [docLog[Doc] EXCEPT !.linked = FALSE, !.barred = TRUE].status = docLog[Doc].status
      BY <3>2
    <3>4. \A d \in Docs : docLog'[d] \in {docLog[d], [docLog[Doc] EXCEPT !.linked = FALSE, !.barred = TRUE]}
          /\ (d # Doc => docLog'[d] = docLog[d])
      BY <3>1, <1>t, <1>d
    <3> QED
      BY <3>3, <3>4
  <2>3. LinksAreGrounded'
    BY <2>1, <2>2 DEF LinksInv, LinksAreGrounded, Of
  <2>4. \A d \in InWindow' : docLog'[d].status = "completed"
    <3>1. CASE LinksIt
      <4>1. docLog[Doc].status = "completed"
        BY <2>1, <3>1 DEF LinksIt, ControlInv
      <4>2. linkable' = Append(linkable, Doc)
        BY <1>4, <3>1 DEF Conclude
      <4>3. InWindow' = InWindow \cup {Doc}
        BY <4>2, <2>1, <1>d, AppendedSet DEF InWindow
      <4> QED
        BY <4>1, <4>3, <2>2, <1>d, <1>w DEF LinksInv
    <3>2. CASE ~LinksIt
      BY <1>4, <3>2, <2>2, <1>w DEF Conclude, LinksInv, InWindow
    <3> QED
      BY <3>1, <3>2
  <2> QED
    BY <2>1, <2>3, <2>4 DEF LinksInv
<1>5. CASE Unlink
  <2>1. UNCHANGED <<evidence, docLog>> /\ links' \subseteq links
    BY <1>5, GraphCalls DEF Unlink
  <2>2. LinksAreGrounded'
    BY <2>1 DEF LinksInv, LinksAreGrounded, Of
  <2>3. pc' # "chunks" /\ (InWindow' = {} \/ InWindow' = InWindow)
    BY <1>5, <1>f DEF Unlink, Advance, InWindow
  <2> QED
    BY <2>1, <2>2, <2>3 DEF LinksInv
<1> QED
  BY <1>1, <1>2, <1>3, <1>4, <1>5

LEMMA LinksNextChunk ==
    ASSUME TypeInv, ControlInv, LinksInv,
           BeginSlice \/ \E c \in Chunks : Extracted(c) \/ Store(c) \/ SaveChunk(c)
    PROVE  LinksInv'
<1>1. /\ pc = "chunks" /\ UNCHANGED <<window, docLog, links>> /\ evidence \subseteq evidence'
  <2>1. CASE BeginSlice
    BY <2>1 DEF BeginSlice, logs, graph
  <2>2. CASE ~BeginSlice
    BY <2>2, ChunkStep
  <2> QED
    BY <2>1, <2>2
<1>2. UNCHANGED <<left, linkable>>
  BY <1>1 DEF window
<1>3. LinksAreGrounded'
  BY <1>1 DEF LinksInv, LinksAreGrounded, Of
<1>4. (\A d \in InWindow' : docLog'[d].status = "completed") /\ \A p \in links' : p \cap Of(Doc)' = {}
  BY <1>1, <1>2 DEF LinksInv, InWindow, Of, Doc
<1> QED
  BY <1>3, <1>4 DEF LinksInv

LEMMA LinksNextWindow ==
    ASSUME TypeInv, ControlInv, LinksInv,
           Link \/ ClearWindow \/ LinkEntities \/ SaveWindow \/ LinkingState \/ EndWindow
    PROVE  LinksInv'
<1>t. docLog \in [Docs -> [status: {"none", "completed", "failed", "provider_blocked", "cancelled"},
                           linked: BOOLEAN, barred: BOOLEAN]]
  BY DEF TypeInv, LogTypes
<1>w. InWindow \subseteq Docs
  BY DEF InWindow, ToSet, TypeInv, RunTypes
<1>1. UNCHANGED evidence /\ pc' # "chunks"
  BY DEF Link, ClearWindow, LinkEntities, SaveWindow, LinkingState, EndWindow, graph, Untouched, LinkFails
<1>2. InWindow' \subseteq InWindow
  <2>1. CASE LinkingState
    <3>1. linkable' = Tail(linkable) /\ linkable # <<>> /\ linkable \in Seq(Docs)
      BY <2>1 DEF LinkingState, TypeInv, RunTypes
    <3> QED
      BY <3>1, TailSet DEF InWindow
  <2>2. CASE ~LinkingState
    BY <2>2 DEF Link, ClearWindow, LinkEntities, SaveWindow, EndWindow, window, InWindow
  <2> QED
    BY <2>1, <2>2
<1>3. \A d \in Docs : docLog'[d].status = docLog[d].status
  <2>1. CASE LinkingState
    <3>1. \E r, s \in BOOLEAN : docLog' = [docLog EXCEPT ![Head(linkable)] =
                                   [docLog[Head(linkable)] EXCEPT !.linked = r, !.barred = s]]
      BY <2>1 DEF LinkingState, Checkpoint
    <3>2. Head(linkable) \in Docs
      BY <2>1, TailSet DEF LinkingState, TypeInv, RunTypes
    <3> QED
      BY <3>1, <3>2, <1>t
  <2>2. CASE ~LinkingState
    BY <2>2 DEF Link, ClearWindow, LinkEntities, SaveWindow, EndWindow
  <2> QED
    BY <2>1, <2>2
<1>4. LinksAreGrounded'
  <2>1. CASE links' \subseteq links
    BY <2>1, <1>1, <1>3 DEF LinksInv, LinksAreGrounded, Of
  <2>2. CASE LinkEntities /\ links' = links \cup Pairs(InWindow)
    BY <2>2, <1>1, LinksAdded DEF LinkEntities
  <2> QED
    BY <2>1, <2>2, GraphCalls DEF Link, ClearWindow, LinkEntities, SaveWindow, LinkingState, EndWindow,
       graph, Untouched
<1> QED
  BY <1>1, <1>2, <1>3, <1>4, <1>w DEF LinksInv

LEMMA LinksNextEnd ==
    ASSUME TypeInv, ControlInv, LinksInv, Cancel \/ Die
    PROVE  LinksInv'
<1>t. docLog \in [Docs -> [status: {"none", "completed", "failed", "provider_blocked", "cancelled"},
                           linked: BOOLEAN, barred: BOOLEAN]]
  BY DEF TypeInv, LogTypes
<1>1. pc' = "off" /\ linkable' = <<>> /\ InFlight
  BY DEF Cancel, Die, Off
<1>2. InWindow' = {}
  BY <1>1 DEF InWindow, ToSet
<1>3. LinksAreGrounded'
  <2>1. CASE pc = "chunks"
    <3>1. links' = links /\ evidence \subseteq evidence'
      BY <2>1, <1>1 DEF InFlight
    <3>2. Doc \in Docs
      BY <2>1, AtWork DEF InDocument
    <3>3. \A d \in Docs : d # Doc => docLog'[d] = docLog[d]
      BY <2>1, <3>2, <1>t DEF Cancel, Die, logs, Checkpoint
    <3> QED
      BY <2>1, <3>1, <3>3 DEF LinksInv, LinksAreGrounded, Of
  <2>2. CASE pc # "chunks"
    <3>1. UNCHANGED docLog
      BY <2>2 DEF Cancel, Die, logs
    <3>2. CASE pc = "clean" /\ Deleted(Doc)
      BY <3>1, <3>2, AtWork, LinksDeleted DEF InDocument, LinksInv
    <3>3. CASE UNCHANGED evidence /\ links' \subseteq links
      BY <3>1, <3>3 DEF LinksInv, LinksAreGrounded, Of
    <3>4. CASE UNCHANGED evidence /\ links' = links \cup Pairs(InWindow)
      BY <3>1, <3>4, LinksAdded
    <3>5. \/ pc = "clean" /\ Deleted(Doc)
          \/ UNCHANGED evidence /\ links' \subseteq links
          \/ UNCHANGED evidence /\ links' = links \cup Pairs(InWindow)
      BY <2>2, <1>1, GraphCalls DEF InFlight, Untouched, graph
    <3> QED
      BY <3>2, <3>3, <3>4, <3>5
  <2> QED
    BY <2>1, <2>2
<1> QED
  BY <1>1, <1>2, <1>3 DEF LinksInv

LEMMA LinksNext == TypeInv /\ ControlInv /\ LinksInv /\ [Next]_vars => LinksInv'
<1> SUFFICES ASSUME TypeInv, ControlInv, LinksInv, [Next]_vars PROVE LinksInv'
  OBVIOUS
<1>1. CASE UNCHANGED vars
  BY <1>1 DEF vars, LinksInv, LinksAreGrounded, logs, graph, window, InWindow, Of, Doc
<1>2. CASE StartRun \/ Reuse \/ EndRun
  <2>1. UNCHANGED <<evidence, links, docLog>> /\ pc' # "chunks"
    BY <1>2 DEF StartRun, Reuse, EndRun, graph, logs, Off
  <2>2. InWindow' = {} \/ InWindow' = InWindow
    BY <1>2 DEF StartRun, Reuse, EndRun, Off, window, InWindow, ToSet
  <2> QED
    BY <2>1, <2>2 DEF LinksInv, LinksAreGrounded, Of
<1> QED
  BY <1>1, <1>2, LinksNextDocument, LinksNextChunk, LinksNextWindow, LinksNextEnd DEF Next, Steps

-----------------------------------------------------------------------------
(* The provider *)

LEMMA ProviderInit == Init => ProviderInv
<1> SUFFICES ASSUME Init PROVE ProviderInv
  OBVIOUS
<1>1. row.times = 0 /\ row.of = "none" /\ signature = "none" /\ streak = 0 /\ ~blocked
  BY DEF Init, NoRow
<1>2. RefusedInv
  BY <1>1, Numbers DEF RefusedInv
<1>3. LateInv
  BY DEF Init, LateInv
<1> QED
  BY <1>2, <1>3 DEF ProviderInv

LEMMA CallingSize ==
    ASSUME TypeInv
    PROVE  /\ Calling \subseteq Active /\ IsFiniteSet(Calling) /\ Cardinality(Calling) \in Nat
           /\ Cardinality(Calling) <= MaxConcurrency
<1>1. Calling \subseteq Active /\ IsFiniteSet(Active) /\ Cardinality(Active) <= MaxConcurrency
  BY DEF Calling, Active, TypeInv, TaskTypes
<1>2. Cardinality(Active) \in Nat
  BY <1>1, FS_CardinalityType
<1>3. IsFiniteSet(Calling) /\ Cardinality(Calling) <= Cardinality(Active) /\ Cardinality(Calling) \in Nat
  BY <1>1, FS_Subset, FS_CardinalityType
<1> QED
  BY <1>1, <1>2, <1>3, Numbers

\* A call less is under way with each answer.
LEMMA ProviderNextAnswer ==
    ASSUME TypeInv, ControlInv, ProviderInv, NEW c \in Chunks, Extracted(c)
    PROVE  RefusedInv'
<1>t. task \in [Chunks -> {"idle", "calling", "storing", "stored"}] /\ blocked \in BOOLEAN
      /\ row.times \in Nat /\ streak \in 0..Threshold
  BY DEF TypeInv, TaskTypes, WorkTypes
<1>1. c \in Calling /\ Calling' = Calling \ {c}
  <2>1. \E s \in {"idle", "storing"} : task' = [task EXCEPT ![c] = s]
    BY DEF Extracted, Outcome
  <2>2. task[c] = "calling"
    BY DEF Extracted
  <2> QED
    BY <2>1, <2>2, <1>t DEF Calling
<1> DEFINE n == Cardinality(Calling)
           m == Cardinality(Calling')
<1>2. n \in Nat /\ m \in Nat /\ m = n - 1 /\ n <= MaxConcurrency
  BY <1>1, CallingSize, FS_RemoveElement, FS_CardinalityType
<1>p. /\ ~blocked => row.times = streak /\ row.of = signature /\ streak < Threshold
      /\ blocked => streak = Threshold /\ row.times + n < Threshold + MaxConcurrency
  BY DEF ProviderInv, RefusedInv
<1> SUFFICES /\ ~blocked' => row'.times = streak' /\ row'.of = signature' /\ streak' < Threshold
             /\ blocked' => streak' = Threshold /\ row'.times + m < Threshold + MaxConcurrency
  BY DEF RefusedInv
<1> HIDE DEF n, m
<1>3. CASE NotFatal
  <2>1. row'.times = 0 /\ row'.of = "none" /\ blocked' = blocked
    BY <1>3 DEF NotFatal, NoRow
  <2>2. ~blocked => signature' = "none" /\ streak' = 0
    BY <1>3 DEF NotFatal
  <2>3. blocked => streak' = streak
    BY <1>3 DEF NotFatal
  <2> QED
    BY <2>1, <2>2, <2>3, <1>2, <1>p, <1>t, Numbers
<1>4. CASE Unrecorded
  <2>1. UNCHANGED <<blocked, signature, streak, row>>
    BY <1>4 DEF Unrecorded, breaker
  <2> QED
    BY <2>1, <1>2, <1>p, <1>t, Numbers
<1>5. ASSUME NEW s \in Signatures, Fatal(s)
      PROVE  /\ ~blocked' => row'.times = streak' /\ row'.of = signature' /\ streak' < Threshold
             /\ blocked' => streak' = Threshold /\ row'.times + m < Threshold + MaxConcurrency
  <2>0. /\ row'.of = s /\ row'.times = (IF s = row.of THEN row.times + 1 ELSE 1)
        /\ blocked' = (streak' >= Threshold)
    BY <1>5 DEF Fatal, Trips
  <2>m. 1 + m <= MaxConcurrency
    BY <1>2, Numbers
  <2>1. CASE blocked
    <3>1. streak' = streak
      BY <1>5, <2>1 DEF Fatal
    <3>2. streak = Threshold /\ row.times + n < Threshold + MaxConcurrency
      BY <2>1, <1>p
    <3>3. streak >= Threshold /\ row'.times + m < Threshold + MaxConcurrency
      BY <3>2, <2>0, <2>m, <1>2, <1>t, Numbers
    <3> QED
      BY <2>0, <3>1, <3>2, <3>3
  <2>2. CASE ~blocked
    <3>1. signature' = s /\ streak' = (IF s = signature THEN streak + 1 ELSE 1)
      BY <1>5, <2>2 DEF Fatal
    <3>2. row.times = streak /\ row.of = signature /\ streak < Threshold
      BY <2>2, <1>p
    <3>3. row'.times = streak' /\ streak' \in Nat /\ streak' <= Threshold
      BY <2>0, <3>1, <3>2, <1>t, Numbers
    <3>4. streak' >= Threshold => streak' = Threshold /\ row'.times + m < Threshold + MaxConcurrency
      <4> SUFFICES ASSUME streak' >= Threshold
                   PROVE  streak' = Threshold /\ row'.times + m < Threshold + MaxConcurrency
        OBVIOUS
      <4>1. streak' = Threshold
        BY <3>3, Numbers
      <4>2. Threshold + m < Threshold + MaxConcurrency
        BY <2>m, <1>2, Numbers
      <4> QED
        BY <4>1, <4>2, <3>3
    <3>5. ~(streak' >= Threshold) => streak' < Threshold
      BY <3>3, Numbers
    <3> QED
      BY <2>0, <3>1, <3>3, <3>4, <3>5
  <2> QED
    BY <2>1, <2>2
<1> QED
  BY <1>3, <1>4, <1>5 DEF Extracted

LEMMA RefusedNext == TypeInv /\ ControlInv /\ ProviderInv /\ [Next]_vars => RefusedInv'
<1> SUFFICES ASSUME TypeInv, ControlInv, ProviderInv, [Next]_vars PROVE RefusedInv'
  OBVIOUS
<1> DEFINE Kept == UNCHANGED <<blocked, signature, streak, row>>
<1>1. CASE Off
  BY <1>1, Numbers DEF Off, RefusedInv, NoRow
<1>2. CASE \E c \in Chunks : Extracted(c)
  BY <1>2, ProviderNextAnswer
<1>3. CASE BeginSlice
  BY <1>3 DEF BeginSlice, Schedule, Asks, breaker, ProviderInv, RefusedInv
<1>4. CASE Kept /\ Calling' = Calling
  BY <1>4 DEF ProviderInv, RefusedInv
<1>5. ASSUME NEW c \in Chunks, Store(c) \/ SaveChunk(c) PROVE Kept /\ Calling' = Calling
  <2>1. \E s \in {"idle", "stored"} : task' = [task EXCEPT ![c] = s]
    BY <1>5 DEF Store, SaveChunk, Outcome, StoreFails
  <2>2. task[c] # "calling" /\ Kept
    BY <1>5 DEF Store, SaveChunk, breaker
  <2> QED
    BY <2>1, <2>2 DEF Calling, TypeInv, TaskTypes
<1>6. UNCHANGED vars => Kept /\ Calling' = Calling
  BY DEF vars, work, breaker, Calling
<1>7. StartRun \/ Reuse \/ SaveDocument \/ Conclude => Kept /\ Calling' = Calling
  BY DEF StartRun, Reuse, SaveDocument, Conclude, work, breaker, Calling
<1>8. BeginDocument \/ Clean \/ Unlink => Off \/ (Kept /\ Calling' = Calling)
  BY DEF BeginDocument, Clean, Unlink, RunFails, work, breaker, Calling
<1>9. Link \/ ClearWindow \/ LinkEntities \/ SaveWindow \/ LinkingState \/ EndWindow =>
        Kept /\ Calling' = Calling
  BY DEF Link, ClearWindow, LinkEntities, SaveWindow, LinkingState, EndWindow, work, breaker, Calling
<1>10. EndRun \/ Cancel \/ Die => Off
  BY DEF EndRun, Cancel, Die
<1> QED
  BY <1>1, <1>2, <1>3, <1>4, <1>5, <1>6, <1>7, <1>8, <1>9, <1>10 DEF Next, Steps

LEMMA LateNext == TypeInv /\ ControlInv /\ ProviderInv /\ [Next]_vars => LateInv'
<1> SUFFICES ASSUME ControlInv, LateInv, [Next]_vars PROVE LateInv'
  BY DEF ProviderInv
<1> DEFINE After == {"save", "linked", "barred", "flagged", "end"}
<1>0. late \in 0..1 /\ (late = 1 => blocked /\ pc \in After)
  BY DEF LateInv
<1>1. CASE Off
  BY <1>1 DEF Off, LateInv
<1>2. CASE late' = late /\ pc \notin After
  BY <1>0, <1>2 DEF LateInv
<1>3. CASE UNCHANGED <<late, blocked>> /\ pc' \in After
  BY <1>0, <1>3 DEF LateInv
<1>4. StartRun \/ Reuse \/ BeginDocument \/ Clean \/ Unlink \/ BeginSlice \/ SaveDocument \/ Conclude \/ Link
        \/ ClearWindow => Off \/ (late' = late /\ pc \notin After)
  BY DEF StartRun, Reuse, BeginDocument, Clean, Unlink, RunFails, BeginSlice, SaveDocument, Conclude, Link,
         ClearWindow, breaker
<1>5. ASSUME NEW c \in Chunks, Extracted(c) \/ Store(c) \/ SaveChunk(c) PROVE late' = late /\ pc \notin After
  <2>1. late' = late
    BY <1>5 DEF Extracted, Store, SaveChunk, NotFatal, Unrecorded, Fatal, breaker
  <2>2. pc = "chunks"
    BY <1>5 DEF Extracted, Store, SaveChunk, ControlInv, AllIdle
  <2> QED
    BY <2>1, <2>2
<1>6. CASE LinkEntities
  <2>1. late = 0 /\ late' \in 0..1 /\ (late' = 1 => blocked) /\ blocked' = blocked
    BY <1>0, <1>6 DEF LinkEntities
  <2>2. pc' \in After
    BY <1>6 DEF LinkEntities, LinkFails
  <2> QED
    BY <2>1, <2>2 DEF LateInv
<1>7. SaveWindow \/ LinkingState => UNCHANGED <<late, blocked>> /\ pc' \in After
  BY DEF SaveWindow, LinkingState, breaker
<1>8. CASE EndWindow
  <2>1. UNCHANGED <<late, blocked>> /\ (blocked => pc' = "end")
    BY <1>8 DEF EndWindow, Asks, breaker
  <2> QED
    BY <1>0, <2>1 DEF LateInv
<1>9. EndRun \/ Cancel \/ Die => Off
  BY DEF EndRun, Cancel, Die
<1>10. CASE UNCHANGED vars
  BY <1>0, <1>10 DEF vars, breaker, LateInv
<1> QED
  BY <1>1, <1>2, <1>3, <1>4, <1>5, <1>6, <1>7, <1>8, <1>9, <1>10 DEF Next, Steps

LEMMA ProviderNext == TypeInv /\ ControlInv /\ ProviderInv /\ [Next]_vars => ProviderInv'
  BY RefusedNext, LateNext DEF ProviderInv

-----------------------------------------------------------------------------
(* The theorems *)

Inv == TypeInv /\ ControlInv /\ StoredInv /\ LinksInv /\ ProviderInv

\* What every step of a build keeps.
THEOREM Invariance == Spec => []Inv
<1>1. Init => Inv
  BY TypeInit, ControlInit, StoredInit, LinksInit, ProviderInit DEF Inv
<1>2. Inv /\ [Next]_vars => Inv'
  BY TypeNext, ControlNext, StoredNext, LinksNext, ProviderNext DEF Inv
<1> QED
  BY <1>1, <1>2, PTL DEF Spec

\* Checkpoints, graph and run have their types; no more than MaxConcurrency chunks are at work.
THEOREM TypeCorrect == Spec => []TypeOK
<1>1. Inv => TypeOK
  BY TypeImplied DEF Inv
<1> QED
  BY <1>1, Invariance, PTL

\* The facts of a chunk that a checkpoint calls stored are in the graph, whatever
\* fails, is cancelled or dies: _process_chunk writes the checkpoint after the facts,
\* and only delete_document takes facts out.
THEOREM StoredIsThere == Spec => []CompletedIsStored
<1>1. Inv => CompletedIsStored
  BY DEF Inv, StoredInv
<1> QED
  BY <1>1, Invariance, PTL

\* Links stand on facts in the graph, of completed documents: _link_batch, _run_batch.
THEOREM LinksGrounded == Spec => []LinksAreGrounded
<1>1. Inv => LinksAreGrounded
  BY DEF Inv, LinksInv
<1> QED
  BY <1>1, Invariance, PTL

\* A provider that refuses with one status gets less than Threshold + MaxConcurrency refused
\* extractions in a row, and at most one window is linked after that
\* (_record_provider_failure, _run_batch).
THEOREM ProviderLeftAlone == Spec => []ProviderSpared
<1>1. Inv => ProviderSpared
  <2> SUFFICES ASSUME Inv PROVE ProviderSpared
    OBVIOUS
  <2>1. row.times \in Nat /\ blocked \in BOOLEAN
    BY DEF Inv, TypeInv, WorkTypes
  <2>2. Cardinality(Calling) \in Nat
    BY CallingSize DEF Inv
  <2> QED
    BY <2>1, <2>2, Numbers DEF Inv, ProviderInv, RefusedInv, LateInv, ProviderSpared
<1> QED
  BY <1>1, Invariance, PTL

-----------------------------------------------------------------------------
(* What a completed build is: the invariant *)

\* The window at work, as a set; where its documents are all concluded and not yet linked.
Cur == Windows[Len(Windows) - Len(rest)]
At == ToSet(Cur)
Linking == {"link", "relink", "linking", "save"}
Keys == [docs : SUBSET Docs, facts : SUBSET Chunks]
Lists == [docs : SUBSET Docs, keys : SUBSET Keys]
Facts(ds) == evidence \cap UNION {Of(d) : d \in ds}
Failed(d) == docLog[d].status # "completed"

KeyTypes ==
    /\ mem \in Lists /\ manifest.lists \in Lists /\ DOMAIN linkLog \subseteq Keys

\* The windows that follow, and the documents at work, which are of the present one.
WindowInv ==
    pc # "off" =>
        /\ Len(rest) < Len(Windows)
        /\ \A i \in 1..Len(rest) : rest[i] = Windows[(Len(Windows) - Len(rest)) + i]
        /\ ToSet(left) \subseteq At /\ InWindow \subseteq At

\* Whoever rebuilds a document or is about to link a rebuilt window again: it is not linked.
RebuiltInv ==
    /\ pc \in {"chunks", "conclude"} /\ rebuild => Doc \in unlinked
    /\ pc = "chunks" /\ ~rebuild => Failed(Doc)
    /\ pc \in InDocument \cup Linking /\ relink => unlinked \cap At # {}
    /\ pc \in {"off", "end"} => ~relink

\* A document of the window that has failed, and is listed.
Spoiled == \E d \in At : Failed(d) /\ d \in mem.docs

\* Each document of the window is still to come, or to be linked, or listed.
PlanInv ==
    /\ pc = "conclude" /\ (AnyFailed \/ blocked) => AnyFailed /\ Failed(Doc)
    /\ pc = "unlink" => Failed(Doc) /\ Doc \in mem.docs
    /\ pc \in InDocument =>
         \A d \in At : d \in ToSet(left) \/ d \in InWindow \/ (Failed(d) /\ d \in mem.docs)
    /\ pc \in Linking => linkable # <<>> /\ (InWindow = At \/ Spoiled)

\* The checkpoints of windows, and what they stand for.
Held == {k \in DOMAIN linkLog : linkLog[k] = "completed"}
KeyOf(v) == [docs |-> v, facts |-> Facts(v)]
LinkedAll(v) == unlinked \cap v # {} \/ Pairs(v) \subseteq links

\* The key of the window, and what linking has done.
KeyInv ==
    /\ pc \in {"relink", "linking", "save"} => key = KeyOf(InWindow)
    /\ pc = "relink" /\ ~relink => LinkStatus(key) # "completed"
    /\ pc = "linking" => LinkStatus(key) # "completed"
    /\ pc = "save" => Pairs(InWindow) \subseteq links
    /\ pc = "linked" => \/ Spoiled
                        \/ /\ \A d \in At : ~Failed(d) /\ (d \in InWindow \/ docLog[d].linked)
                           /\ Pairs(At) \subseteq links \/ (~relink /\ unlinked \cap At # {})
    /\ pc = "barred" => \E k \in mem.keys : k.docs # {} /\ k.docs \subseteq At

\* The documents of a window that a checkpoint calls linked are completed, and are linked as
\* the checkpoint says, but for those rebuilt since.
LinkLogInv ==
    \A k \in Held :
        /\ \A d \in k.docs : d \in unlinked \/ ~Failed(d)
        /\ \A w \in ToSet(Windows) : k = KeyOf(ToSet(w)) => LinkedAll(ToSet(w))

WithinInv == \A p \in links : \E w \in ToSet(Windows) : p \subseteq UNION {Of(d) : d \in ToSet(w)}

\* A window that is through is as it should be, or something of it is listed.
Fine(v) ==
    /\ \A d \in v : ~Failed(d) /\ docLog[d].linked
    /\ LinkedAll(v)
Noted(v) == (\E d \in v : d \in mem.docs) \/ \E k \in mem.keys : k.docs # {} /\ k.docs \subseteq v
Through(i) ==
    \/ i < Len(Windows) - Len(rest)
    \/ i = Len(Windows) - Len(rest) /\ pc \in {"flagged", "end"}
ThroughInv ==
    /\ pc # "off" => \A i \in 1..Len(Windows) :
         Through(i) => Fine(ToSet(Windows[i])) \/ Noted(ToSet(Windows[i]))
    /\ pc = "end" /\ ~blocked => rest = <<>>

EndInv ==
    manifest.status = "completed" =>
        /\ pc = "off" /\ \A d \in Docs : ~Failed(d) /\ docLog[d].linked
        /\ unlinked = {} => links = UNION {Pairs(ToSet(w)) : w \in ToSet(Windows)}

WholeInv ==
    /\ KeyTypes /\ WindowInv /\ RebuiltInv /\ PlanInv /\ KeyInv /\ LinkLogInv
    /\ WithinInv /\ ThroughInv /\ EndInv

-----------------------------------------------------------------------------
(* Windows *)

\* The window at work is one of the windows, and its documents are of no other.
LEMMA Windowed ==
    ASSUME TypeInv, WindowInv, pc # "off"
    PROVE  /\ Len(Windows) - Len(rest) \in 1..Len(Windows) /\ Cur \in Orders /\ Cur # <<>>
           /\ Cur \in ToSet(Windows) /\ At \subseteq Docs /\ At # {}
<1>1. Windows \in Seq(Orders \ {<<>>}) /\ Len(Windows) \in Nat
  BY Constants
<1>2. Len(rest) \in Nat /\ Len(rest) < Len(Windows)
  BY DEF TypeInv, RunTypes, WindowInv
<1>3. Len(Windows) - Len(rest) \in 1..Len(Windows)
  BY <1>1, <1>2
<1>4. Cur \in Orders \ {<<>>} /\ Cur \in ToSet(Windows)
  BY <1>1, <1>3, ElementOfSeq DEF Cur, ToSet
<1>5. Cur \in Seq(Docs) /\ Len(Cur) \in Nat /\ Len(Cur) > 0
  BY <1>4 DEF Orders
<1>6. At \subseteq Docs /\ Cur[1] \in At
  BY <1>5, ElementOfSeq DEF At, ToSet
<1> QED
  BY <1>3, <1>4, <1>6

LEMMA WindowsApart ==
    ASSUME NEW v \in ToSet(Windows), NEW w \in ToSet(Windows), v # w
    PROVE  ToSet(v) \cap ToSet(w) = {}
<1>1. \A i, j \in 1..Len(Windows) : i # j => ToSet(Windows[i]) \cap ToSet(Windows[j]) = {}
  BY BuildAssumption
<1>2. PICK i \in 1..Len(Windows), j \in 1..Len(Windows) : v = Windows[i] /\ w = Windows[j]
  BY Constants DEF ToSet
<1> QED
  BY <1>1, <1>2

\* What is in the graph of documents does not concern other documents.
LEMMA OthersFacts ==
    ASSUME NEW v \in SUBSET Docs, NEW d \in Docs, d \notin v
    PROVE  \A x : x \subseteq Facts(v) => x \cap Of(d) = {}
  BY Constants DEF Facts

LEMMA PairsOf ==
    ASSUME NEW v PROVE \A p : p \in Pairs(v) <=> p \subseteq Facts(v) /\ Cardinality(p) = 2
  BY DEF Pairs, kSubset, Facts

\* Documents whose chunks keep their facts keep them together.
LEMMA SameFacts ==
    ASSUME NEW v \in SUBSET Docs, \A d \in v : evidence' \cap Of(d) = evidence \cap Of(d)
    PROVE  Facts(v)' = Facts(v)
  BY DEF Facts, Of
-----------------------------------------------------------------------------
(* What a run lists, and the windows it goes through *)

Sound == Inv /\ WholeInv

LEMMA Parts ==
    ASSUME Sound
    PROVE  /\ TypeInv /\ ControlInv /\ StoredInv /\ LinksInv /\ ProviderInv /\ KeyTypes /\ WindowInv
           /\ RebuiltInv /\ PlanInv /\ KeyInv /\ LinkLogInv /\ WithinInv /\ ThroughInv /\ EndInv
  BY DEF Sound, Inv, WholeInv

\* The key of what is to be linked, which keeps its documents without their facts.
LEMMA WindowKey ==
    ASSUME Sound
    PROVE  /\ InWindow \subseteq Docs /\ KeyOf(InWindow) \in Keys
           /\ [KeyOf(InWindow) EXCEPT !.facts = {}] \in Keys
           /\ [KeyOf(InWindow) EXCEPT !.facts = {}].docs = InWindow
           /\ KeyOf(InWindow).docs = InWindow /\ KeyOf(InWindow).facts = Facts(InWindow)
<1>1. InWindow \subseteq Docs
  BY Parts, ElementOfSeq DEF TypeInv, RunTypes, InWindow, ToSet
<1>2. Facts(InWindow) \in SUBSET Chunks
  BY Parts DEF TypeInv, GraphTypes, Facts
<1> QED
  BY <1>1, <1>2 DEF Keys, KeyOf

LEMMA NoListsType == NoLists \in Lists
  BY DEF NoLists, Lists

LEMMA Saved ==
    ASSUME NEW k, NEW s, SaveLink(k, s)
    PROVE  /\ DOMAIN linkLog' = DOMAIN linkLog \cup {k} /\ linkLog'[k] = s
           /\ \A l \in DOMAIN linkLog : l # k => linkLog'[l] = linkLog[l]
           /\ s # "completed" => Held' = Held \ {k}
           /\ s = "completed" => Held' = Held \cup {k}
<1>1. /\ DOMAIN linkLog' = DOMAIN linkLog \cup {k} /\ linkLog'[k] = s
      /\ \A l \in DOMAIN linkLog : l # k => linkLog'[l] = linkLog[l]
  BY DEF SaveLink
<1> QED
  BY <1>1 DEF Held

\* A linking that failed is listed.
LEMMA FailedLinking ==
    ASSUME NEW k \in Keys, NEW ks \in SUBSET Keys, LinkFails(k, ks), KeyTypes
    PROVE  /\ mem' \in Lists /\ mem'.docs = mem.docs /\ mem'.keys = ks \cup {k} /\ pc' = "barred"
           /\ DOMAIN linkLog' \subseteq Keys /\ Held' = Held \ {k}
<1>1. SaveLink(k, "failed") /\ mem' = [mem EXCEPT !.keys = ks \cup {k}] /\ pc' = "barred"
  BY DEF LinkFails
<1>2. Held' = Held \ {k} /\ DOMAIN linkLog' = DOMAIN linkLog \cup {k}
  BY <1>1, Saved
<1>3. mem \in Lists /\ DOMAIN linkLog \subseteq Keys
  BY DEF KeyTypes
<1>4. mem' \in Lists /\ mem'.docs = mem.docs /\ mem'.keys = ks \cup {k}
  BY <1>1, <1>3 DEF Lists
<1> QED BY <1>1, <1>2, <1>3, <1>4

LEMMA ConcludeLists ==
    ASSUME Sound, Conclude
    PROVE  /\ mem' \in Lists /\ mem'.keys = mem.keys /\ manifest'.lists \in Lists
           /\ IF AnyFailed THEN mem'.docs = mem.docs \cup {Doc} ELSE mem'.docs = mem.docs \ {Doc}
<1>1. Doc \in Docs /\ mem \in Lists /\ manifest.lists \in Lists
  BY Parts, AtWork DEF Conclude, InDocument, KeyTypes
<1>2. manifest = [status |-> manifest.status, lists |-> manifest.lists]
  BY Parts DEF TypeInv, LogTypes
<1>3. CASE AnyFailed
  <2>1. mem' = [mem EXCEPT !.docs = mem.docs \cup {Doc}] /\ manifest' = manifest
    BY <1>3 DEF Conclude, LinksIt
  <2> QED BY <2>1, <1>1, <1>3 DEF Lists
<1>4. CASE ~AnyFailed
  <2>1. mem' = [mem EXCEPT !.docs = mem.docs \ {Doc}] /\ manifest' = [manifest EXCEPT !.lists = mem']
    BY <1>4 DEF Conclude, LinksIt
  <2>2. mem' \in Lists /\ mem'.keys = mem.keys /\ mem'.docs = mem.docs \ {Doc}
    BY <2>1, <1>1 DEF Lists
  <2>3. manifest'.lists = mem'
    BY <2>1, <1>2
  <2> QED BY <2>2, <2>3, <1>4
<1> QED BY <1>3, <1>4

\* What the first step of a linking decides.
LEMMA LinkLists ==
    ASSUME Sound, Link
    PROVE  /\ mem' \in Lists /\ mem'.docs = mem.docs /\ DOMAIN linkLog' \subseteq Keys
           /\ mem.keys \ Stale \subseteq mem'.keys /\ Held' \subseteq Held
           /\ pc' \in {"linked", "barred", "relink"}
           /\ pc' = "barred" => \E k \in mem'.keys : k.docs = InWindow
           /\ pc' # "barred" => key' = KeyOf(InWindow) /\ UNCHANGED linkLog
           /\ pc' = "linked" => KeyOf(InWindow) \in Held /\ ~relink
           /\ pc' = "relink" => LinkStatus(KeyOf(InWindow)) # "completed" \/ relink
<1> DEFINE k == KeyOf(InWindow)
           keys == mem.keys \ Stale
           bare == [k EXCEPT !.facts = {}]
<1>1. k \in Keys /\ bare \in Keys /\ bare.docs = InWindow /\ k.docs = InWindow /\ keys \in SUBSET Keys
      /\ mem \in Lists /\ DOMAIN linkLog \subseteq Keys
  BY WindowKey, Parts DEF KeyTypes, Lists
<1>2. \/ /\ \/ AlreadyLinked(k) /\ pc' = "linked" /\ mem' = [mem EXCEPT !.keys = keys]
            \/ ~AlreadyLinked(k) /\ pc' = "barred" /\ mem' = [mem EXCEPT !.keys = keys \cup {k}]
            \/ ~AlreadyLinked(k) /\ pc' = "relink" /\ mem' = [mem EXCEPT !.keys = keys]
         /\ key' = k /\ UNCHANGED linkLog
      \/ LinkFails(bare, keys)
  BY DEF Link, KeyOf, Facts
<1> HIDE DEF k, keys, bare
<1>3. CASE LinkFails(bare, keys)
  BY <1>1, <1>3, FailedLinking, Parts DEF keys
<1>4. CASE AlreadyLinked(k) /\ pc' = "linked" /\ mem' = [mem EXCEPT !.keys = keys] /\ key' = k /\ UNCHANGED linkLog
  BY <1>1, <1>4 DEF Lists, AlreadyLinked, LinkStatus, Held, keys, k
<1>5. CASE ~AlreadyLinked(k) /\ pc' = "barred" /\ mem' = [mem EXCEPT !.keys = keys \cup {k}] /\ key' = k /\ UNCHANGED linkLog
  <2>1. mem' \in Lists /\ mem'.docs = mem.docs /\ mem'.keys = keys \cup {k}
    BY <1>1, <1>5 DEF Lists
  <2> QED BY <1>1, <1>5, <2>1 DEF Held, keys
<1>6. CASE ~AlreadyLinked(k) /\ pc' = "relink" /\ mem' = [mem EXCEPT !.keys = keys] /\ key' = k /\ UNCHANGED linkLog
  BY <1>1, <1>6 DEF Lists, AlreadyLinked, Held, keys, k
<1> QED BY <1>2, <1>3, <1>4, <1>5, <1>6

\* The lists that an end of a run leaves are those it had.
LEMMA OffLists ==
    ASSUME Sound, Off, UNCHANGED linkLog, manifest' = manifest \/ manifest'.lists = mem
    PROVE  KeyTypes'
  BY Parts, NoListsType DEF Off, KeyTypes

LEMMA KeyTypesNext == Sound /\ [Next]_vars => KeyTypes'
<1> SUFFICES ASSUME Sound, [Next]_vars PROVE KeyTypes'
  OBVIOUS
<1>k. mem \in Lists /\ manifest.lists \in Lists /\ DOMAIN linkLog \subseteq Keys
  BY Parts DEF KeyTypes
<1>m. manifest = [status |-> manifest.status, lists |-> manifest.lists]
  BY Parts DEF TypeInv, LogTypes
<1> USE <1>k
<1>1. CASE UNCHANGED vars \/ Reuse \/ BeginSlice \/ SaveDocument
  BY <1>1 DEF vars, Reuse, BeginSlice, SaveDocument, KeyTypes, logs
<1>2. CASE StartRun
  BY <1>2 DEF StartRun, Save, KeyTypes
<1>3. CASE BeginDocument \/ Clean \/ Unlink
  <2>1. CASE RunFails
    BY <1>3, <2>1, OffLists DEF RunFails, BeginDocument, Clean, Unlink
  <2>2. CASE ~RunFails
    <3>1. UNCHANGED <<mem, linkLog>> /\ manifest' \in {manifest, [manifest EXCEPT !.lists = mem]}
      BY <1>3, <2>2 DEF BeginDocument, Clean, Unlink
    <3> QED BY <3>1, <1>m DEF KeyTypes
  <2> QED BY <2>1, <2>2
<1>4. ASSUME NEW c \in Chunks, Extracted(c) \/ Store(c) \/ SaveChunk(c) PROVE KeyTypes'
  BY <1>4 DEF Extracted, Store, SaveChunk, NotFatal, Unrecorded, Fatal, Trips, KeyTypes
<1>5. CASE Conclude
  BY <1>5, ConcludeLists DEF Conclude, KeyTypes
<1>6. CASE Link
  BY <1>6, LinkLists DEF Link, KeyTypes
<1>7. CASE ClearWindow
  <2>1. key \in Keys /\ mem.keys \in SUBSET Keys /\ UNCHANGED manifest
    BY <1>7, WindowKey, Parts DEF ClearWindow, KeyInv, Lists
  <2>2. CASE LinkFails(key, mem.keys)
    BY <2>1, <2>2, FailedLinking, Parts DEF KeyTypes
  <2>3. CASE UNCHANGED mem /\ \E s : SaveLink(key, s)
    BY <2>1, <2>3, Saved DEF KeyTypes
  <2> QED BY <1>7, <2>2, <2>3 DEF ClearWindow
<1>8. CASE LinkEntities
  <2>1. key \in Keys /\ mem.keys \in SUBSET Keys /\ UNCHANGED manifest
    BY <1>8, WindowKey, Parts DEF LinkEntities, KeyInv, Lists
  <2> QED BY <1>8, <2>1, FailedLinking, Parts DEF LinkEntities, KeyTypes
<1>9. CASE SaveWindow
  <2>1. key \in Keys /\ UNCHANGED manifest
    BY <1>9, WindowKey, Parts DEF SaveWindow, KeyInv
  <2>2. mem' = [mem EXCEPT !.keys = mem.keys \ {key}] /\ SaveLink(key, "completed")
    BY <1>9 DEF SaveWindow
  <2>3. mem' \in Lists
    BY <2>2 DEF Lists
  <2>4. DOMAIN linkLog' = DOMAIN linkLog \cup {key}
    BY <2>2, Saved
  <2> QED BY <2>1, <2>3, <2>4 DEF KeyTypes
<1>10. CASE LinkingState \/ EndWindow
  BY <1>10, <1>m DEF LinkingState, EndWindow, KeyTypes
<1>11. CASE EndRun
  BY <1>11, OffLists DEF EndRun
<1>12. CASE Cancel \/ Die
  BY <1>12, OffLists DEF Cancel, Die, logs
<1> QED
  BY <1>1, <1>2, <1>3, <1>4, <1>5, <1>6, <1>7, <1>8, <1>9, <1>10, <1>11, <1>12 DEF Next, Steps

\* Within a window the documents to come get fewer and those to be linked are of them.
Within ==
    /\ rest' = rest /\ ToSet(left') \subseteq ToSet(left) /\ InWindow' \subseteq At

LEMMA AtPlace == ASSUME Sound, pc \in InDocument PROVE Doc \in At /\ Doc \in Docs /\ Doc \notin InWindow
<1>1. pc # "off"
  BY DEF InDocument
<1> QED BY <1>1, AtWork, Parts DEF WindowInv, ControlInv

LEMMA AdvanceLeft ==
    ASSUME Sound, pc \in InDocument, NEW ls, Advance(ls)
    PROVE  ToSet(left') \subseteq ToSet(left)
  BY AtWork, Parts DEF Advance

LEMMA StaysWithin ==
    ASSUME Sound, Next, ~StartRun, ~EndWindow PROVE Off \/ Within
<1>w. pc # "off" => InWindow \subseteq At
  BY Parts DEF WindowInv
<1>1. CASE UNCHANGED window /\ pc # "off"
  BY <1>1, <1>w DEF Within, window, InWindow
<1>2. CASE Reuse \/ BeginSlice \/ SaveDocument \/ ClearWindow \/ LinkEntities \/ SaveWindow
  BY <1>2, <1>1 DEF Reuse, BeginSlice, SaveDocument, ClearWindow, LinkEntities, SaveWindow
<1>3. CASE BeginDocument \/ Clean
  BY <1>3, <1>1 DEF BeginDocument, Clean, RunFails
<1>4. ASSUME NEW c \in Chunks, Extracted(c) \/ Store(c) \/ SaveChunk(c) PROVE Off \/ Within
  <2>1. pc # "off"
    <3>1. task[c] # "idle"
      BY <1>4 DEF Extracted, Store, SaveChunk
    <3> QED BY <3>1, Parts DEF ControlInv, AllIdle
  <2>2. UNCHANGED window
    BY <1>4 DEF Extracted, Store, SaveChunk
  <2> QED BY <1>1, <2>1, <2>2
<1>5. CASE Conclude
  <2>1. pc \in InDocument /\ rest' = rest
    BY <1>5 DEF Conclude, InDocument
  <2>2. ToSet(left') \subseteq ToSet(left)
    BY <1>5, <2>1, AdvanceLeft DEF Conclude
  <2>3. InWindow' \subseteq InWindow \cup {Doc}
    <3>1. linkable \in Seq(Docs) /\ Doc \in Docs
      BY <2>1, AtPlace, Parts DEF TypeInv, RunTypes
    <3> QED BY <1>5, <3>1, AppendedSet DEF Conclude, InWindow
  <2> QED BY <2>1, <2>2, <2>3, <1>w, AtPlace DEF Within, InDocument
<1>6. CASE Unlink
  <2>1. pc \in InDocument
    BY <1>6 DEF Unlink, InDocument
  <2>2. CASE Advance(linkable) /\ UNCHANGED <<rest, linkable>>
    BY <2>1, <2>2, AdvanceLeft, <1>w DEF Within, InWindow, InDocument
  <2> QED BY <1>6, <2>2 DEF Unlink, RunFails
<1>7. CASE Link
  BY <1>7, <1>w DEF Link, Within, InWindow
<1>8. CASE LinkingState
  <2>1. InWindow' \subseteq InWindow /\ UNCHANGED <<left, rest>>
    BY <1>8, TailSet, Parts DEF LinkingState, InWindow, TypeInv, RunTypes
  <2> QED BY <1>8, <2>1, <1>w DEF LinkingState, Within
<1>9. CASE EndRun \/ Cancel \/ Die
  BY <1>9 DEF EndRun, Cancel, Die
<1> QED BY <1>2, <1>3, <1>4, <1>5, <1>6, <1>7, <1>8, <1>9 DEF Next, Steps

\* The window at work stays what it is.
LEMMA SameWindow == rest' = rest => Cur' = Cur /\ At' = At
  BY DEF Cur, At

\* The first window of a run, and the one after another, are there with all their documents.
LEMMA NewWindow ==
    ASSUME Sound, StartRun \/ EndWindow
    PROVE  WindowInv' /\ (pc' = "document" => ToSet(left') = At') /\ pc' \in {"document", "end"}
<1>w. Windows \in Seq(Orders \ {<<>>}) /\ Len(Windows) \in Nat /\ Windows # <<>> /\ rest \in Seq(Orders \ {<<>>})
  BY Constants, Parts DEF TypeInv, RunTypes
<1>1. CASE StartRun
  <2>1. left' = Head(Windows) /\ rest' = Tail(Windows) /\ linkable' = linkable /\ linkable = <<>> /\ pc' = "document"
    BY <1>1, Parts DEF StartRun, ControlInv
  <2>2. Len(rest') = Len(Windows) - 1 /\ \A i \in 1..Len(rest') : rest'[i] = Windows[i + 1]
    BY <2>1, <1>w
  <2>3. Cur' = Windows[1] /\ left' = Windows[1]
    BY <2>1, <2>2, <1>w DEF Cur
  <2>4. ToSet(left') = At' /\ InWindow' = {}
    BY <2>1, <2>3 DEF At, InWindow, ToSet
  <2>5. \A i \in 1..Len(rest') : rest'[i] = Windows[(Len(Windows) - Len(rest')) + i]
    BY <2>2, <1>w
  <2> QED BY <2>1, <2>2, <2>4, <2>5, <1>w DEF WindowInv
<1>2. CASE EndWindow
  <2>0. linkable' = linkable /\ linkable = <<>> /\ pc # "off" /\ InWindow' = {}
    BY <1>2, Parts DEF EndWindow, ControlInv, InWindow, ToSet
  <2>w. /\ Len(rest) \in Nat /\ Len(rest) < Len(Windows) /\ ToSet(left) \subseteq At
        /\ \A i \in 1..Len(rest) : rest[i] = Windows[(Len(Windows) - Len(rest)) + i]
    BY <2>0, <1>w, Parts DEF WindowInv
  <2>1. CASE pc' = "end" /\ UNCHANGED <<left, rest>>
    <3>1. At' = At
      BY <2>1, SameWindow
    <3> QED BY <2>1, <2>0, <2>w, <3>1 DEF WindowInv
  <2>2. CASE rest # <<>> /\ left' = Head(rest) /\ rest' = Tail(rest) /\ pc' = "document"
    <3>1. Len(rest') = Len(rest) - 1 /\ Len(rest) > 0 /\ \A i \in 1..Len(rest') : rest'[i] = rest[i + 1]
      BY <2>2, <1>w
    <3>2. Cur' = Windows[(Len(Windows) - Len(rest)) + 1] /\ left' = rest[1]
      BY <2>2, <3>1, <2>w, <1>w DEF Cur
    <3>3. left' = Cur'
      BY <3>1, <3>2, <2>w
    <3>4. \A i \in 1..Len(rest') : rest'[i] = Windows[(Len(Windows) - Len(rest')) + i]
      <4> SUFFICES ASSUME NEW i \in 1..Len(rest') PROVE rest'[i] = Windows[(Len(Windows) - Len(rest')) + i]
        OBVIOUS
      <4>1. i + 1 \in 1..Len(rest)
        BY <3>1, <2>w
      <4>2. rest'[i] = Windows[(Len(Windows) - Len(rest)) + (i + 1)]
        BY <3>1, <2>w, <4>1
      <4>3. (Len(Windows) - Len(rest)) + (i + 1) = (Len(Windows) - Len(rest')) + i
        BY <3>1, <2>w, <1>w
      <4> QED BY <4>2, <4>3
    <3>5. ToSet(left') = At'
      BY <3>3 DEF At
    <3> QED BY <2>0, <2>2, <3>1, <3>4, <3>5, <2>w, <1>w DEF WindowInv
  <2> QED BY <1>2, <2>1, <2>2 DEF EndWindow
<1> QED BY <1>1, <1>2

LEMMA WindowNext == Sound /\ [Next]_vars => WindowInv'
<1> SUFFICES ASSUME Sound, [Next]_vars PROVE WindowInv'
  OBVIOUS
<1>1. CASE UNCHANGED vars
  BY <1>1, Parts DEF vars, window, WindowInv, Cur, At, InWindow
<1>2. CASE Off
  BY <1>2 DEF Off, WindowInv
<1>3. CASE Within /\ pc # "off"
  <2>1. /\ Len(rest) < Len(Windows) /\ ToSet(left) \subseteq At
        /\ \A i \in 1..Len(rest) : rest[i] = Windows[(Len(Windows) - Len(rest)) + i]
    BY <1>3, Parts DEF WindowInv
  <2>2. At' = At /\ rest' = rest
    BY <1>3, SameWindow DEF Within
  <2> QED BY <1>3, <2>1, <2>2 DEF Within, WindowInv
<1>4. CASE StartRun \/ EndWindow
  BY <1>4, NewWindow
<1>6. pc = "off" /\ Next => StartRun
  <2>1. pc = "off" => task = AllIdle
    BY Parts DEF ControlInv
  <2> QED
    BY <2>1 DEF Next, Steps, Cancel, Die, Reuse, BeginDocument, Clean, BeginSlice, Extracted, Store, SaveChunk, AllIdle,
       SaveDocument, Conclude, Unlink, Link, ClearWindow, LinkEntities, SaveWindow, LinkingState, EndWindow, EndRun
<1> QED BY <1>1, <1>2, <1>3, <1>4, <1>6, StaysWithin

\* Nothing but a start happens while no run is on.
LEMMA OnlyStarts == Sound /\ Next /\ ~StartRun => pc # "off"
<1>1. Sound /\ pc = "off" => task = AllIdle
  BY Parts DEF ControlInv
<1> QED
  BY <1>1 DEF Next, Steps, Cancel, Die, Reuse, BeginDocument, Clean, BeginSlice, Extracted, Store, SaveChunk, AllIdle,
       SaveDocument, Conclude, Unlink, Link, ClearWindow, LinkEntities, SaveWindow, LinkingState, EndWindow, EndRun

LEMMA AllOfIt ==
    ASSUME NEW s \in Seq(Docs), s # <<>>
    PROVE  \A d \in ToSet(s) : d = Head(s) \/ d \in ToSet(Tail(s))
<1>1. Len(s) \in Nat /\ Len(s) > 0 /\ Len(Tail(s)) = Len(s) - 1 /\ Head(s) = s[1]
      /\ \A i \in 1..(Len(s) - 1) : Tail(s)[i] = s[i + 1]
  OBVIOUS
<1> SUFFICES ASSUME NEW i \in 1..Len(s), i # 1 PROVE s[i] \in ToSet(Tail(s))
  BY <1>1 DEF ToSet
<1>2. i - 1 \in 1..(Len(s) - 1) /\ (i - 1) + 1 = i
  BY <1>1
<1>3. Tail(s)[i - 1] = s[i] /\ i - 1 \in DOMAIN Tail(s)
  BY <1>1, <1>2
<1> QED BY <1>3 DEF ToSet

\* Steps of the chunks leave the window and its documents alone.
LEMMA ChunkSteps ==
    ASSUME Sound, NEW c \in Chunks, Extracted(c) \/ Store(c) \/ SaveChunk(c)
    PROVE  pc = "chunks" /\ UNCHANGED <<pc, docLog, linkLog, links, unlinked, mem, left, rest, linkable, relink, rebuild, key>>
<1>1. pc = "chunks"
  <2>1. task[c] # "idle"
    BY DEF Extracted, Store, SaveChunk
  <2> QED BY <2>1, Parts DEF ControlInv, AllIdle
<1>2. CASE Extracted(c)
  BY <1>1, <1>2 DEF Extracted, window, graph, history
<1>3. CASE Store(c)
  BY <1>1, <1>3 DEF Store, window, history
<1>4. CASE SaveChunk(c)
  BY <1>1, <1>4 DEF SaveChunk, window, graph, history
<1> QED BY <1>2, <1>3, <1>4

LEMMA RebuiltNext == Sound /\ [Next]_vars => RebuiltInv'
<1> SUFFICES ASSUME Sound, [Next]_vars PROVE RebuiltInv'
  OBVIOUS
<1>r. RebuiltInv /\ ControlInv
  BY Parts
<1>p. InDocument \cup Linking = {"document", "clean", "chunks", "conclude", "unlink", "link", "relink", "linking", "save"}
  BY DEF InDocument, Linking
<1>d. rest' = rest => At' = At
  BY SameWindow
<1> USE <1>p
<1>1. CASE UNCHANGED <<pc, docLog, unlinked, left, rest, relink, rebuild>>
  BY <1>1, <1>r, <1>d DEF RebuiltInv, Doc, Failed
<1>2. CASE Off
  BY <1>2 DEF Off, RebuiltInv
<1>3. CASE UNCHANGED vars \/ BeginSlice
  BY <1>1, <1>3 DEF vars, BeginSlice, logs, window, work, history
<1>4. CASE StartRun
  BY <1>4, <1>r DEF StartRun, RebuiltInv
<1>5. CASE Reuse
  <2>1. rebuild' = FALSE /\ pc' = "conclude" /\ relink' = relink /\ unlinked' = unlinked /\ At' = At /\ pc = "document"
    BY <1>5, <1>d DEF Reuse, window, history
  <2> QED BY <2>1, <1>r DEF RebuiltInv
<1>6. CASE BeginDocument /\ ~RunFails
  <2>1. /\ rebuild' = Rebuild(Doc) /\ pc' = IF Rebuild(Doc) THEN "clean" ELSE "chunks"
        /\ UNCHANGED <<left, rest, relink, unlinked, docLog>> /\ pc = "document"
    BY <1>6 DEF BeginDocument, window, Untouched, history
  <2>2. ~Rebuild(Doc) => Failed(Doc)
    BY DEF Rebuild, Failed
  <2>3. Doc' = Doc /\ (Failed(Doc))' = Failed(Doc) /\ At' = At
    BY <2>1, <1>d DEF Doc, Failed
  <2> QED BY <2>1, <2>2, <2>3, <1>r DEF RebuiltInv
<1>7. CASE Clean /\ ~RunFails
  <2>1. /\ unlinked' = unlinked \cup {Doc} /\ pc' = "chunks" /\ UNCHANGED <<left, rest, relink, rebuild>>
        /\ pc = "clean"
    BY <1>7 DEF Clean, Deleted, window, work
  <2>2. Doc' = Doc /\ At' = At /\ rebuild
    BY <2>1, <1>d, <1>r DEF Doc, ControlInv
  <2> QED BY <2>1, <2>2, <1>r DEF RebuiltInv
<1>8. ASSUME NEW c \in Chunks, Extracted(c) \/ Store(c) \/ SaveChunk(c) PROVE RebuiltInv'
  BY <1>1, <1>8, ChunkSteps
<1>9. CASE SaveDocument
  <2>1. pc' = "conclude" /\ UNCHANGED <<left, rest, relink, rebuild, unlinked>> /\ pc = "chunks"
    BY <1>9 DEF SaveDocument, window, work
  <2>2. Doc' = Doc /\ At' = At
    BY <2>1, <1>d DEF Doc
  <2> QED BY <2>1, <2>2, <1>r DEF RebuiltInv
<1>10. CASE Conclude
  <2>1. pc' \notin {"chunks", "conclude", "off", "end"} /\ relink' = (relink \/ rebuild) /\ unlinked' = unlinked
        /\ rest' = rest /\ pc = "conclude"
    BY <1>10 DEF Conclude, Advance, history
  <2>2. Doc \in At
    BY <2>1, AtPlace DEF InDocument
  <2> QED BY <2>1, <2>2, <1>r, <1>d DEF RebuiltInv
<1>11. CASE Unlink /\ ~RunFails
  <2>1. pc' \notin {"chunks", "conclude", "off", "end"} /\ UNCHANGED <<relink, unlinked, rest>> /\ pc = "unlink"
    BY <1>11 DEF Unlink, Advance, history
  <2> QED BY <2>1, <1>r, <1>d DEF RebuiltInv
<1>12. CASE Link
  <2>1. pc' \in {"linked", "barred", "relink"} /\ UNCHANGED <<relink, unlinked, rest>> /\ pc = "link"
    BY <1>12, LinkLists DEF Link, Untouched, history
  <2> QED BY <2>1, <1>r, <1>d DEF RebuiltInv
<1>13. CASE ClearWindow
  <2>1. pc' \in {"linked", "barred", "linking"} /\ UNCHANGED <<relink, rest>> /\ pc = "relink"
        /\ (pc' = "linking" => unlinked' = unlinked)
    BY <1>13 DEF ClearWindow, window, LinkFails
  <2> QED BY <2>1, <1>r, <1>d DEF RebuiltInv
<1>14. CASE LinkEntities
  <2>1. pc' \in {"save", "barred"} /\ UNCHANGED <<relink, rest, unlinked>> /\ pc = "linking"
    BY <1>14 DEF LinkEntities, window, LinkFails, history
  <2> QED BY <2>1, <1>r, <1>d DEF RebuiltInv
<1>15. CASE SaveWindow \/ LinkingState
  BY <1>15 DEF SaveWindow, LinkingState, RebuiltInv
<1>16. CASE EndWindow
  BY <1>16 DEF EndWindow, RebuiltInv
<1>17. ((BeginDocument \/ Clean \/ Unlink) /\ RunFails) \/ EndRun \/ Cancel \/ Die => Off
  BY DEF RunFails, EndRun, Cancel, Die
<1> QED
  BY <1>2, <1>3, <1>4, <1>5, <1>6, <1>7, <1>8, <1>9, <1>10, <1>11, <1>12, <1>13, <1>14, <1>15, <1>16, <1>17 DEF Next, Steps

LEMMA PlanNext == Sound /\ [Next]_vars => PlanInv'
<1> SUFFICES ASSUME Sound, [Next]_vars PROVE PlanInv'
  OBVIOUS
<1>r. PlanInv /\ ControlInv
  BY Parts
<1>d. rest' = rest => At' = At
  BY SameWindow
<1>p. \A d \in Docs : docLog'[d].status = docLog[d].status => (Failed(d))' = Failed(d)
  BY DEF Failed
<1>o. \A l : l = "off" \/ l = "flagged" \/ l = "end" \/ l = "linked" \/ l = "barred" =>
         l \notin InDocument \cup Linking
  BY DEF InDocument, Linking
<1>1. CASE UNCHANGED <<pc, docLog, mem, left, rest, linkable>> /\ pc # "conclude"
  BY <1>1, <1>r, <1>d DEF PlanInv, Doc, Failed, Spoiled, InWindow
<1>2. CASE pc' \in {"off", "flagged", "end", "linked", "barred"}
  BY <1>2, <1>o DEF PlanInv, InDocument
<1>3. CASE UNCHANGED vars
  BY <1>3, <1>r DEF vars, logs, window, work, breaker, PlanInv, Doc, Failed, Spoiled, InWindow, AnyFailed, Completed, At, Cur
<1>4. CASE StartRun \/ EndWindow
  BY <1>2, <1>4, NewWindow DEF PlanInv, Linking
<1>5. CASE Reuse
  <2>1. /\ UNCHANGED <<docLog, chunkLog, mem, left, rest, linkable, blocked>> /\ seen' = Of(Doc) /\ pc = "document" /\ pc' = "conclude"
        /\ Reusable(Doc)
    BY <1>5 DEF Reuse, window, breaker, logs
  <2>2. ~blocked /\ ~AnyFailed'
    BY <2>1, <1>r DEF ControlInv, AnyFailed, Reusable, Completed
  <2>3. \A d \in At : d \in ToSet(left) \/ d \in InWindow \/ (Failed(d) /\ d \in mem.docs)
    BY <2>1, <1>r DEF PlanInv, InDocument
  <2> QED BY <2>1, <2>2, <2>3, <1>d DEF PlanInv, Failed, InWindow, Linking
<1>6. CASE (BeginDocument \/ Clean) /\ ~RunFails
  <2>1. UNCHANGED <<docLog, mem, left, rest, linkable>> /\ pc \in InDocument /\ pc' \in {"clean", "chunks"}
    BY <1>6 DEF BeginDocument, Clean, window, InDocument
  <2>3. \A d \in At : d \in ToSet(left) \/ d \in InWindow \/ (Failed(d) /\ d \in mem.docs)
    BY <2>1, <1>r DEF PlanInv, InDocument
  <2> QED BY <2>1, <2>3, <1>d DEF PlanInv, Failed, InWindow, Linking
<1>7. CASE BeginSlice
  BY <1>1, <1>7 DEF BeginSlice, logs, window
<1>8. ASSUME NEW c \in Chunks, Extracted(c) \/ Store(c) \/ SaveChunk(c) PROVE PlanInv'
  BY <1>1, <1>8, ChunkSteps
<1>9. CASE SaveDocument
  <2>1. /\ UNCHANGED <<chunkLog, mem, left, rest, linkable, blocked, seen>> /\ pc = "chunks" /\ pc' = "conclude"
        /\ docLog' = [docLog EXCEPT ![Doc] = [status |-> DocumentStatus, linked |-> FALSE, barred |-> FALSE]]
        /\ Active = {}
    BY <1>9 DEF SaveDocument, window, breaker, work, Checkpoint
  <2>2. Doc \in Docs /\ Doc \in ToSet(left) /\ docLog \in [Docs -> [status: {"none", "completed", "failed", "provider_blocked", "cancelled"},
                            linked: BOOLEAN, barred: BOOLEAN]]
    BY <2>1, AtWork, Parts DEF InDocument, TypeInv, LogTypes
  <2>3. docLog'[Doc].status = DocumentStatus /\ \A d \in Docs : d # Doc => docLog'[d] = docLog[d]
    BY <2>1, <2>2
  <2>4. blocked => AnyFailed
    BY <2>1, <1>r DEF ControlInv, AnyFailed
  <2>5. AnyFailed' = AnyFailed /\ Doc' = Doc /\ At' = At /\ InWindow' = InWindow
    BY <2>1, <1>d DEF AnyFailed, Completed, Doc, InWindow
  <2>6. AnyFailed => (Failed(Doc))'
    BY <2>3, <2>5 DEF DocumentStatus, Failed
  <2>7. \A d \in At : d \in ToSet(left) \/ d \in InWindow \/ (Failed(d) /\ d \in mem.docs)
    BY <2>1, <1>r DEF PlanInv, InDocument
  <2>8. At \subseteq Docs
    BY <2>1, Parts, Windowed
  <2>9. \A d \in At : d \in ToSet(left) \/ d \in InWindow \/ ((Failed(d))' /\ d \in mem.docs)
    BY <2>2, <2>3, <2>7, <2>8 DEF Failed
  <2> QED BY <2>1, <2>4, <2>5, <2>6, <2>9 DEF PlanInv, Linking
<1>10. CASE Conclude
  <2>0. pc = "conclude" /\ pc \in InDocument /\ rest' = rest /\ At' = At /\ UNCHANGED breaker
    BY <1>10, <1>d DEF Conclude, InDocument
  <2>1. Doc \in Docs /\ Doc \in At /\ left \in Seq(Docs) /\ left # <<>> /\ linkable \in Seq(Docs) /\ At \subseteq Docs
    BY <2>0, AtPlace, Parts, Windowed DEF ControlInv, TypeInv, RunTypes, Orders
  <2>2. \A d \in At : d \in ToSet(left) \/ d \in InWindow \/ (Failed(d) /\ d \in mem.docs)
    BY <2>0, <1>r DEF PlanInv
  <2>3. CASE AnyFailed
    <3>1. /\ pc' = "unlink" /\ UNCHANGED <<linkable, left>> /\ mem'.docs = mem.docs \cup {Doc}
          /\ docLog' = [docLog EXCEPT ![Doc] = [docLog[Doc] EXCEPT !.linked = FALSE, !.barred = TRUE]]
      BY <1>10, <2>3, ConcludeLists DEF Conclude, LinksIt, Checkpoint
    <3>2. \A d \in Docs : docLog'[d].status = docLog[d].status
      BY <3>1, <2>1, Parts DEF TypeInv, LogTypes
    <3>3. Failed(Doc) /\ Doc' = Doc /\ InWindow' = InWindow
      BY <2>0, <2>3, <3>1, <1>r DEF PlanInv, Doc, InWindow
    <3>4. (Failed(Doc))' /\ \A d \in At : (Failed(d))' = Failed(d)
      BY <3>2, <3>3, <2>1 DEF Failed
    <3> QED BY <2>0, <2>2, <3>1, <3>3, <3>4 DEF PlanInv, Linking
  <2>4. CASE ~AnyFailed
    <3>1. /\ linkable' = Append(linkable, Doc) /\ Advance(linkable') /\ mem'.docs = mem.docs \ {Doc} /\ docLog' = docLog
      BY <1>10, <2>4, ConcludeLists DEF Conclude, LinksIt
    <3>2. ~blocked /\ ~blocked'
      BY <2>0, <2>4, <1>r DEF PlanInv, breaker
    <3>3. linkable' # <<>> /\ InWindow' = InWindow \cup {Doc} /\ InWindow' \subseteq At
      <4>1. linkable' # <<>> /\ InWindow' = InWindow \cup {Doc}
        BY <3>1, <2>1, AppendedSet DEF InWindow
      <4> QED BY <4>1, <2>0, <2>1, Parts DEF WindowInv
    <3>4. left' = Tail(left) /\ pc' = IF Tail(left) # <<>> THEN "document" ELSE "link"
      BY <3>1, <3>2, <3>3 DEF Advance, Asks
    <3>5. \A d \in At : d \in ToSet(left') \/ d \in InWindow' \/ (Failed(d) /\ d \in mem'.docs)
      BY <2>1, <2>2, <3>1, <3>3, <3>4, AllOfIt DEF Doc
    <3>6. \A d \in At : d \in ToSet(left') \/ d \in InWindow' \/ ((Failed(d))' /\ d \in mem'.docs)
      BY <3>1, <3>5 DEF Failed
    <3>7. CASE pc' = "document"
      BY <3>6, <3>7, <2>0 DEF PlanInv, Linking
    <3>8. CASE pc' = "link"
      <4>1. ToSet(left') = {}
        BY <3>4, <3>8 DEF ToSet
      <4> QED BY <3>3, <3>6, <3>8, <4>1, <2>0 DEF PlanInv, InDocument, Spoiled
    <3> QED BY <3>4, <3>7, <3>8
  <2> QED BY <2>3, <2>4
<1>11. CASE Unlink /\ ~RunFails
  <2>1. pc = "unlink" /\ Advance(linkable) /\ UNCHANGED <<docLog, mem, rest, linkable>> /\ pc \in InDocument
    BY <1>11 DEF Unlink, InDocument
  <2>2. Doc \in At /\ left \in Seq(Docs) /\ left # <<>> /\ At' = At /\ InWindow' = InWindow
    BY <2>1, <1>d, AtPlace, Parts DEF ControlInv, TypeInv, RunTypes, Orders, InWindow
  <2>3. Failed(Doc) /\ Doc \in mem.docs
        /\ \A d \in At : d \in ToSet(left) \/ d \in InWindow \/ (Failed(d) /\ d \in mem.docs)
    BY <2>1, <1>r DEF PlanInv
  <2>4. left' = Tail(left) /\ pc' \in {"document", "link", "flagged"} /\ (pc' = "link" => linkable # <<>>)
    BY <2>1 DEF Advance
  <2>5. \A d \in At : d \in ToSet(left') \/ d \in InWindow' \/ ((Failed(d))' /\ d \in mem'.docs)
    BY <2>1, <2>2, <2>3, <2>4, AllOfIt DEF Doc, Failed
  <2>6. pc' = "document" => PlanInv'
    BY <2>5, <2>2 DEF PlanInv, Linking
  <2>7. pc' = "link" => PlanInv'
    BY <2>1, <2>2, <2>3, <2>4 DEF PlanInv, InDocument, Spoiled, Failed
  <2> QED BY <2>4, <2>6, <2>7, <1>2
<1>12. CASE Link \/ ClearWindow \/ LinkEntities \/ SaveWindow
  <2>1. pc \in Linking /\ pc' \notin InDocument /\ UNCHANGED <<docLog, rest, linkable>> /\ mem'.docs = mem.docs
    <3>1. CASE Link
      BY <3>1, LinkLists DEF Link, Linking, InDocument
    <3>2. CASE ClearWindow \/ LinkEntities
      <4>1. pc \in {"relink", "linking"} /\ UNCHANGED <<docLog, rest, linkable>>
        BY <3>2 DEF ClearWindow, LinkEntities, window
      <4>2. key \in Keys /\ mem.keys \in SUBSET Keys
        BY <4>1, WindowKey, Parts DEF KeyInv, KeyTypes, Lists
      <4>3. pc' \in {"linked", "linking", "save", "barred"} /\ (mem' = mem \/ LinkFails(key, mem.keys))
        BY <3>2 DEF ClearWindow, LinkEntities, LinkFails
      <4>4. mem'.docs = mem.docs
        BY <4>2, <4>3, FailedLinking, Parts
      <4> QED BY <4>1, <4>3, <4>4 DEF Linking, InDocument
    <3>3. CASE SaveWindow
      <4>1. mem' = [mem EXCEPT !.keys = mem.keys \ {key}] /\ mem \in Lists
        BY <3>3, Parts DEF SaveWindow, KeyTypes
      <4>2. mem'.docs = mem.docs
        BY <4>1 DEF Lists
      <4> QED BY <3>3, <4>2 DEF SaveWindow, window, Linking, InDocument
    <3> QED BY <1>12, <3>1, <3>2, <3>3
  <2>2. linkable # <<>> /\ (InWindow = At \/ Spoiled)
    BY <2>1, <1>r DEF PlanInv
  <2>3. linkable' # <<>> /\ (InWindow' = At' \/ Spoiled')
    BY <2>1, <2>2, <1>d DEF Spoiled, Failed, InWindow
  <2>4. pc' # "conclude" /\ pc' # "unlink"
    BY <2>1 DEF InDocument
  <2> QED BY <2>1, <2>3, <2>4 DEF PlanInv
<1>13. CASE LinkingState
  BY <1>2, <1>13 DEF LinkingState
<1>14. ((BeginDocument \/ Clean \/ Unlink) /\ RunFails) \/ EndRun \/ Cancel \/ Die => pc' = "off"
  BY DEF RunFails, EndRun, Cancel, Die, Off
<1> QED
  BY <1>2, <1>3, <1>4, <1>5, <1>6, <1>7, <1>8, <1>9, <1>10, <1>11, <1>12, <1>13, <1>14 DEF Next, Steps

\* A window is a finite set of facts, and one fact makes no pair.
LEMMA FewFacts ==
    ASSUME TypeInv, Cardinality(Facts(InWindow)) < 2 PROVE Pairs(InWindow) = {}
<1>1. linkable \in Seq(Docs)
  BY DEF TypeInv, RunTypes
<1>2. \A s, S : s \in Seq(S) => IsFiniteSet(ToSet(s))
  <2> SUFFICES ASSUME NEW S, NEW s \in Seq(S) PROVE IsFiniteSet(ToSet(s))
    OBVIOUS
  <2>1. Len(s) \in Nat /\ s \in Surjection(1..Len(s), ToSet(s))
    BY DEF Surjection, ToSet
  <2> QED BY <2>1, FS_Interval, FS_Surjection
<1>3. IsFiniteSet(InWindow) /\ InWindow \subseteq Docs
  BY <1>1, <1>2, ElementOfSeq DEF InWindow, ToSet
<1>4. \A d \in Docs : IsFiniteSet(Of(d))
  BY <1>2, Constants DEF Of
<1>5. IsFiniteSet({Of(d) : d \in InWindow})
  <2>1. [d \in InWindow |-> Of(d)] \in Surjection(InWindow, {Of(d) : d \in InWindow})
    BY DEF Surjection
  <2> QED BY <1>3, <2>1, FS_Surjection
<1>6. IsFiniteSet(UNION {Of(d) : d \in InWindow})
  BY <1>3, <1>4, <1>5, FS_UNION
<1>7. IsFiniteSet(Facts(InWindow))
  BY <1>6, FS_Subset DEF Facts
<1>8. \A p \in Pairs(InWindow) : FALSE
  <2> SUFFICES ASSUME NEW p \in Pairs(InWindow) PROVE FALSE
    OBVIOUS
  <2>1. p \subseteq Facts(InWindow) /\ Cardinality(p) = 2
    BY PairsOf
  <2>2. Cardinality(p) <= Cardinality(Facts(InWindow)) /\ Cardinality(Facts(InWindow)) \in Nat
    BY <1>7, <2>1, FS_Subset, FS_CardinalityType
  <2> QED BY <2>1, <2>2
<1> QED BY <1>8

\* The same facts make the same pairs.
LEMMA SameEvidence == evidence' = evidence => \A v : Facts(v)' = Facts(v) /\ Pairs(v)' = Pairs(v) /\ KeyOf(v)' = KeyOf(v)
  BY DEF Pairs, Facts, KeyOf, Of

\* What linking a window leaves.
LinkedInv ==
    \/ Spoiled
    \/ /\ \A d \in At : ~Failed(d) /\ (d \in InWindow \/ docLog[d].linked)
       /\ Pairs(At) \subseteq links \/ (~relink /\ unlinked \cap At # {})

LEMMA LinkedNow ==
    ASSUME Sound, pc \in Linking, rest' = rest, UNCHANGED <<docLog, linkable, evidence>>, mem'.docs = mem.docs,
           InWindow = At => Pairs(At) \subseteq links' \/ (~relink' /\ unlinked' \cap At # {})
    PROVE  LinkedInv'
<1>1. At' = At /\ InWindow' = InWindow
  BY SameWindow DEF InWindow
<1>2. CASE Spoiled
  BY <1>1, <1>2 DEF LinkedInv, Spoiled, Failed
<1>3. CASE ~Spoiled
  <2>1. InWindow = At
    BY <1>3, Parts DEF PlanInv
  <2>2. \A d \in At : ~Failed(d)
    BY <2>1, Parts DEF LinksInv, Failed
  <2>3. Pairs(At') = Pairs(At) /\ Pairs(At)' = Pairs(At)
    BY <1>1, SameEvidence
  <2> QED BY <1>1, <2>1, <2>2, <2>3 DEF LinkedInv, Failed
<1> QED BY <1>2, <1>3

\* A document of a linked window is marked, and the others are as they were.
LEMMA LinkedStep == ASSUME Sound, LinkingState, pc = "linked" PROVE LinkedInv'
<1> DEFINE d == Head(linkable)
<1>1. UNCHANGED <<evidence, links, rest, relink, mem>> /\ linkable' = Tail(linkable) /\ linkable # <<>>
  BY DEF LinkingState, graph
<1>2. linkable \in Seq(Docs) /\ d \in Docs /\ d \in InWindow
  BY <1>1, TailSet, Parts DEF TypeInv, RunTypes, InWindow
<1>3. \A e \in InWindow : e = d \/ e \in InWindow'
  BY <1>1, <1>2, AllOfIt DEF InWindow
<1>4. At' = At /\ At \subseteq Docs
  BY <1>1, SameWindow, Parts, Windowed
<1>5. docLog' = [docLog EXCEPT ![d] = [docLog[d] EXCEPT !.linked = TRUE, !.barred = FALSE]]
  BY DEF LinkingState, Checkpoint
<1>6. docLog \in [Docs -> [status: {"none", "completed", "failed", "provider_blocked", "cancelled"},
                        linked: BOOLEAN, barred: BOOLEAN]]
  BY Parts DEF TypeInv, LogTypes
<1>7. docLog'[d].linked /\ \A e \in Docs : docLog'[e].status = docLog[e].status /\ (e # d => docLog'[e] = docLog[e])
  <2>1. docLog'[d] = [docLog[d] EXCEPT !.linked = TRUE, !.barred = FALSE] /\ \A e \in Docs : e # d => docLog'[e] = docLog[e]
    BY <1>2, <1>5, <1>6
  <2>2. docLog'[d].linked /\ docLog'[d].status = docLog[d].status
    BY <1>2, <1>6, <2>1
  <2> QED BY <2>1, <2>2
<1>8. unlinked' = unlinked \/ relink
  BY DEF LinkingState
<1>9. Pairs(At)' = Pairs(At)
  BY <1>1, <1>4, SameEvidence DEF Pairs, Facts, Of, At, Cur
<1>10. LinkedInv
  BY Parts DEF KeyInv, LinkedInv
<1>11. ASSUME Spoiled PROVE LinkedInv'
  BY <1>1, <1>4, <1>7, <1>11 DEF LinkedInv, Spoiled, Failed
<1>12. ASSUME ~Spoiled PROVE LinkedInv'
  <2>1. \A e \in At : ~Failed(e) /\ (e \in InWindow \/ docLog[e].linked)
    BY <1>10, <1>12 DEF LinkedInv
  <2>2. \A e \in At : ~(Failed(e))' /\ (e \in InWindow' \/ docLog'[e].linked)
    BY <1>3, <1>4, <1>7, <2>1 DEF Failed
  <2>3. Pairs(At) \subseteq links \/ (~relink' /\ unlinked' \cap At # {})
    BY <1>1, <1>8, <1>10, <1>12 DEF LinkedInv
  <2> QED BY <1>1, <1>4, <1>9, <2>2, <2>3 DEF LinkedInv
<1> QED BY <1>11, <1>12

\* A linking that is given up leaves its key among what is listed.
LEMMA BarredNow ==
    ASSUME Sound, pc \in Linking, rest' = rest, \E k \in mem'.keys : k.docs = InWindow
    PROVE  \E k \in mem'.keys : k.docs # {} /\ k.docs \subseteq At'
<1>1. At' = At /\ InWindow \subseteq At
  BY SameWindow, Parts DEF WindowInv, Linking
<1>2. linkable # <<>> /\ linkable \in Seq(Docs)
  BY Parts DEF PlanInv, TypeInv, RunTypes
<1>3. InWindow # {}
  BY <1>2, TailSet DEF InWindow
<1> QED BY <1>1, <1>3

LEMMA KeyNext == Sound /\ [Next]_vars => KeyInv'
<1> SUFFICES ASSUME Sound, [Next]_vars PROVE KeyInv'
  OBVIOUS
<1>r. KeyInv
  BY Parts
<1>l. \A l \in {"link", "relink", "linking", "save"} : l \in Linking
  BY DEF Linking
<1>i. KeyInv' <=>
        /\ pc' \in {"relink", "linking", "save"} => key' = KeyOf(InWindow)'
        /\ pc' = "relink" /\ ~relink' => LinkStatus(key)' # "completed"
        /\ pc' = "linking" => LinkStatus(key)' # "completed"
        /\ pc' = "save" => Pairs(InWindow)' \subseteq links'
        /\ pc' = "linked" => LinkedInv'
        /\ pc' = "barred" => \E k \in mem'.keys : k.docs # {} /\ k.docs \subseteq At'
  BY DEF KeyInv, LinkedInv
<1>1. CASE UNCHANGED vars
  BY <1>1, <1>r DEF vars, logs, graph, window, work, breaker, history, KeyInv, Failed, Spoiled, InWindow, At, Cur, KeyOf, Facts, Pairs, LinkStatus, Of
<1>2. CASE pc' \notin {"relink", "linking", "save", "linked", "barred"}
  BY <1>2, <1>i
<1>3. CASE Link
  <2>1. /\ pc = "link" /\ UNCHANGED <<docLog, linkable, evidence, links, rest, unlinked, relink>>
        /\ InWindow' = InWindow /\ InWindow \subseteq Docs
    BY <1>3, WindowKey DEF Link, Untouched, graph, history, InWindow
  <2>2. KeyOf(InWindow)' = KeyOf(InWindow)
    BY <2>1, SameEvidence DEF KeyOf, Facts, Of
  <2>3. CASE pc' = "linked"
    <3>1. KeyOf(InWindow) \in Held /\ ~relink /\ mem'.docs = mem.docs
      BY <1>3, <2>3, LinkLists
    <3>2. InWindow = At => LinkedAll(At)
      BY <2>1, <3>1, Parts, Windowed DEF LinkLogInv, At
    <3>3. LinkedInv'
      BY <2>1, <3>1, <3>2, LinkedNow, <1>l DEF LinkedAll
    <3> QED BY <2>3, <3>3, <1>i
  <2>4. CASE pc' = "barred"
    <3>1. \E k \in mem'.keys : k.docs = InWindow
      BY <1>3, <2>4, LinkLists
    <3> QED BY <2>1, <2>4, <3>1, BarredNow, <1>l, <1>i
  <2>5. CASE pc' = "relink"
    <3>1. key' = KeyOf(InWindow) /\ linkLog' = linkLog /\ (LinkStatus(KeyOf(InWindow)) # "completed" \/ relink)
      BY <1>3, <2>5, LinkLists
    <3>2. ~relink' => LinkStatus(key)' # "completed"
      BY <2>1, <3>1 DEF LinkStatus
    <3> QED BY <2>2, <2>5, <3>1, <3>2, <1>i
  <2> QED BY <1>3, LinkLists, <2>3, <2>4, <2>5
<1>4. CASE ClearWindow
  <2>1. /\ pc = "relink" /\ UNCHANGED <<docLog, linkable, evidence, rest, relink, key>>
        /\ InWindow' = InWindow /\ InWindow \subseteq Docs /\ key = KeyOf(InWindow)
    BY <1>4, WindowKey, Parts DEF ClearWindow, window, InWindow, KeyInv
  <2>2. KeyOf(InWindow)' = KeyOf(InWindow)
    BY <2>1, SameEvidence DEF KeyOf, Facts, Of
  <2>k. key \in Keys /\ key.docs = InWindow /\ key.facts = Facts(InWindow) /\ mem.keys \in SUBSET Keys
    BY <2>1, WindowKey, Parts DEF KeyTypes, Lists
  <2>3. CASE LinkFails(key, mem.keys)
    <3>1. \E k \in mem'.keys : k.docs = InWindow
      BY <2>k, <2>3, FailedLinking, Parts
    <3> QED BY <2>1, <2>3, <3>1, BarredNow, <1>l, <1>i DEF LinkFails
  <2>4. CASE Cardinality(key.facts) < 2 /\ pc' = "linked" /\ mem' = mem
    <3>1. Pairs(InWindow) = {}
      BY <2>k, <2>4, FewFacts, Parts
    <3>2. LinkedInv'
      BY <2>1, <2>4, <3>1, LinkedNow, <1>l
    <3> QED BY <2>4, <3>2, <1>i
  <2>5. CASE SaveLink(key, "cancelled") /\ pc' = "linking"
    <3>1. LinkStatus(key)' # "completed"
      BY <2>1, <2>5, Saved DEF LinkStatus
    <3> QED BY <2>1, <2>2, <2>5, <3>1, <1>i
  <2> QED BY <1>4, <2>3, <2>4, <2>5 DEF ClearWindow
<1>5. CASE LinkEntities
  <2>1. /\ pc = "linking" /\ UNCHANGED <<docLog, linkable, evidence, rest, relink, key>>
        /\ InWindow' = InWindow /\ InWindow \subseteq Docs /\ key = KeyOf(InWindow)
    BY <1>5, WindowKey, Parts DEF LinkEntities, window, InWindow, KeyInv
  <2>2. KeyOf(InWindow)' = KeyOf(InWindow) /\ Pairs(InWindow)' = Pairs(InWindow)
    BY <2>1, SameEvidence DEF KeyOf, Facts, Of, Pairs
  <2>k. key \in Keys /\ key.docs = InWindow /\ mem.keys \in SUBSET Keys
    BY <2>1, WindowKey, Parts DEF KeyTypes, Lists
  <2>3. CASE LinkFails(key, mem.keys)
    <3>1. \E k \in mem'.keys : k.docs = InWindow
      BY <2>k, <2>3, FailedLinking, Parts
    <3> QED BY <2>1, <2>3, <3>1, BarredNow, <1>l, <1>i DEF LinkFails
  <2>4. CASE links' = links \cup Pairs(InWindow) /\ pc' = "save"
    BY <2>1, <2>2, <2>4, <1>i
  <2> QED BY <1>5, <2>3, <2>4 DEF LinkEntities
<1>6. CASE SaveWindow
  <2>1. pc = "save" /\ pc' = "linked" /\ UNCHANGED <<docLog, linkable, evidence, links, rest, relink>>
    BY <1>6 DEF SaveWindow, window, graph
  <2>2. Pairs(InWindow) \subseteq links
    BY <2>1, <1>r DEF KeyInv
  <2>3. mem'.docs = mem.docs
    <3>1. mem' = [mem EXCEPT !.keys = mem.keys \ {key}] /\ mem \in Lists
      BY <1>6, Parts DEF SaveWindow, KeyTypes
    <3> QED BY <3>1 DEF Lists
  <2>4. LinkedInv'
    BY <2>1, <2>2, <2>3, LinkedNow, <1>l
  <2> QED BY <2>1, <2>4, <1>i
<1>7. CASE LinkingState
  <2>1. UNCHANGED <<rest, mem>> /\ pc' \in {pc, "flagged"} /\ pc \in {"linked", "barred"}
    BY <1>7 DEF LinkingState
  <2>2. At' = At
    BY <2>1, SameWindow
  <2>3. CASE pc = "barred"
    BY <2>1, <2>2, <2>3, <1>r, <1>i DEF KeyInv
  <2>4. CASE pc = "linked"
    BY <1>7, <2>1, <2>4, LinkedStep, <1>i
  <2> QED BY <2>1, <2>3, <2>4
<1>8. CASE StartRun \/ EndWindow \/ Conclude \/ Unlink
  BY <1>2, <1>8 DEF StartRun, EndWindow, Conclude, Unlink, Advance, RunFails, Off
<1>9. CASE Reuse \/ BeginDocument \/ Clean \/ BeginSlice \/ SaveDocument \/ EndRun \/ Cancel \/ Die
  BY <1>2, <1>9 DEF Reuse, BeginDocument, Clean, BeginSlice, SaveDocument, EndRun, Cancel, Die, RunFails, Off
<1>10. ASSUME NEW c \in Chunks, Extracted(c) \/ Store(c) \/ SaveChunk(c) PROVE KeyInv'
  BY <1>2, <1>10, ChunkSteps
<1> QED
  BY <1>1, <1>3, <1>4, <1>5, <1>6, <1>7, <1>8, <1>9, <1>10 DEF Next, Steps

-----------------------------------------------------------------------------
(* The checkpoints of windows *)

\* A window that no step makes look linked as a checkpoint says is so as it was.
LEMMA LinkLogKept ==
    ASSUME Sound, Held' \subseteq Held, unlinked \subseteq unlinked',
           \A k \in Held : \A d \in k.docs : (Failed(d))' => d \in unlinked' \/ Failed(d),
           \A w \in ToSet(Windows) : KeyOf(ToSet(w))' \in Held /\ unlinked' \cap ToSet(w) = {} /\ KeyOf(ToSet(w))' \in Held' =>
               /\ Facts(ToSet(w))' = Facts(ToSet(w))
               /\ \A p \in links : p \subseteq Facts(ToSet(w)) => p \in links'
    PROVE  LinkLogInv'
<1>l. LinkLogInv
  BY Parts
<1>1. ASSUME NEW k \in Held', NEW d \in k.docs, (Failed(d))' PROVE d \in unlinked'
  BY <1>1, <1>l DEF LinkLogInv
<1>2. ASSUME NEW w \in ToSet(Windows), KeyOf(ToSet(w))' \in Held', unlinked' \cap ToSet(w) = {}
      PROVE  Pairs(ToSet(w))' \subseteq links'
  <2>1. KeyOf(ToSet(w))' \in Held
    BY <1>2
  <2>2. Facts(ToSet(w))' = Facts(ToSet(w)) /\ \A p \in links : p \subseteq Facts(ToSet(w)) => p \in links'
    BY <1>2, <2>1
  <2>3. KeyOf(ToSet(w))' = KeyOf(ToSet(w)) /\ Pairs(ToSet(w))' = Pairs(ToSet(w))
    BY <2>2 DEF KeyOf, Pairs, Facts, Of, ToSet
  <2>4. Pairs(ToSet(w)) \subseteq links
    BY <1>2, <2>1, <2>3, <1>l DEF LinkLogInv, LinkedAll
  <2> QED BY <2>2, <2>3, <2>4, PairsOf
<1> QED BY <1>1, <1>2 DEF LinkLogInv, LinkedAll

LEMMA QuietLog ==
    ASSUME Sound, Held' \subseteq Held, UNCHANGED <<evidence, unlinked>>, links \subseteq links',
           \A d \in Docs : docLog'[d].status = docLog[d].status
    PROVE  LinkLogInv'
<1>1. \A k \in Held : k.docs \subseteq Docs
  BY Parts DEF KeyTypes, Held, Keys
<1>2. \A w : Facts(ToSet(w))' = Facts(ToSet(w))
  BY SameEvidence DEF Facts, Of, ToSet
<1> QED BY <1>1, <1>2, LinkLogKept DEF Failed

\* What happens to a document that no checkpoint calls linked, or that was rebuilt.
LEMMA DocumentLog ==
    ASSUME Sound, NEW d \in Docs, Held' = Held, unlinked \subseteq unlinked',
           \A k \in Held : d \in k.docs => d \in unlinked',
           \A e \in Docs : e # d => docLog'[e].status = docLog[e].status /\ evidence' \cap Of(e) = evidence \cap Of(e),
           \A p \in links : p \cap Of(d) = {} => p \in links'
    PROVE  LinkLogInv'
<1>1. \A k \in Held : k.docs \subseteq Docs
  BY Parts DEF KeyTypes, Held, Keys
<1>2. \A k \in Held : \A e \in k.docs : (Failed(e))' => e \in unlinked' \/ Failed(e)
  BY <1>1 DEF Failed
<1>3. ASSUME NEW w \in ToSet(Windows), KeyOf(ToSet(w))' \in Held, unlinked' \cap ToSet(w) = {}
      PROVE  /\ Facts(ToSet(w))' = Facts(ToSet(w))
             /\ \A p \in links : p \subseteq Facts(ToSet(w)) => p \in links'
  <2>1. KeyOf(ToSet(w))'.docs = ToSet(w)
    BY DEF KeyOf, ToSet
  <2>2. d \notin ToSet(w) /\ ToSet(w) \subseteq Docs
    BY <1>1, <1>3, <2>1
  <2>3. Facts(ToSet(w))' = Facts(ToSet(w))
    BY <2>2, SameFacts DEF Facts, Of, ToSet
  <2>4. \A p \in links : p \subseteq Facts(ToSet(w)) => p \in links'
    BY <2>2, OthersFacts
  <2> QED BY <2>3, <2>4
<1> QED BY <1>2, <1>3, LinkLogKept

LEMMA DeletedLog == ASSUME Sound, pc \in InDocument, Deleted(Doc), UNCHANGED <<linkLog, docLog>> PROVE LinkLogInv'
<1>1. Doc \in Docs
  BY AtPlace
<1>2. unlinked' = unlinked \cup {Doc} /\ evidence' = evidence \ Of(Doc) /\ \A p \in links : p \cap Of(Doc) = {} => p \in links'
  BY DEF Deleted, DeleteLinks
<1>3. \A e \in Docs : e # Doc => evidence' \cap Of(e) = evidence \cap Of(e)
  BY <1>1, <1>2, Constants
<1>4. Held' = Held
  BY DEF Held
<1> QED BY <1>1, <1>2, <1>3, <1>4, DocumentLog

\* While chunks are at work.
LEMMA BusyLog ==
    ASSUME Sound, pc = "chunks", UNCHANGED <<linkLog, links, unlinked>>,
           evidence \subseteq evidence', evidence' \subseteq evidence \cup Of(Doc),
           \A e \in Docs : e # Doc => docLog'[e].status = docLog[e].status
    PROVE  LinkLogInv'
<1>1. Doc \in Docs
  BY AtPlace DEF InDocument
<1>2. \A k \in Held : Doc \in k.docs => Doc \in unlinked
  BY Parts DEF LinkLogInv, RebuiltInv
<1>3. \A e \in Docs : e # Doc => evidence' \cap Of(e) = evidence \cap Of(e)
  BY <1>1, Constants
<1>4. Held' = Held
  BY DEF Held
<1> QED BY <1>1, <1>2, <1>3, <1>4, DocumentLog

\* A failed document loses its links.
LEMMA UnlinkLog == ASSUME Sound, pc = "unlink", DeleteLinks({Doc}), UNCHANGED <<linkLog, docLog, evidence, unlinked>> PROVE LinkLogInv'
<1>1. Doc \in Docs
  BY AtPlace DEF InDocument
<1>2. \A k \in Held : Doc \in k.docs => Doc \in unlinked
  BY Parts DEF LinkLogInv, PlanInv
<1>3. \A p \in links : p \cap Of(Doc) = {} => p \in links'
  BY DEF DeleteLinks
<1>4. Held' = Held
  BY DEF Held
<1> QED BY <1>1, <1>2, <1>3, <1>4, DocumentLog

\* A window at work shares documents with no other.
LEMMA AtOnly == ASSUME Sound, pc # "off", NEW w \in ToSet(Windows), NEW d \in ToSet(w), d \in At PROVE ToSet(w) = At
  BY Windowed, WindowsApart, Parts DEF At

LEMMA ClearedLog ==
    ASSUME Sound, pc = "relink", DeleteLinks(InWindow), Held' \subseteq Held, UNCHANGED <<docLog, evidence, unlinked>>
    PROVE  LinkLogInv'
<1>1. \A p \in links : (\A d \in InWindow : p \cap Of(d) = {}) => p \in links'
  BY DEF DeleteLinks
<1>2. ASSUME NEW w \in ToSet(Windows), KeyOf(ToSet(w))' \in Held, unlinked' \cap ToSet(w) = {}
      PROVE  /\ Facts(ToSet(w))' = Facts(ToSet(w))
             /\ \A p \in links : p \subseteq Facts(ToSet(w)) => p \in links'
  <2>1. Facts(ToSet(w))' = Facts(ToSet(w)) /\ KeyOf(ToSet(w))' = KeyOf(ToSet(w))
    BY SameEvidence DEF Facts, KeyOf, Of, ToSet
  <2>2. ToSet(w) \subseteq Docs
    BY <1>2, Parts DEF KeyTypes, Held, Keys, KeyOf
  <2>3. CASE InWindow \cap ToSet(w) = {}
    <3>1. \A d \in InWindow : d \in Docs /\ d \notin ToSet(w)
      BY <2>3, WindowKey
    <3> QED BY <2>1, <2>2, <3>1, <1>1, OthersFacts
  <2>4. CASE InWindow \cap ToSet(w) # {}
    <3>1. InWindow \subseteq At /\ ToSet(w) = At
      BY <2>4, AtOnly, Parts DEF WindowInv
    <3>2. KeyOf(At) \in Held /\ unlinked \cap At = {}
      BY <1>2, <2>1, <3>1
    <3>3. KeyOf(At).docs = At
      BY DEF KeyOf
    <3>4. ~Spoiled
      BY <3>2, <3>3, Parts DEF LinkLogInv, Spoiled
    <3>5. InWindow = At
      BY <3>4, Parts DEF PlanInv, Linking
    <3>6. key = KeyOf(At) /\ (~relink => LinkStatus(key) # "completed")
      BY <3>5, Parts DEF KeyInv
    <3>7. relink
      BY <3>2, <3>6 DEF LinkStatus, Held
    <3> QED BY <3>2, <3>7, Parts DEF RebuiltInv, Linking
  <2> QED BY <2>3, <2>4
<1>3. \A k \in Held : \A d \in k.docs : (Failed(d))' => d \in unlinked' \/ Failed(d)
  BY DEF Failed
<1> QED BY <1>2, <1>3, LinkLogKept

\* A window is saved as linked.
LEMMA SavedLog ==
    ASSUME Sound, pc \in {"relink", "save"}, Held' = Held \cup {key}, unlinked' = unlinked \ InWindow,
           UNCHANGED <<docLog, evidence>>, Pairs(InWindow) \subseteq links',
           \A p \in links : (\A d \in InWindow : p \cap Of(d) = {}) => p \in links'
    PROVE  LinkLogInv'
<1>0. key = KeyOf(InWindow) /\ key.docs = InWindow /\ InWindow \subseteq Docs
  BY WindowKey, Parts DEF KeyInv
<1>1. \A d \in InWindow : ~Failed(d)
  BY Parts DEF LinksInv, Failed
<1>2. ASSUME NEW k \in Held', NEW d \in k.docs PROVE d \in unlinked' \/ ~(Failed(d))'
  BY <1>0, <1>1, Parts DEF LinkLogInv, Failed
<1>3. ASSUME NEW w \in ToSet(Windows), KeyOf(ToSet(w))' \in Held'
      PROVE  unlinked' \cap ToSet(w) # {} \/ Pairs(ToSet(w))' \subseteq links'
  <2>1. KeyOf(ToSet(w))' = KeyOf(ToSet(w)) /\ Pairs(ToSet(w))' = Pairs(ToSet(w))
    BY SameEvidence DEF Facts, KeyOf, Pairs, Of, ToSet
  <2>2. KeyOf(ToSet(w)).docs = ToSet(w)
    BY DEF KeyOf
  <2>3. linkable # <<>> /\ linkable \in Seq(Docs) /\ (InWindow = At \/ Spoiled)
    BY Parts DEF PlanInv, Linking, TypeInv, RunTypes
  <2>4. InWindow # {}
    BY <2>3, TailSet DEF InWindow
  <2>5. CASE InWindow \cap ToSet(w) = {}
    <3>1. KeyOf(ToSet(w)) \in Held
      BY <1>0, <1>3, <2>1, <2>2, <2>4, <2>5
    <3>2. ToSet(w) \subseteq Docs
      BY <3>1, <2>2, Parts DEF KeyTypes, Held, Keys
    <3>3. unlinked \cap ToSet(w) # {} \/ Pairs(ToSet(w)) \subseteq links
      BY <3>1, Parts DEF LinkLogInv, LinkedAll
    <3>4. \A d \in InWindow : d \in Docs /\ d \notin ToSet(w)
      BY <2>5, <1>0
    <3>5. \A p \in links : p \subseteq Facts(ToSet(w)) => p \in links'
      BY <3>2, <3>4, OthersFacts
    <3> QED BY <2>1, <2>5, <3>3, <3>5, PairsOf
  <2>6. CASE InWindow \cap ToSet(w) # {}
    <3>1. ToSet(w) = At
      BY <2>6, AtOnly, Parts DEF WindowInv
    <3>2. CASE InWindow = At
      BY <2>1, <3>1, <3>2
    <3>3. CASE Spoiled
      <4>1. PICK d \in At : Failed(d)
        BY <3>3 DEF Spoiled
      <4>2. d \notin InWindow
        BY <1>1, <4>1
      <4>3. KeyOf(At) \in Held
        BY <1>0, <1>3, <2>1, <2>2, <3>1, <4>1, <4>2
      <4>4. d \in unlinked
        BY <2>2, <3>1, <4>1, <4>3, Parts DEF LinkLogInv
      <4> QED BY <3>1, <4>1, <4>2, <4>4
    <3> QED BY <2>3, <3>2, <3>3
  <2> QED BY <2>5, <2>6
<1> QED BY <1>2, <1>3 DEF LinkLogInv, LinkedAll

\* The documents of a linked window are marked one after the other.
LEMMA MarkedLog ==
    ASSUME Sound, LinkingState, pc = "linked", relink PROVE LinkLogInv'
<1> DEFINE d == Head(linkable)
<1>1. linkable \in Seq(Docs) /\ linkable # <<>> /\ d \in Docs /\ d \in InWindow
  BY TailSet, Parts DEF LinkingState, TypeInv, RunTypes, InWindow
<1>2. /\ docLog' = [docLog EXCEPT ![d] = [docLog[d] EXCEPT !.linked = TRUE, !.barred = FALSE]]
      /\ unlinked' = unlinked \ {d} /\ UNCHANGED <<evidence, links, linkLog>>
  BY DEF LinkingState, Checkpoint, graph
<1>3. \A e \in Docs : docLog'[e].status = docLog[e].status
  BY <1>1, <1>2, Parts DEF TypeInv, LogTypes
<1>4. ~Failed(d) /\ d \in At
  BY <1>1, Parts DEF LinksInv, Failed, WindowInv
<1> HIDE DEF d
<1>5. Held' = Held /\ \A k \in Held : k.docs \subseteq Docs
  BY <1>2, Parts DEF Held, KeyTypes, Keys
<1>6. ASSUME NEW k \in Held', NEW e \in k.docs PROVE e \in unlinked' \/ ~(Failed(e))'
  BY <1>2, <1>3, <1>4, <1>5, Parts DEF LinkLogInv, Failed
<1>7. ASSUME NEW w \in ToSet(Windows), KeyOf(ToSet(w))' \in Held'
      PROVE  unlinked' \cap ToSet(w) # {} \/ Pairs(ToSet(w))' \subseteq links'
  <2>1. KeyOf(ToSet(w))' = KeyOf(ToSet(w)) /\ Pairs(ToSet(w))' = Pairs(ToSet(w))
    BY <1>2, SameEvidence DEF Facts, KeyOf, Pairs, Of, ToSet
  <2>2. unlinked \cap ToSet(w) # {} \/ Pairs(ToSet(w)) \subseteq links
    BY <1>5, <1>7, <2>1, Parts DEF LinkLogInv, LinkedAll
  <2>3. CASE d \notin ToSet(w)
    BY <1>2, <2>1, <2>2, <2>3
  <2>4. CASE d \in ToSet(w)
    <3>1. ToSet(w) = At
      BY <1>4, <2>4, AtOnly
    <3>2. Spoiled \/ Pairs(At) \subseteq links
      BY Parts DEF KeyInv
    <3>3. CASE Spoiled
      <4>1. PICK e \in At : Failed(e)
        BY <3>3 DEF Spoiled
      <4>2. KeyOf(At) \in Held /\ KeyOf(At).docs = At
        BY <1>5, <1>7, <2>1, <3>1 DEF KeyOf
      <4>3. e \in unlinked /\ e # d
        BY <1>4, <4>1, <4>2, Parts DEF LinkLogInv
      <4> QED BY <1>2, <3>1, <4>1, <4>3
    <3> QED BY <1>2, <2>1, <3>1, <3>2, <3>3
  <2> QED BY <2>3, <2>4
<1> QED BY <1>6, <1>7 DEF LinkLogInv, LinkedAll

\* The chunk that is at work is one of the document's.
LEMMA WorkOfDoc == ASSUME Sound, pc = "chunks", NEW c \in Chunks, task[c] # "idle" PROVE c \in Of(Doc)
  BY Parts DEF ControlInv, Active

\* A call that was under way when the run was cancelled or died.
LEMMA InFlightLog ==
    ASSUME Sound, InFlight, UNCHANGED linkLog,
           pc # "chunks" => UNCHANGED docLog, pc = "chunks" => \A e \in Docs : e # Doc => docLog'[e] = docLog[e]
    PROVE  LinkLogInv'
<1>h. Held' = Held
  BY DEF Held
<1>1. CASE pc = "chunks"
  <2>1. PICK cs \in SUBSET {c \in Chunks : task[c] = "storing"} : evidence' = evidence \cup cs
    BY <1>1 DEF InFlight
  <2>2. cs \subseteq Of(Doc)
    BY <1>1, <2>1, WorkOfDoc
  <2>3. UNCHANGED <<links, unlinked>>
    BY <1>1 DEF InFlight, history
  <2> QED BY <1>1, <2>1, <2>2, <2>3, BusyLog
<1>2. CASE pc = "clean" /\ Deleted(Doc)
  BY <1>2, DeletedLog DEF InDocument
<1>3. CASE pc = "unlink" /\ DeleteLinks({Doc}) /\ UNCHANGED <<evidence, history>>
  BY <1>3, UnlinkLog DEF history
<1>4. CASE pc = "relink" /\ DeleteLinks(InWindow) /\ UNCHANGED <<evidence, history>>
  BY <1>4, <1>h, ClearedLog DEF history
<1>5. CASE pc # "chunks" /\ UNCHANGED <<evidence, history>> /\ links \subseteq links'
  BY <1>5, <1>h, QuietLog DEF history
<1> QED BY <1>1, <1>2, <1>3, <1>4, <1>5 DEF InFlight, Untouched, graph

LEMMA LinkLogNext == Sound /\ [Next]_vars => LinkLogInv'
<1> SUFFICES ASSUME Sound, [Next]_vars PROVE LinkLogInv'
  OBVIOUS
<1>t. docLog \in [Docs -> [status: {"none", "completed", "failed", "provider_blocked", "cancelled"},
                           linked: BOOLEAN, barred: BOOLEAN]]
  BY Parts DEF TypeInv, LogTypes
<1>1. CASE UNCHANGED <<linkLog, docLog, evidence, links, unlinked>>
  BY <1>1, QuietLog DEF Held
<1>2. CASE UNCHANGED vars \/ StartRun \/ Reuse \/ BeginSlice \/ EndWindow \/ EndRun \/ BeginDocument
  BY <1>1, <1>2 DEF vars, StartRun, Reuse, BeginSlice, EndWindow, EndRun, BeginDocument, logs, graph, history, Untouched
<1>3. CASE Clean
  <2>1. UNCHANGED <<docLog, linkLog>> /\ pc \in InDocument /\ (Deleted(Doc) \/ Untouched)
    BY <1>3 DEF Clean, InDocument
  <2> QED BY <2>1, <1>1, DeletedLog DEF Untouched, graph, history
<1>4. ASSUME NEW c \in Chunks, Extracted(c) \/ Store(c) \/ SaveChunk(c) PROVE LinkLogInv'
  <2>1. pc = "chunks" /\ UNCHANGED <<docLog, linkLog, links, unlinked>>
    BY <1>4, ChunkSteps
  <2>2. CASE Extracted(c) \/ SaveChunk(c)
    BY <2>1, <2>2, <1>1 DEF Extracted, SaveChunk, graph
  <2>3. CASE Store(c)
    <3>1. evidence' \in {evidence, evidence \cup {c}} /\ task[c] # "idle"
      BY <2>3 DEF Store
    <3>2. c \in Of(Doc)
      BY <2>1, <3>1, WorkOfDoc
    <3> QED BY <2>1, <3>1, <3>2, BusyLog
  <2> QED BY <1>4, <2>2, <2>3
<1>5. CASE SaveDocument
  <2>1. /\ pc = "chunks" /\ UNCHANGED <<linkLog, evidence, links, unlinked>>
        /\ docLog' = [docLog EXCEPT ![Doc] = [status |-> DocumentStatus, linked |-> FALSE, barred |-> FALSE]]
    BY <1>5 DEF SaveDocument, graph, Checkpoint
  <2>2. \A e \in Docs : e # Doc => docLog'[e] = docLog[e]
    BY <2>1, <1>t
  <2> QED BY <2>1, <2>2, BusyLog
<1>6. CASE Conclude
  <2>1. pc \in InDocument /\ UNCHANGED <<linkLog, evidence, links, unlinked>>
    BY <1>6 DEF Conclude, graph, history, InDocument
  <2>2. Doc \in Docs
    BY <2>1, AtPlace
  <2>3. docLog' = docLog \/ docLog' = [docLog EXCEPT ![Doc] = [docLog[Doc] EXCEPT !.linked = FALSE, !.barred = TRUE]]
    BY <1>6 DEF Conclude, Checkpoint
  <2>4. \A d \in Docs : docLog'[d].status = docLog[d].status
    <3>1. [docLog[Doc] EXCEPT !.linked = FALSE, !.barred = TRUE].status = docLog[Doc].status
      BY <2>2, <1>t
    <3>2. \A d \in Docs : docLog'[d] \in {docLog[d], [docLog[Doc] EXCEPT !.linked = FALSE, !.barred = TRUE]}
                           /\ (d # Doc => docLog'[d] = docLog[d])
      BY <2>2, <2>3, <1>t
    <3> QED BY <3>1, <3>2
  <2> QED BY <2>1, <2>4, QuietLog DEF Held
<1>7. CASE Unlink
  <2>1. pc = "unlink" /\ UNCHANGED <<linkLog, docLog, evidence, unlinked>> /\ (DeleteLinks({Doc}) \/ UNCHANGED links)
    BY <1>7 DEF Unlink, history
  <2> QED BY <2>1, <1>1, UnlinkLog
<1>8. CASE Link
  <2>1. Held' \subseteq Held /\ UNCHANGED <<docLog, evidence, links, unlinked>>
    BY <1>8, LinkLists DEF Link, Untouched, graph, history
  <2> QED BY <2>1, QuietLog
<1>9. CASE ClearWindow
  <2>1. pc = "relink" /\ UNCHANGED <<docLog, evidence>>
    BY <1>9 DEF ClearWindow
  <2>k. key = KeyOf(InWindow) /\ key \in Keys /\ key.docs = InWindow /\ key.facts = Facts(InWindow) /\ mem.keys \in SUBSET Keys
    BY <2>1, WindowKey, Parts DEF KeyInv, KeyTypes, Lists
  <2>2. CASE LinkFails(key, mem.keys) /\ (DeleteLinks(InWindow) \/ UNCHANGED links) /\ UNCHANGED unlinked
    <3>1. Held' \subseteq Held
      BY <2>k, <2>2, FailedLinking, Parts
    <3> QED BY <2>1, <2>2, <3>1, ClearedLog, QuietLog
  <2>3. CASE DeleteLinks(InWindow) /\ SaveLink(key, "cancelled") /\ UNCHANGED unlinked
    <3>1. SaveLink(key, "cancelled") /\ "cancelled" # "completed"
      BY <2>3
    <3>2. Held' = Held \ {key}
      BY <3>1, Saved
    <3> QED BY <2>1, <2>3, <3>2, ClearedLog
  <2>4. CASE DeleteLinks(InWindow) /\ Cardinality(key.facts) < 2 /\ SaveLink(key, "completed") /\ unlinked' = unlinked \ InWindow
    <3>1. Held' = Held \cup {key}
      BY <2>4, Saved
    <3>2. Pairs(InWindow) = {}
      BY <2>k, <2>4, FewFacts, Parts
    <3>3. \A p \in links : (\A d \in InWindow : p \cap Of(d) = {}) => p \in links'
      BY <2>4 DEF DeleteLinks
    <3> QED BY <2>1, <2>4, <3>1, <3>2, <3>3, SavedLog
  <2> QED BY <1>9, <2>2, <2>3, <2>4 DEF ClearWindow
<1>10. CASE LinkEntities
  <2>1. pc = "linking" /\ UNCHANGED <<docLog, evidence, unlinked>> /\ links \subseteq links'
        /\ (UNCHANGED linkLog \/ LinkFails(key, mem.keys))
    BY <1>10 DEF LinkEntities, history
  <2>k. key \in Keys /\ mem.keys \in SUBSET Keys
    BY <2>1, WindowKey, Parts DEF KeyInv, KeyTypes, Lists
  <2>2. Held' \subseteq Held
    BY <2>1, <2>k, FailedLinking, Parts DEF Held
  <2> QED BY <2>1, <2>2, QuietLog
<1>11. CASE SaveWindow
  <2>1. pc = "save" /\ SaveLink(key, "completed") /\ unlinked' = unlinked \ InWindow /\ UNCHANGED <<docLog, evidence, links>>
    BY <1>11 DEF SaveWindow, graph
  <2>2. Held' = Held \cup {key}
    BY <2>1, Saved
  <2>3. Pairs(InWindow) \subseteq links
    BY <2>1, Parts DEF KeyInv
  <2> QED BY <2>1, <2>2, <2>3, SavedLog
<1>12. CASE LinkingState
  <2>1. CASE pc = "linked" /\ relink
    BY <1>12, <2>1, MarkedLog
  <2>2. CASE ~(pc = "linked" /\ relink)
    <3>1. UNCHANGED <<linkLog, evidence, links, unlinked>>
      BY <1>12, <2>2 DEF LinkingState, graph
    <3>2. PICK r \in BOOLEAN, s \in BOOLEAN : docLog' = [docLog EXCEPT ![Head(linkable)] =
                                   [docLog[Head(linkable)] EXCEPT !.linked = r, !.barred = s]]
      BY <1>12 DEF LinkingState, Checkpoint
    <3>3. Head(linkable) \in Docs
      BY <1>12, TailSet, Parts DEF LinkingState, TypeInv, RunTypes
    <3>4. \A d \in Docs : docLog'[d].status = docLog[d].status
      BY <3>2, <3>3, <1>t
    <3> QED BY <3>1, <3>4, QuietLog DEF Held
  <2> QED BY <2>1, <2>2
<1>13. CASE Cancel \/ Die
  <2>1. InFlight /\ UNCHANGED linkLog /\ (pc # "chunks" => UNCHANGED docLog)
    BY <1>13 DEF Cancel, Die, logs
  <2>2. pc = "chunks" => \A e \in Docs : e # Doc => docLog'[e] = docLog[e]
    <3> SUFFICES ASSUME pc = "chunks" PROVE \A e \in Docs : e # Doc => docLog'[e] = docLog[e]
      OBVIOUS
    <3>1. docLog' = docLog \/ docLog' = [docLog EXCEPT ![Doc] = [status |-> "cancelled", linked |-> FALSE, barred |-> TRUE]]
      BY <1>13 DEF Cancel, Die, logs, Checkpoint
    <3> QED BY <3>1, <1>t
  <2> QED BY <2>1, <2>2, InFlightLog
<1> QED
  BY <1>2, <1>3, <1>4, <1>5, <1>6, <1>7, <1>8, <1>9, <1>10, <1>11, <1>12, <1>13 DEF Next, Steps

-----------------------------------------------------------------------------
(* The windows that are through *)

\* Links are made of the documents of the window.
LEMMA NewLinks ==
    ASSUME Sound, [Next]_vars PROVE \A p \in links' : p \in links \/ (pc # "off" /\ p \subseteq Facts(InWindow))
<1>1. CASE links' = links
  BY <1>1
<1>2. CASE \E ds : DeleteLinks(ds)
  BY <1>2, GraphCalls
<1>3. CASE links' = links \cup Pairs(InWindow) /\ pc = "linking"
  BY <1>3, PairsOf
<1>4. CASE UNCHANGED vars \/ StartRun \/ Reuse \/ BeginDocument \/ BeginSlice
  BY <1>1, <1>4 DEF vars, StartRun, Reuse, BeginDocument, BeginSlice, graph, Untouched
<1>5. CASE Clean \/ Unlink \/ ClearWindow \/ LinkEntities
  BY <1>1, <1>2, <1>3, <1>5 DEF Clean, Unlink, ClearWindow, LinkEntities, Deleted, Untouched, graph
<1>6. CASE \E c \in Chunks : Extracted(c) \/ Store(c) \/ SaveChunk(c)
  BY <1>1, <1>6 DEF Extracted, Store, SaveChunk, graph
<1>7. CASE SaveDocument \/ Conclude \/ Link \/ SaveWindow \/ LinkingState \/ EndWindow \/ EndRun
  BY <1>1, <1>7 DEF SaveDocument, Conclude, Link, SaveWindow, LinkingState, EndWindow, EndRun, graph, Untouched
<1>8. CASE Cancel \/ Die
  <2>1. InFlight
    BY <1>8 DEF Cancel, Die
  <2> QED BY <2>1, <1>1, <1>2, <1>3 DEF InFlight, Deleted, Untouched, graph
<1> QED
  BY <1>4, <1>5, <1>6, <1>7, <1>8 DEF Next, Steps

LEMMA WithinNext == Sound /\ [Next]_vars => WithinInv'
<1> SUFFICES ASSUME Sound, [Next]_vars, NEW p \in links'
             PROVE  \E w \in ToSet(Windows) : p \subseteq UNION {Of(d) : d \in ToSet(w)}
  BY DEF WithinInv, Of, ToSet
<1>1. CASE p \in links
  BY <1>1, Parts DEF WithinInv
<1>2. CASE pc # "off" /\ p \subseteq Facts(InWindow)
  <2>1. Cur \in ToSet(Windows) /\ InWindow \subseteq ToSet(Cur)
    BY <1>2, Windowed, Parts DEF WindowInv, At
  <2> QED BY <1>2, <2>1 DEF Facts
<1> QED BY <1>1, <1>2, NewLinks

\* What a step within a window leaves alone: the other windows.
Confined ==
    /\ \A d \in Docs \ At : docLog'[d] = docLog[d] /\ evidence' \cap Of(d) = evidence \cap Of(d)
    /\ \A d \in Docs \ At : d \in unlinked <=> d \in unlinked'
    /\ \A p \in links : (\A d \in At : p \cap Of(d) = {}) => p \in links'
    /\ mem.docs \ At \subseteq mem'.docs
    /\ \A k \in mem.keys : k.docs # {} /\ k.docs \cap At = {} => k \in mem'.keys

LEMMA FineElsewhere ==
    ASSUME Sound, Confined, NEW v \in SUBSET Docs, v \cap At = {}, pc # "off", Fine(v) \/ Noted(v)
    PROVE  Fine(v)' \/ Noted(v)'
<1>1. CASE Noted(v)
  BY <1>1 DEF Noted, Confined
<1>2. CASE Fine(v)
  <2>1. \A d \in v : ~(Failed(d))' /\ docLog'[d].linked
    BY <1>2 DEF Fine, Confined, Failed
  <2>2. Facts(v)' = Facts(v)
    BY SameFacts DEF Confined
  <2>3. Pairs(v)' = Pairs(v)
    BY <2>2 DEF Pairs, Facts, Of
  <2>4. \A d \in At : d \in Docs /\ d \notin v
    BY Windowed, Parts
  <2>5. \A p \in Pairs(v) : p \in links => p \in links'
    BY <2>4, OthersFacts, PairsOf DEF Confined
  <2>6. LinkedAll(v)'
    BY <1>2, <2>3, <2>5 DEF Fine, LinkedAll, Confined
  <2> QED BY <2>1, <2>6 DEF Fine
<1> QED BY <1>1, <1>2

\* A step that concerns one document of the window, or none.
LEMMA OfOne ==
    ASSUME Sound, NEW d \in At, pc # "off", \A e \in Docs : e # d => docLog'[e] = docLog[e] /\ evidence' \cap Of(e) = evidence \cap Of(e),
           \A e \in Docs : e # d => (e \in unlinked <=> e \in unlinked'),
           \A p \in links : p \cap Of(d) = {} => p \in links',
           mem.docs \ {d} \subseteq mem'.docs, mem.keys \subseteq mem'.keys
    PROVE  Confined
  BY DEF Confined

LEMMA StepsConfined ==
    ASSUME Sound, Next, ~StartRun, ~EndWindow
    PROVE  Off \/ Confined
<1>p. pc # "off"
  BY OnlyStarts
<1>a. At \subseteq Docs /\ InWindow \subseteq At
  BY <1>p, Windowed, Parts DEF WindowInv
<1>t. docLog \in [Docs -> [status: {"none", "completed", "failed", "provider_blocked", "cancelled"},
                           linked: BOOLEAN, barred: BOOLEAN]]
  BY Parts DEF TypeInv, LogTypes
<1>m. mem \in Lists
  BY Parts DEF KeyTypes
<1>1. CASE UNCHANGED <<docLog, evidence, links, unlinked, mem>>
  BY <1>1 DEF Confined
<1>2. CASE Reuse \/ BeginSlice
  BY <1>1, <1>2 DEF Reuse, BeginSlice, logs, graph, history
<1>3. CASE BeginDocument \/ Clean \/ Unlink
  <2>1. CASE RunFails
    BY <2>1 DEF RunFails
  <2>2. CASE ~RunFails
    <3>1. pc \in InDocument /\ UNCHANGED <<docLog, mem>>
      BY <1>3, <2>2 DEF BeginDocument, Clean, Unlink, InDocument
    <3>2. Doc \in At /\ Doc \in Docs
      BY <3>1, AtPlace
    <3>3. CASE BeginDocument
      BY <3>1, <3>3, <1>1 DEF BeginDocument, Untouched, graph, history
    <3>4. CASE Clean
      <4>1. evidence' = evidence \ Of(Doc) /\ unlinked' = unlinked \cup {Doc} /\ DeleteLinks({Doc})
        BY <3>4, <2>2 DEF Clean, Deleted
      <4>2. \A e \in Docs : e # Doc => evidence' \cap Of(e) = evidence \cap Of(e)
        BY <3>2, <4>1, Constants
      <4> QED BY <3>1, <3>2, <4>1, <4>2, <1>p, OfOne DEF DeleteLinks
    <3>5. CASE Unlink
      <4>1. DeleteLinks({Doc}) /\ UNCHANGED <<evidence, unlinked>>
        BY <3>5, <2>2 DEF Unlink, history
      <4> QED BY <3>1, <3>2, <4>1, <1>p, OfOne DEF DeleteLinks
    <3> QED BY <1>3, <3>3, <3>4, <3>5
  <2> QED BY <2>1, <2>2
<1>4. ASSUME NEW c \in Chunks, Extracted(c) \/ Store(c) \/ SaveChunk(c) PROVE Confined
  <2>1. pc = "chunks" /\ UNCHANGED <<docLog, links, unlinked, mem>>
    BY <1>4, ChunkSteps
  <2>2. task[c] # "idle" /\ evidence' \in {evidence, evidence \cup {c}}
    BY <1>4 DEF Extracted, Store, SaveChunk, graph
  <2>3. c \in Of(Doc) /\ Doc \in At /\ Doc \in Docs
    BY <2>1, <2>2, WorkOfDoc, AtPlace DEF InDocument
  <2>4. \A e \in Docs : e # Doc => evidence' \cap Of(e) = evidence \cap Of(e)
    BY <2>2, <2>3, Constants
  <2> QED BY <2>1, <2>3, <2>4, <1>p, OfOne
<1>5. CASE SaveDocument
  <2>1. /\ pc = "chunks" /\ UNCHANGED <<mem, evidence, links, unlinked>>
        /\ docLog' = [docLog EXCEPT ![Doc] = [status |-> DocumentStatus, linked |-> FALSE, barred |-> FALSE]]
    BY <1>5 DEF SaveDocument, graph, Checkpoint
  <2>2. Doc \in At /\ \A e \in Docs : e # Doc => docLog'[e] = docLog[e]
    BY <2>1, <1>t, AtPlace DEF InDocument
  <2> QED BY <2>1, <2>2, <1>p, OfOne
<1>6. CASE Conclude
  <2>1. pc \in InDocument /\ UNCHANGED <<evidence, links, unlinked>>
    BY <1>6 DEF Conclude, graph, history, InDocument
  <2>2. docLog' = docLog \/ docLog' = [docLog EXCEPT ![Doc] = [docLog[Doc] EXCEPT !.linked = FALSE, !.barred = TRUE]]
    BY <1>6 DEF Conclude, Checkpoint
  <2>3. Doc \in At /\ \A e \in Docs : e # Doc => docLog'[e] = docLog[e]
    BY <2>1, <2>2, <1>t, AtPlace
  <2>4. mem.docs \ {Doc} \subseteq mem'.docs /\ mem'.keys = mem.keys
    BY <1>6, ConcludeLists
  <2> QED BY <2>1, <2>3, <2>4, <1>p, OfOne
<1>7. CASE Link \/ ClearWindow \/ LinkEntities \/ SaveWindow
  <2>1. UNCHANGED <<docLog, evidence>> /\ pc \in Linking
    BY <1>7 DEF Link, ClearWindow, LinkEntities, SaveWindow, Untouched, graph, Linking
  <2>2. \A p \in links : (\A d \in InWindow : p \cap Of(d) = {}) => p \in links'
    BY <1>7 DEF Link, ClearWindow, LinkEntities, SaveWindow, Untouched, graph, DeleteLinks
  <2>3. unlinked' = unlinked \/ unlinked' = unlinked \ InWindow
    BY <1>7 DEF Link, ClearWindow, LinkEntities, SaveWindow, Untouched, history
  <2>w. InWindow # {}
    <3>1. linkable # <<>> /\ linkable \in Seq(Docs)
      BY <2>1, Parts DEF PlanInv, TypeInv, RunTypes
    <3> QED BY <3>1, TailSet DEF InWindow
  <2>4. mem'.docs = mem.docs /\ \A k \in mem.keys : k.docs # InWindow => k \in mem'.keys
    <3>1. CASE Link
      BY <3>1, LinkLists DEF Stale
    <3>2. CASE ClearWindow \/ LinkEntities
      <4>1. key \in Keys /\ mem.keys \in SUBSET Keys
        BY <3>2, WindowKey, Parts DEF ClearWindow, LinkEntities, KeyInv, KeyTypes, Lists
      <4>2. mem' = mem \/ LinkFails(key, mem.keys)
        BY <3>2 DEF ClearWindow, LinkEntities
      <4>3. LinkFails(key, mem.keys) => mem'.docs = mem.docs /\ mem'.keys = mem.keys \cup {key}
        BY <4>1, FailedLinking, Parts
      <4> QED BY <4>2, <4>3
    <3>3. CASE SaveWindow
      <4>1. mem' = [mem EXCEPT !.keys = mem.keys \ {key}] /\ key.docs = InWindow
        BY <3>3, WindowKey, Parts DEF SaveWindow, KeyInv
      <4>2. mem'.docs = mem.docs /\ mem'.keys = mem.keys \ {key}
        BY <4>1, <1>m DEF Lists
      <4> QED BY <4>1, <4>2
    <3> QED BY <1>7, <3>1, <3>2, <3>3
  <2>5. \A k \in mem.keys : k.docs # {} /\ k.docs \cap At = {} => k \in mem'.keys
    BY <2>4, <2>w, <1>a
  <2> QED BY <2>1, <2>2, <2>3, <2>4, <2>5, <1>a DEF Confined
<1>8. CASE LinkingState
  <2>1. linkable \in Seq(Docs) /\ linkable # <<>> /\ UNCHANGED <<mem, evidence, links>>
    BY <1>8, Parts DEF LinkingState, TypeInv, RunTypes, graph
  <2>2. Head(linkable) \in Docs /\ Head(linkable) \in At
    BY <2>1, <1>a, TailSet DEF InWindow
  <2>3. PICK r \in BOOLEAN, s \in BOOLEAN : docLog' = [docLog EXCEPT ![Head(linkable)] =
                                 [docLog[Head(linkable)] EXCEPT !.linked = r, !.barred = s]]
    BY <1>8 DEF LinkingState, Checkpoint
  <2>4. \A e \in Docs : e # Head(linkable) => docLog'[e] = docLog[e]
    BY <2>3, <1>t
  <2>5. unlinked' = unlinked \/ unlinked' = unlinked \ {Head(linkable)}
    BY <1>8 DEF LinkingState
  <2> QED BY <2>1, <2>2, <2>4, <2>5, <1>p, OfOne
<1>9. EndRun \/ Cancel \/ Die => Off
  BY DEF EndRun, Cancel, Die
<1> QED
  BY <1>2, <1>3, <1>4, <1>5, <1>6, <1>7, <1>8, <1>9 DEF Next, Steps


\* A window that gets through was linked, or something of it is listed.
LEMMA WindowThrough ==
    ASSUME Sound, Next, pc' = "flagged" PROVE Fine(At)' \/ Noted(At)'
<1>1. Unlink \/ LinkingState
  <2>1. ~(StartRun \/ Reuse \/ BeginDocument \/ Clean \/ SaveDocument \/ EndWindow \/ EndRun \/ Cancel \/ Die)
    BY DEF StartRun, Reuse, BeginDocument, Clean, SaveDocument, EndWindow, EndRun, Cancel, Die, RunFails, Off
  <2>2. ~BeginSlice /\ ~\E c \in Chunks : Extracted(c) \/ Store(c) \/ SaveChunk(c)
    BY ChunkSteps DEF BeginSlice
  <2>3. ~(Link \/ ClearWindow \/ LinkEntities \/ SaveWindow)
    BY LinkLists DEF ClearWindow, LinkEntities, SaveWindow, LinkFails
  <2>4. ~Conclude
    <3> SUFFICES ASSUME Conclude PROVE FALSE
      OBVIOUS
    <3>1. linkable' = Append(linkable, Doc) /\ Advance(linkable')
      BY DEF Conclude
    <3>2. linkable \in Seq(Docs) /\ Doc \in Docs
      BY AtPlace, Parts DEF Conclude, InDocument, TypeInv, RunTypes
    <3>3. linkable' # <<>>
      BY <3>1, <3>2
    <3> QED BY <3>1, <3>3 DEF Advance
  <2> QED BY <2>1, <2>2, <2>3, <2>4 DEF Next, Steps
<1>2. CASE Unlink
  <2>1. pc = "unlink" /\ UNCHANGED <<mem, rest>>
    BY <1>2 DEF Unlink, RunFails, Off
  <2>2. Doc \in At /\ Doc \in mem.docs /\ At' = At
    BY <2>1, AtPlace, SameWindow, Parts DEF InDocument, PlanInv
  <2> QED BY <2>1, <2>2 DEF Noted
<1>3. CASE LinkingState
  <2>1. pc \in {"linked", "barred"} /\ UNCHANGED <<mem, rest>> /\ linkable' = <<>>
    BY <1>3 DEF LinkingState
  <2>2. At' = At
    BY <2>1, SameWindow
  <2>3. CASE pc = "barred"
    BY <2>1, <2>2, <2>3, Parts DEF KeyInv, Noted
  <2>4. CASE pc = "linked"
    <3>1. LinkedInv' /\ InWindow' = {}
      BY <1>3, <2>1, <2>4, LinkedStep DEF InWindow, ToSet
    <3> QED BY <3>1 DEF LinkedInv, Spoiled, Fine, Noted, LinkedAll
  <2> QED BY <2>1, <2>3, <2>4
<1> QED BY <1>1, <1>2, <1>3

\* Only the end of a window ends a run, or lets its place among the windows change.
LEMMA PlaceKept ==
    ASSUME Sound, Next, ~StartRun, ~EndWindow, ~Off
    PROVE  rest' = rest /\ pc' # "end" /\ (pc' = "flagged" => pc # "flagged")
<1>1. rest' = rest
  BY StaysWithin DEF Within
<1>2. pc' # "end"
  <2>1. CASE Reuse \/ BeginDocument \/ Clean \/ BeginSlice \/ SaveDocument \/ Conclude \/ Unlink
    BY <2>1 DEF Reuse, BeginDocument, Clean, BeginSlice, SaveDocument, Conclude, Unlink, Advance, RunFails
  <2>2. CASE \E c \in Chunks : Extracted(c) \/ Store(c) \/ SaveChunk(c)
    BY <2>2, ChunkSteps
  <2>3. CASE Link \/ ClearWindow \/ LinkEntities \/ SaveWindow \/ LinkingState
    BY <2>3, LinkLists DEF ClearWindow, LinkEntities, SaveWindow, LinkFails, LinkingState
  <2> QED BY <2>1, <2>2, <2>3 DEF Next, Steps, EndRun, Cancel, Die
<1>3. pc' = "flagged" => pc # "flagged"
  <2>1. pc = "flagged" => ~Reuse /\ ~BeginDocument /\ ~Clean /\ ~BeginSlice /\ ~SaveDocument /\ ~Conclude /\ ~Unlink
        /\ ~Link /\ ~ClearWindow /\ ~LinkEntities /\ ~SaveWindow /\ ~LinkingState
    BY DEF Reuse, BeginDocument, Clean, BeginSlice, SaveDocument, Conclude, Unlink, Link, ClearWindow, LinkEntities, SaveWindow, LinkingState
  <2>2. pc = "flagged" => ~\E c \in Chunks : Extracted(c) \/ Store(c) \/ SaveChunk(c)
    BY ChunkSteps
  <2> QED BY <2>1, <2>2 DEF Next, Steps, EndRun, Cancel, Die
<1> QED BY <1>1, <1>2, <1>3

LEMMA ThroughNext == Sound /\ [Next]_vars => ThroughInv'
<1> SUFFICES ASSUME Sound, [Next]_vars PROVE ThroughInv'
  OBVIOUS
<1>w. Windows \in Seq(Orders \ {<<>>}) /\ Len(Windows) \in Nat /\ rest \in Seq(Orders \ {<<>>}) /\ Len(rest) \in Nat
  BY Constants, Parts DEF TypeInv, RunTypes
<1>d. \A i \in 1..Len(Windows) : ToSet(Windows[i]) \subseteq Docs
  <2> SUFFICES ASSUME NEW i \in 1..Len(Windows) PROVE ToSet(Windows[i]) \subseteq Docs
    OBVIOUS
  <2>1. Windows[i] \in Orders
    BY <1>w, ElementOfSeq
  <2> QED BY <2>1, ElementOfSeq DEF Orders, ToSet
<1>1. CASE UNCHANGED vars
  BY <1>1, Parts DEF vars, logs, graph, window, history, breaker, ThroughInv, Through, Fine, Noted, LinkedAll, Pairs, Failed, Of
<1>2. CASE Off
  BY <1>2 DEF Off, ThroughInv
<1>3. CASE StartRun
  <2>1. pc' = "document" /\ rest' = Tail(Windows)
    BY <1>3 DEF StartRun
  <2>2. Len(Windows) - Len(rest') = 1
    BY <2>1, <1>w, Constants
  <2>3. \A i \in 1..Len(Windows) : ~Through(i)'
    BY <2>1, <2>2 DEF Through
  <2> QED BY <2>1, <2>3 DEF ThroughInv
<1>4. CASE EndWindow
  <2>1. pc = "flagged" /\ UNCHANGED <<docLog, evidence, links, unlinked, mem, blocked>>
    BY <1>4 DEF EndWindow, graph, history, breaker
  <2>2. \A v : (Fine(v)' <=> Fine(v)) /\ (Noted(v)' <=> Noted(v))
    BY <2>1 DEF Fine, Noted, LinkedAll, Pairs, Failed, Of
  <2>3. \A i \in 1..Len(Windows) : i <= Len(Windows) - Len(rest) => Fine(ToSet(Windows[i])) \/ Noted(ToSet(Windows[i]))
    BY <2>1, <1>w, Parts DEF ThroughInv, Through
  <2>4. CASE pc' = "end" /\ UNCHANGED rest /\ (rest = <<>> \/ blocked)
    <3>1. \A i \in 1..Len(Windows) : Through(i)' => i <= Len(Windows) - Len(rest)
      BY <2>4, <1>w DEF Through
    <3>2. \A i \in 1..Len(Windows) : Through(i)' => Fine(ToSet(Windows[i]))' \/ Noted(ToSet(Windows[i]))'
      BY <2>2, <2>3, <3>1 DEF ToSet
    <3> QED BY <2>1, <2>4, <3>2 DEF ThroughInv, ToSet
  <2>5. CASE pc' = "document" /\ rest' = Tail(rest) /\ rest # <<>>
    <3>1. Len(rest') = Len(rest) - 1
      BY <2>5, <1>w
    <3>2. \A i \in 1..Len(Windows) : Through(i)' => i <= Len(Windows) - Len(rest)
      BY <2>5, <3>1, <1>w DEF Through
    <3>3. \A i \in 1..Len(Windows) : Through(i)' => Fine(ToSet(Windows[i]))' \/ Noted(ToSet(Windows[i]))'
      BY <2>2, <2>3, <3>2 DEF ToSet
    <3> QED BY <2>5, <3>3 DEF ThroughInv, ToSet
  <2> QED BY <1>4, <2>4, <2>5 DEF EndWindow, Asks
<1>5. CASE Next /\ ~StartRun /\ ~EndWindow /\ ~Off
  <2>1. rest' = rest /\ pc' # "end" /\ pc # "off"
    BY <1>5, PlaceKept, OnlyStarts
  <2>2. Confined
    BY <1>5, StepsConfined
  <2> DEFINE n == Len(Windows) - Len(rest)
  <2>3. n \in 1..Len(Windows) /\ At = ToSet(Windows[n]) /\ At' = At
    BY <2>1, Windowed, SameWindow, Parts DEF At, Cur
  <2> SUFFICES ASSUME NEW i \in 1..Len(Windows), Through(i)'
               PROVE  Fine(ToSet(Windows[i]))' \/ Noted(ToSet(Windows[i]))'
    BY <2>1 DEF ThroughInv, ToSet
  <2>4. i < n \/ (i = n /\ pc' = "flagged")
    BY <2>1 DEF Through
  <2>5. CASE i < n
    <3>1. Fine(ToSet(Windows[i])) \/ Noted(ToSet(Windows[i]))
      BY <2>1, <2>5, Parts DEF ThroughInv, Through
    <3>2. ToSet(Windows[i]) \cap At = {} /\ ToSet(Windows[i]) \subseteq Docs
      <4>1. \A j, k \in 1..Len(Windows) : j # k => ToSet(Windows[j]) \cap ToSet(Windows[k]) = {}
        BY BuildAssumption
      <4>2. n \in Int /\ i \in Int /\ i # n
        BY <2>3, <2>5
      <4> QED BY <4>1, <4>2, <2>3, <1>d
    <3> QED BY <2>1, <2>2, <3>1, <3>2, FineElsewhere DEF ToSet, Fine, Noted, LinkedAll, Pairs, Failed, Of
  <2>6. CASE i = n /\ pc' = "flagged"
    <3>1. Fine(At)' \/ Noted(At)'
      BY <1>5, <2>6, WindowThrough
    <3> QED BY <2>3, <2>6, <3>1 DEF Fine, Noted, LinkedAll, Pairs, Failed, Of, ToSet
  <2> QED BY <2>4, <2>5, <2>6
<1> QED BY <1>1, <1>2, <1>3, <1>4, <1>5

-----------------------------------------------------------------------------
(* The end of a run *)

\* Nothing but the end of a run calls it completed.
LEMMA StatusWritten ==
    ASSUME Sound, Next, ~EndRun PROVE manifest'.status # "completed"
<1>m. manifest = [status |-> manifest.status, lists |-> manifest.lists]
  BY Parts DEF TypeInv, LogTypes
<1>1. CASE StartRun
  BY <1>1 DEF StartRun, Save
<1>2. CASE ~StartRun
  <2>1. manifest.status # "completed"
    BY <1>2, OnlyStarts, Parts DEF EndInv
  <2>2. CASE manifest'.status = manifest.status
    BY <2>1, <2>2
  <2>3. CASE RunFails \/ Cancel
    BY <2>3 DEF RunFails, Cancel
  <2>4. CASE Reuse \/ BeginSlice \/ SaveDocument \/ Link \/ ClearWindow \/ LinkEntities \/ SaveWindow \/ LinkingState \/ Die
    BY <2>2, <2>4 DEF Reuse, BeginSlice, SaveDocument, Link, ClearWindow, LinkEntities, SaveWindow, LinkingState, Die, logs
  <2>5. CASE BeginDocument \/ Clean
    BY <2>2, <2>3, <2>5 DEF BeginDocument, Clean
  <2>6. CASE Conclude \/ EndWindow
    BY <2>2, <2>6, <1>m DEF Conclude, EndWindow
  <2>7. CASE Unlink
    BY <2>2, <2>3, <2>7, <1>m DEF Unlink
  <2>8. CASE \E c \in Chunks : Extracted(c) \/ Store(c) \/ SaveChunk(c)
    BY <2>1, <2>2, <2>8 DEF Extracted, Store, SaveChunk, NotFatal, Unrecorded, Fatal, Trips
  <2> QED BY <1>2, <2>3, <2>4, <2>5, <2>6, <2>7, <2>8 DEF Next, Steps
<1> QED BY <1>1, <1>2

\* A run that lists nothing has been through every window, and nothing is amiss in any.
LEMMA RunComplete ==
    ASSUME Sound, pc = "end", ~blocked, mem = NoLists
    PROVE  /\ \A d \in Docs : ~Failed(d) /\ docLog[d].linked
           /\ unlinked = {} => links = UNION {Pairs(ToSet(w)) : w \in ToSet(Windows)}
<1>1. \A i \in 1..Len(Windows) : Through(i)
  <2>1. rest = <<>> /\ Len(Windows) \in Nat
    BY Constants, Parts DEF ThroughInv
  <2> QED BY <2>1 DEF Through
<1>2. \A v : ~Noted(v)
  BY DEF Noted, NoLists
<1>3. \A i \in 1..Len(Windows) : Fine(ToSet(Windows[i]))
  BY <1>1, <1>2, Parts DEF ThroughInv
<1>4. \A w \in ToSet(Windows) : Fine(ToSet(w))
  BY <1>3, Constants DEF ToSet
<1>5. \A d \in Docs : ~Failed(d) /\ docLog[d].linked
  BY <1>4 DEF Fine, Docs
<1>6. ASSUME unlinked = {}, NEW w \in ToSet(Windows) PROVE Pairs(ToSet(w)) \subseteq links
  BY <1>4, <1>6 DEF Fine, LinkedAll
<1>7. ASSUME NEW p \in links PROVE \E w \in ToSet(Windows) : p \in Pairs(ToSet(w))
  <2>1. PICK w \in ToSet(Windows) : p \subseteq UNION {Of(d) : d \in ToSet(w)}
    BY Parts DEF WithinInv
  <2>2. p \subseteq evidence /\ Cardinality(p) = 2
    BY Parts DEF LinksInv, LinksAreGrounded, TypeInv, GraphTypes
  <2> QED BY <2>1, <2>2, PairsOf DEF Facts
<1> QED BY <1>5, <1>6, <1>7

LEMMA EndNext == Sound /\ [Next]_vars => EndInv'
<1> SUFFICES ASSUME Sound, [Next]_vars PROVE EndInv'
  OBVIOUS
<1>1. CASE UNCHANGED vars
  BY <1>1, Parts DEF vars, logs, graph, history, EndInv, Pairs, Failed, Of
<1>2. CASE Next /\ ~EndRun
  BY <1>2, StatusWritten DEF EndInv
<1>3. CASE EndRun /\ manifest'.status = "completed"
  <2>1. pc = "end" /\ pc' = "off" /\ UNCHANGED <<docLog, evidence, links, unlinked>>
    BY <1>3 DEF EndRun, Off, graph, history
  <2>2. ~blocked /\ mem = NoLists
    BY <1>3 DEF EndRun
  <2> QED BY <2>1, <2>2, RunComplete DEF EndInv, Pairs, Failed, Of
<1>4. CASE EndRun /\ manifest'.status # "completed"
  BY <1>4 DEF EndInv
<1> QED BY <1>1, <1>2, <1>3, <1>4

-----------------------------------------------------------------------------
(* What a completed build is *)

LEMMA WholeInit == Init => WholeInv
<1> SUFFICES ASSUME Init PROVE WholeInv
  OBVIOUS
<1>1. KeyTypes
  BY NoListsType DEF Init, KeyTypes
<1>2. WindowInv /\ RebuiltInv /\ PlanInv /\ KeyInv
  BY DEF Init, WindowInv, RebuiltInv, PlanInv, KeyInv, InDocument, Linking
<1>3. LinkLogInv
  BY DEF Init, LinkLogInv, Held
<1>4. WithinInv /\ ThroughInv /\ EndInv
  BY DEF Init, WithinInv, ThroughInv, EndInv
<1> QED BY <1>1, <1>2, <1>3, <1>4 DEF WholeInv

\* What every step keeps of the windows, the lists and the checkpoints of linking.
THEOREM WholeInvariance == Spec => []WholeInv
<1>1. Init => Sound
  BY TypeInit, ControlInit, StoredInit, LinksInit, ProviderInit, WholeInit DEF Sound, Inv
<1>2. Sound /\ [Next]_vars => Sound'
  <2>1. Inv /\ [Next]_vars => Inv'
    BY TypeNext, ControlNext, StoredNext, LinksNext, ProviderNext DEF Inv
  <2>2. Sound /\ [Next]_vars => WholeInv'
    BY KeyTypesNext, WindowNext, RebuiltNext, PlanNext, KeyNext, LinkLogNext, WithinNext, ThroughNext, EndNext DEF WholeInv
  <2> QED BY <2>1, <2>2 DEF Sound
<1>3. Sound => WholeInv
  BY DEF Sound
<1> QED BY <1>1, <1>2, <1>3, PTL DEF Spec

\* A build that the manifest calls completed has extracted and linked each of its
\* documents, and its links are those of the facts in the graph, however often it was
\* cancelled, died and was resumed before (run, _run_batch, _link_batch).
THEOREM CompletedWhole == Spec => []CompletedIsWhole
<1>1. WholeInv => CompletedIsWhole
  BY DEF WholeInv, EndInv, Failed, CompletedIsWhole
<1> QED BY <1>1, WholeInvariance, PTL
=============================================================================
