-------------------------- MODULE RAGServiceProofs ---------------------------
(***************************************************************************)
(* Theorems about RAGService, for any requests, conversations and size of  *)
(* the cache: one request at a time selects its context and none leaves    *)
(* with the gate, what the cache holds was found for its key, and every    *)
(* stream of events is one that EventStream allows.                        *)
(***************************************************************************)
EXTENDS RAGService, SequenceTheorems, TLAPS

Places == {"start", "rewriting", "route", "gate", "dense", "unified", "selected",
           "streaming", "end", "cancelled"}
\* Where a request is in the queue of the gate, and where it holds it.
Gated == {"gate", "dense", "unified"}
Selecting == {"dense", "unified"}

Asks == [text: Questions, of: Conversations, mode: DOMAIN Paths]
Keys == [about: {"context", "rewrite"}, text: Questions,
         scope: Conversations \cup DOMAIN Paths]

\* An entry holds what its key asks for: a context found for the question along the path,
\* if the key names one, or a rewrite of the question.
Fits(e) ==
    /\ e.key.about = "context" =>
         /\ e.value \in Contexts /\ e.value.query.text = e.key.text
         /\ e.value.path \in Paths[e.key.scope]
    /\ e.key.about = "rewrite" => e.value \in Queries /\ e.value.text = e.key.text
FittingEntries == {e \in [key: Keys, value: Contexts \cup Queries, fresh: BOOLEAN] : Fits(e)}

TypeInv ==
    /\ ask \in [Requests -> Asks] /\ pc \in [Requests -> Places]
    /\ query \in [Requests -> Queries] /\ mode \in [Requests -> {"none", "dense", "unified"}]
    /\ context \in [Requests -> Contexts \cup {NoContext}]
    /\ DOMAIN outbox = Requests /\ DOMAIN events = Requests
    /\ threads \subseteq Requests
    /\ expiries \in 0..MaxExpiries /\ cancels \in 0..MaxCancels

CacheInv == cache \in Seq(FittingEntries) /\ Len(cache) <= MaxEntries

\* The gate queues the requests that select or wait to, each once, and the first selects.
GateInv ==
    /\ gate \in Seq(Requests)
    /\ \A i, j \in 1..Len(gate) : gate[i] = gate[j] => i = j
    /\ \A r \in Requests : pc[r] \in Gated <=> \E i \in 1..Len(gate) : gate[i] = r
    /\ \A r \in Requests : pc[r] \in Selecting => Len(gate) > 0 /\ gate[1] = r

\* A request searches for its own question, along the path that was asked for.
SearchInv(r) ==
    /\ query[r].text = ask[r].text
    /\ pc[r] = "gate" => mode[r] \in Paths[ask[r].mode]
    /\ pc[r] = "dense" => "dense" \in Paths[ask[r].mode]
    /\ pc[r] = "unified" => "unified" \in Paths[ask[r].mode]

\* What the client has got and what it gets next, at the end of a request.
Ending(e, o) ==
    \/ e = <<>> /\ o = <<"text", "citations", "completed">>
    \/ e = <<"text">> /\ o = <<"citations", "completed">>
    \/ e = <<"text", "citations">> /\ o = <<"completed">>
    \/ e = <<"text", "citations", "completed">> /\ o = <<>>
    \/ e = <<>> /\ o = <<"error", "failed">>
    \/ e = <<"error">> /\ o = <<"failed">>
    \/ e = <<"error", "failed">> /\ o = <<>>
    \/ e = <<"text">> /\ o = <<"error", "failed">>
    \/ e = <<"text", "error">> /\ o = <<"failed">>
    \/ e = <<"text", "error", "failed">> /\ o = <<>>
StreamInv(r) ==
    /\ pc[r] \in {"start", "rewriting", "route", "gate", "dense", "unified", "selected"} =>
         events[r] = <<>> /\ outbox[r] = <<>>
    /\ pc[r] = "streaming" =>
         \/ events[r] \in {<<>>, <<"text">>} /\ outbox[r] = <<"text">>
         \/ events[r] = <<"text">> /\ outbox[r] = <<>>
    /\ pc[r] = "end" => Ending(events[r], outbox[r])
    /\ pc[r] = "cancelled" => outbox[r] = <<>>

LocalInv(r) == SearchInv(r) /\ StreamInv(r)

Inv == TypeInv /\ CacheInv /\ GateInv /\ \A r \in Requests : LocalInv(r)
-----------------------------------------------------------------------------
(* Queues *)

\* The bounds as numbers, one by one.
LEMMA Bounded ==
    /\ MaxEntries \in Nat \ {0} /\ MaxExpiries \in Nat /\ MaxCancels \in Nat
  BY RAGAssumption

\* A sequence without one of its places.
LEMMA RemoveAtProperties ==
    ASSUME NEW S, NEW q \in Seq(S), NEW i \in 1..Len(q)
    PROVE  /\ RemoveAt(q, i) \in Seq(S) /\ Len(RemoveAt(q, i)) = Len(q) - 1 /\ Len(q) \in Nat
           /\ \A j \in 1..(Len(q) - 1) : RemoveAt(q, i)[j] = IF j < i THEN q[j] ELSE q[j + 1]
<1> DEFINE a == SubSeq(q, 1, i - 1)
           b == SubSeq(q, i + 1, Len(q))
<1>1. Len(q) \in Nat /\ i \in Nat /\ 1 <= i /\ i <= Len(q)
  BY LenProperties
<1>2. \A j \in 1..Len(q) : q[j] \in S
  BY ElementOfSeq
<1>3. a \in Seq(S) /\ Len(a) = i - 1 /\ \A j \in 1..(i - 1) : a[j] = q[j]
  <2>1. \A j \in 1..(i - 1) : q[j] \in S
    BY <1>1, <1>2
  <2> QED BY <1>1, <2>1, SubSeqProperties
<1>4. b \in Seq(S) /\ Len(b) = Len(q) - i /\ \A j \in 1..(Len(q) - i) : b[j] = q[i + j]
  <2>1. \A j \in (i + 1)..Len(q) : q[j] \in S
    BY <1>1, <1>2
  <2> QED BY <1>1, <2>1, SubSeqProperties
<1> HIDE DEF a, b
<1>5. a \o b \in Seq(S) /\ Len(a \o b) = Len(q) - 1
  <2>1. a \o b \in Seq(S) /\ Len(a \o b) = Len(a) + Len(b)
    BY <1>3, <1>4, ConcatProperties
  <2>2. Len(a) + Len(b) = Len(q) - 1
    BY <1>1, <1>3, <1>4
  <2> QED BY <2>1, <2>2
<1>6. ASSUME NEW j \in 1..(Len(q) - 1) PROVE (a \o b)[j] = IF j < i THEN q[j] ELSE q[j + 1]
  <2>1. (a \o b)[j] = IF j <= Len(a) THEN a[j] ELSE b[j - Len(a)]
    BY <1>1, <1>3, <1>4, <1>5, ConcatProperties
  <2>2. CASE j < i
    BY <1>1, <1>3, <2>1, <2>2
  <2>3. CASE ~(j < i)
    <3>1. j - (i - 1) \in 1..(Len(q) - i) /\ i + (j - (i - 1)) = j + 1
      BY <1>1, <2>3
    <3>2. b[j - (i - 1)] = q[j + 1]
      BY <1>4, <3>1
    <3> QED BY <1>1, <1>3, <2>1, <2>3, <3>2
  <2> QED BY <2>2, <2>3
<1>7. RemoveAt(q, i) = a \o b
  BY DEF RemoveAt, a, b
<1> QED BY <1>1, <1>5, <1>6, <1>7

\* Who is first holds the gate.
LEMMA HoldsFirst ==
    ASSUME gate \in Seq(Requests), NEW r
    PROVE  Holds(r) <=> Len(gate) > 0 /\ gate[1] = r
<1>1. gate # <<>> <=> Len(gate) > 0
  BY EmptySeq
<1>2. Head(gate) = gate[1]
  OBVIOUS
<1> QED BY <1>1, <1>2 DEF Holds

\* A request that stays in the queue, or stays out of it.
LEMMA GateStays ==
    ASSUME GateInv, NEW r \in Requests, gate' = gate, \A s \in Requests : s # r => pc'[s] = pc[s],
           pc[r] \in Gated <=> pc'[r] \in Gated, pc'[r] \in Selecting => Holds(r)
    PROVE  GateInv'
<1>1. pc'[r] \in Selecting => Len(gate) > 0 /\ gate[1] = r
  BY HoldsFirst DEF GateInv
<1>2. \A s \in Requests : pc'[s] \in Gated <=> \E i \in 1..Len(gate) : gate[i] = s
  BY DEF GateInv
<1>3. \A s \in Requests : pc'[s] \in Selecting => Len(gate) > 0 /\ gate[1] = s
  BY <1>1 DEF GateInv
<1> QED BY <1>2, <1>3 DEF GateInv

\* A request that queues behind the others.
LEMMA GateJoins ==
    ASSUME GateInv, NEW r \in Requests, gate' = Append(gate, r), \A s \in Requests : s # r => pc'[s] = pc[s],
           pc[r] \notin Gated, pc'[r] = "gate"
    PROVE  GateInv'
<1>1. gate \in Seq(Requests) /\ Len(gate) \in Nat
  BY LenProperties DEF GateInv
<1>2. /\ gate' \in Seq(Requests) /\ Len(gate') = Len(gate) + 1 /\ gate'[Len(gate) + 1] = r
      /\ \A i \in 1..Len(gate) : gate'[i] = gate[i]
  BY <1>1, AppendProperties
<1>3. \A i \in 1..Len(gate) : gate[i] # r
  BY DEF GateInv
<1>4. \A i \in 1..Len(gate') : i \in 1..Len(gate) \/ i = Len(gate) + 1
  BY <1>1, <1>2
<1>5. ASSUME NEW i \in 1..Len(gate'), NEW j \in 1..Len(gate'), gate'[i] = gate'[j] PROVE i = j
  BY <1>2, <1>3, <1>4, <1>5 DEF GateInv
<1>6. ASSUME NEW s \in Requests PROVE pc'[s] \in Gated <=> \E i \in 1..Len(gate') : gate'[i] = s
  <2>1. CASE s = r
    <3>1. Len(gate) + 1 \in 1..Len(gate')
      BY <1>1, <1>2
    <3> QED BY <1>2, <2>1, <3>1 DEF Gated
  <2>2. CASE s # r
    <3>1. pc'[s] \in Gated <=> \E i \in 1..Len(gate) : gate[i] = s
      BY <2>2 DEF GateInv
    <3>2. \A i \in 1..Len(gate) : i \in 1..Len(gate')
      BY <1>1, <1>2
    <3> QED BY <1>2, <1>4, <2>2, <3>1, <3>2
  <2> QED BY <2>1, <2>2
<1>7. ASSUME NEW s \in Requests, pc'[s] \in Selecting PROVE Len(gate') > 0 /\ gate'[1] = s
  <2>1. s # r /\ pc[s] \in Selecting
    BY <1>7 DEF Selecting
  <2>2. Len(gate) > 0 /\ gate[1] = s /\ 1 \in 1..Len(gate)
    BY <1>1, <2>1 DEF GateInv
  <2> QED BY <1>1, <1>2, <2>2
<1> QED BY <1>2, <1>5, <1>6, <1>7 DEF GateInv

\* A request that leaves the queue, wherever it was: the next one holds the gate only if
\* it was the first.
LEMMA GateLeft ==
    ASSUME GateInv, NEW r \in Requests, Release(r), \A s \in Requests : s # r => pc'[s] = pc[s],
           pc'[r] \notin Gated
    PROVE  GateInv'
<1>1. gate \in Seq(Requests) /\ Len(gate) \in Nat /\ DOMAIN gate = 1..Len(gate)
  BY LenProperties DEF GateInv
<1>2. CASE r \notin ToSet(gate)
  <2>1. gate' = gate
    BY <1>2 DEF Release
  <2>2. pc[r] \notin Gated
    BY <1>1, <1>2 DEF ToSet, GateInv
  <2> QED BY <2>1, <2>2, GateStays DEF Selecting, Gated
<1>3. CASE r \in ToSet(gate)
  <2>1. \E i \in 1..Len(gate) : gate[i] = r
    BY <1>1, <1>3 DEF ToSet
  <2>2. PICK i \in 1..Len(gate) : gate[i] = r /\ gate' = RemoveAt(gate, i)
    BY <1>3, <2>1 DEF Release
  <2>3. /\ gate' \in Seq(Requests) /\ Len(gate') = Len(gate) - 1
        /\ \A j \in 1..(Len(gate) - 1) : gate'[j] = IF j < i THEN gate[j] ELSE gate[j + 1]
    BY <1>1, <2>2, RemoveAtProperties
  <2>4. \A j, k \in 1..Len(gate) : gate[j] = gate[k] => j = k
    BY DEF GateInv
  <2>5. ASSUME NEW j \in 1..Len(gate'), NEW k \in 1..Len(gate'), gate'[j] = gate'[k] PROVE j = k
    <3> DEFINE Was(x) == IF x < i THEN x ELSE x + 1
    <3>1. Was(j) \in 1..Len(gate) /\ Was(k) \in 1..Len(gate)
      BY <1>1, <2>2, <2>3
    <3>2. gate'[j] = gate[Was(j)] /\ gate'[k] = gate[Was(k)]
      BY <1>1, <2>3
    <3>3. Was(j) = Was(k)
      BY <2>4, <2>5, <3>1, <3>2
    <3> QED BY <1>1, <2>2, <2>3, <3>3
  <2>6. ASSUME NEW j \in 1..Len(gate') PROVE \E k \in 1..Len(gate) : gate'[j] = gate[k] /\ k # i
    <3>1. CASE j < i
      BY <1>1, <2>2, <2>3, <3>1
    <3>2. CASE ~(j < i)
      <4>1. j + 1 \in 1..Len(gate) /\ j + 1 # i
        BY <1>1, <2>2, <2>3, <3>2
      <4> QED BY <1>1, <2>3, <3>2, <4>1
    <3> QED BY <3>1, <3>2
  <2>7. ASSUME NEW k \in 1..Len(gate), k # i PROVE \E j \in 1..Len(gate') : gate'[j] = gate[k]
    <3>1. CASE k < i
      BY <1>1, <2>2, <2>3, <3>1
    <3>2. CASE ~(k < i)
      <4>1. k - 1 \in 1..Len(gate') /\ ~(k - 1 < i) /\ (k - 1) + 1 = k
        BY <1>1, <2>2, <2>3, <2>7, <3>2
      <4> QED BY <1>1, <2>3, <4>1
    <3> QED BY <3>1, <3>2
  <2>8. ASSUME NEW s \in Requests PROVE pc'[s] \in Gated <=> \E j \in 1..Len(gate') : gate'[j] = s
    <3>1. CASE s = r
      <4>1. \A j \in 1..Len(gate') : gate'[j] # r
        BY <2>2, <2>4, <2>6
      <4> QED BY <3>1, <4>1
    <3>2. CASE s # r
      <4>1. pc'[s] \in Gated <=> \E k \in 1..Len(gate) : gate[k] = s
        BY <3>2 DEF GateInv
      <4>2. \A k \in 1..Len(gate) : gate[k] = s => k # i
        BY <2>2, <3>2
      <4> QED BY <2>6, <2>7, <4>1, <4>2
    <3> QED BY <3>1, <3>2
  <2>9. ASSUME NEW s \in Requests, pc'[s] \in Selecting PROVE Len(gate') > 0 /\ gate'[1] = s
    <3>1. s # r /\ pc[s] \in Selecting
      BY <2>9 DEF Selecting, Gated
    <3>2. Len(gate) > 0 /\ gate[1] = s
      BY <3>1 DEF GateInv
    <3>3. 1 < i /\ 1 \in 1..(Len(gate) - 1)
      BY <1>1, <2>2, <3>1, <3>2
    <3> QED BY <1>1, <2>3, <3>2, <3>3
  <2> QED BY <2>3, <2>5, <2>8, <2>9 DEF GateInv
<1> QED BY <1>2, <1>3
-----------------------------------------------------------------------------
(* The cache *)

\* What is found of a key fits it, and what is left fits as well.
LEMMA Lookups ==
    ASSUME CacheInv, NEW key
    PROVE  /\ Others(key) \in Seq(FittingEntries) /\ Len(Others(key)) <= Len(cache)
           /\ Len(Others(key)) \in Nat /\ Len(cache) \in Nat
           /\ Entries(key) # {} => /\ cache[Place(key)] \in FittingEntries /\ cache[Place(key)].key = key
                                   /\ Len(Others(key)) = Len(cache) - 1
<1>1. cache \in Seq(FittingEntries) /\ Len(cache) \in Nat
  BY LenProperties DEF CacheInv
<1>2. CASE Entries(key) = {}
  BY <1>1, <1>2 DEF Others
<1>3. CASE Entries(key) # {}
  <2>1. Place(key) \in Entries(key)
    BY <1>3 DEF Place
  <2>2. Place(key) \in 1..Len(cache) /\ cache[Place(key)].key = key
    BY <2>1 DEF Entries
  <2>3. cache[Place(key)] \in FittingEntries
    BY <1>1, <2>2, ElementOfSeq
  <2>4. /\ RemoveAt(cache, Place(key)) \in Seq(FittingEntries)
        /\ Len(RemoveAt(cache, Place(key))) = Len(cache) - 1
    BY <1>1, <2>2, RemoveAtProperties
  <2>5. Len(cache) - 1 \in Nat /\ Len(cache) - 1 <= Len(cache)
    BY <1>1, <2>2
  <2> QED BY <1>1, <1>3, <2>2, <2>3, <2>4, <2>5 DEF Others
<1> QED BY <1>2, <1>3

\* A lookup reorders the entries or drops an expired one, and finds what fits.
LEMMA GetKeeps ==
    ASSUME CacheInv, NEW key, Get(key)
    PROVE  CacheInv' /\ (Hit(key) => \E e \in FittingEntries : Value(key) = e.value /\ e.key = key)
<1>1. CASE Hit(key)
  <2>1. Entries(key) # {}
    BY <1>1 DEF Hit
  <2>2. /\ Others(key) \in Seq(FittingEntries) /\ Len(Others(key)) = Len(cache) - 1 /\ Len(cache) \in Nat
        /\ cache[Place(key)] \in FittingEntries /\ cache[Place(key)].key = key
    BY <2>1, Lookups
  <2>3. cache' = Append(Others(key), cache[Place(key)])
    BY <1>1 DEF Get
  <2>4. cache' \in Seq(FittingEntries) /\ Len(cache') = Len(Others(key)) + 1
    BY <2>2, <2>3, AppendProperties
  <2>5. Len(cache') <= MaxEntries
    BY <2>2, <2>4 DEF CacheInv
  <2> QED BY <2>2, <2>4, <2>5 DEF CacheInv, Value
<1>2. CASE ~Hit(key)
  <2>1. cache' = Others(key)
    BY <1>2 DEF Get
  <2>2. Others(key) \in Seq(FittingEntries) /\ Len(Others(key)) <= MaxEntries
    BY Lookups, Bounded DEF CacheInv
  <2> QED BY <1>2, <2>1, <2>2 DEF CacheInv
<1> QED BY <1>1, <1>2

\* An entry that fits keeps the cache, which evicts one if it is full.
LEMMA PutKeeps ==
    ASSUME CacheInv, NEW key, NEW value, Put(key, value),
           [key |-> key, value |-> value, fresh |-> TRUE] \in FittingEntries
    PROVE  CacheInv'
<1> DEFINE e == [key |-> key, value |-> value, fresh |-> TRUE]
           c == Append(Others(key), e)
<1>1. /\ Others(key) \in Seq(FittingEntries) /\ Len(Others(key)) \in Nat /\ Len(Others(key)) <= Len(cache)
      /\ Len(cache) \in Nat /\ Len(cache) <= MaxEntries
  BY Lookups DEF CacheInv
<1>2. cache' = IF Len(c) > MaxEntries THEN Tail(c) ELSE c
  BY DEF Put
<1>3. e \in FittingEntries
  OBVIOUS
<1> HIDE DEF e
<1>4. c \in Seq(FittingEntries) /\ Len(c) = Len(Others(key)) + 1 /\ c # <<>>
  BY <1>1, <1>3, AppendProperties
<1> HIDE DEF c
<1>5. Tail(c) \in Seq(FittingEntries) /\ Len(Tail(c)) = Len(c) - 1
  BY <1>4, HeadTailProperties
<1>6. CASE Len(c) > MaxEntries
  BY <1>1, <1>2, <1>4, <1>5, <1>6, Bounded DEF CacheInv
<1>7. CASE ~(Len(c) > MaxEntries)
  BY <1>1, <1>2, <1>4, <1>7, Bounded DEF CacheInv
<1> QED BY <1>6, <1>7
-----------------------------------------------------------------------------
(* What each action keeps *)

\* A step of one request leaves the others as they are.
Apart(r) ==
    /\ ask' = ask
    /\ \A s \in Requests : s # r =>
        /\ pc'[s] = pc[s] /\ query'[s] = query[s] /\ mode'[s] = mode[s]
        /\ outbox'[s] = outbox[s] /\ events'[s] = events[s]
Post(r) == TypeInv' /\ CacheInv' /\ GateInv' /\ Apart(r) /\ LocalInv(r)'
Pre(r) == TypeInv /\ CacheInv /\ GateInv /\ LocalInv(r)

\* A request that the others leave as it is keeps its invariant.
LEMMA Unmoved ==
    ASSUME NEW s \in Requests, LocalInv(s), ask' = ask, pc'[s] = pc[s], query'[s] = query[s],
           mode'[s] = mode[s], outbox'[s] = outbox[s], events'[s] = events[s]
    PROVE  LocalInv(s)'
<1>1. SearchInv(s)'
  BY DEF LocalInv, SearchInv
<1>2. StreamInv(s)'
  BY DEF LocalInv, StreamInv, Ending
<1> QED BY <1>1, <1>2 DEF LocalInv

\* A step to another place moves one request.
LEMMA GotoMoves ==
    ASSUME TypeInv, NEW r \in Requests, NEW l \in Places, Goto(r, l)
    PROVE  pc' \in [Requests -> Places] /\ pc'[r] = l /\ \A s \in Requests : s # r => pc'[s] = pc[s]
  BY DEF TypeInv, Goto

\* Events to hand out are those of one request.
LEMMA YieldMoves ==
    ASSUME TypeInv, NEW r \in Requests, NEW ks, Yield(r, ks)
    PROVE  /\ DOMAIN outbox' = Requests /\ outbox'[r] = ks /\ events' = events
           /\ \A s \in Requests : s # r => outbox'[s] = outbox[s]
  BY DEF TypeInv, Yield

\* Every mode of the API answers from the dense or the unified index.
LEMMA AllPaths == \A m \in DOMAIN Paths : Paths[m] \subseteq {"dense", "unified"}
  BY DEF Paths

\* The keys of a request, and what fits them.
LEMMA RequestFits ==
    ASSUME TypeInv, NEW r \in Requests, SearchInv(r)
    PROVE  /\ ContextKey(r) \in Keys /\ RewriteKey(r) \in Keys
           /\ \A e \in FittingEntries : e.key = RewriteKey(r) => e.value \in Queries /\ e.value.text = ask[r].text
           /\ \A e \in FittingEntries : e.key = ContextKey(r) => e.value \in Contexts
           /\ \A q \in {Standalone(r), Plain(r)} :
                /\ q \in Queries /\ q.text = ask[r].text
                /\ [key |-> RewriteKey(r), value |-> q, fresh |-> TRUE] \in FittingEntries
           /\ \A p \in {"dense", "unified"} : \A c \in Found(r, p) :
                p \in Paths[ask[r].mode] =>
                  /\ c \in Contexts
                  /\ [key |-> ContextKey(r), value |-> c, fresh |-> TRUE] \in FittingEntries
<1>1. /\ ask[r].text \in Questions /\ ask[r].of \in Conversations /\ ask[r].mode \in DOMAIN Paths
      /\ query[r] \in Queries /\ query[r].text = ask[r].text
  BY DEF TypeInv, Asks, SearchInv
<1>2. ContextKey(r) \in Keys /\ RewriteKey(r) \in Keys
  BY <1>1 DEF ContextKey, RewriteKey, Keys
<1>3. /\ RewriteKey(r).about = "rewrite" /\ RewriteKey(r).text = ask[r].text
      /\ ContextKey(r).about = "context" /\ ContextKey(r).text = ask[r].text /\ ContextKey(r).scope = ask[r].mode
  BY DEF RewriteKey, ContextKey
<1>4. ASSUME NEW e \in FittingEntries, e.key = RewriteKey(r) PROVE e.value \in Queries /\ e.value.text = ask[r].text
  BY <1>3, <1>4 DEF FittingEntries, Fits
<1>5. ASSUME NEW e \in FittingEntries, e.key = ContextKey(r) PROVE e.value \in Contexts
  BY <1>3, <1>5 DEF FittingEntries, Fits
<1>6. ASSUME NEW key \in Keys, NEW value \in Contexts \cup Queries, NEW e,
             e = [key |-> key, value |-> value, fresh |-> TRUE], Fits(e)
      PROVE  e \in FittingEntries
  BY <1>6 DEF FittingEntries
<1>7. ASSUME NEW q \in {Standalone(r), Plain(r)}
      PROVE  /\ q \in Queries /\ q.text = ask[r].text
             /\ [key |-> RewriteKey(r), value |-> q, fresh |-> TRUE] \in FittingEntries
  <2>1. q \in Queries /\ q.text = ask[r].text
    BY <1>1 DEF Standalone, Plain, Queries
  <2>2. Fits([key |-> RewriteKey(r), value |-> q, fresh |-> TRUE])
    BY <1>3, <2>1 DEF Fits
  <2> QED BY <1>2, <1>6, <2>1, <2>2
<1>8. ASSUME NEW p \in {"dense", "unified"}, NEW c \in Found(r, p), p \in Paths[ask[r].mode]
      PROVE  /\ c \in Contexts
             /\ [key |-> ContextKey(r), value |-> c, fresh |-> TRUE] \in FittingEntries
  <2>1. PICK b \in BOOLEAN : c = [query |-> query[r], path |-> p, empty |-> b]
    BY DEF Found
  <2>2. c \in Contexts /\ c.query = query[r] /\ c.path = p
    BY <1>1, <2>1 DEF Contexts
  <2>3. Fits([key |-> ContextKey(r), value |-> c, fresh |-> TRUE])
    BY <1>1, <1>3, <1>8, <2>2 DEF Fits
  <2> QED BY <1>2, <1>6, <2>2, <2>3
<1> QED BY <1>2, <1>4, <1>5, <1>7, <1>8

\* Small talk is answered without the gate.
LEMMA DirectKeeps ==
    ASSUME NEW r \in Requests, Pre(r), Direct(r) PROVE Post(r)
<1> USE DEF Pre
<1>1. /\ pc[r] = "start" /\ UNCHANGED <<ask, query, mode, context, gate, threads, cache, expiries, cancels>>
  BY DEF Direct, Bounds
<1>2. pc' \in [Requests -> Places] /\ pc'[r] = "end" /\ \A s \in Requests : s # r => pc'[s] = pc[s]
  BY GotoMoves DEF Direct, Places
<1>3. /\ DOMAIN outbox' = Requests /\ outbox'[r] = <<"text", "citations", "completed">> /\ events' = events
      /\ \A s \in Requests : s # r => outbox'[s] = outbox[s]
  BY YieldMoves DEF Direct
<1>4. GateInv'
  BY <1>1, <1>2, GateStays DEF Gated, Selecting
<1>5. events[r] = <<>>
  BY <1>1 DEF LocalInv, StreamInv
<1>6. SearchInv(r)' /\ StreamInv(r)'
  BY <1>1, <1>2, <1>3, <1>5 DEF LocalInv, SearchInv, StreamInv, Ending
<1> QED BY <1>1, <1>2, <1>3, <1>4, <1>6 DEF Post, Apart, LocalInv, TypeInv, CacheInv

\* A step before the selection that yields no event.
LEMMA PreparationKeeps ==
    ASSUME NEW r \in Requests, Pre(r), NEW l \in {"rewriting", "route"}, Goto(r, l),
           pc[r] \in {"start", "rewriting"}, Silent, Bounds, UNCHANGED <<ask, mode, context, gate, threads>>,
           CacheInv',
           query' = query \/ \E q \in Queries : query' = [query EXCEPT ![r] = q] /\ q.text = ask[r].text
    PROVE  Post(r)
<1> USE DEF Pre
<1>1. pc' \in [Requests -> Places] /\ pc'[r] = l /\ \A s \in Requests : s # r => pc'[s] = pc[s]
  BY GotoMoves DEF Places
<1>2. /\ query' \in [Requests -> Queries] /\ query'[r].text = ask[r].text
      /\ \A s \in Requests : s # r => query'[s] = query[s]
  BY DEF TypeInv, LocalInv, SearchInv
<1>3. GateInv'
  BY <1>1, GateStays DEF Gated, Selecting
<1>4. SearchInv(r)' /\ StreamInv(r)'
  BY <1>1, <1>2 DEF LocalInv, SearchInv, StreamInv, Silent
<1> QED BY <1>1, <1>2, <1>3, <1>4 DEF Post, Apart, LocalInv, TypeInv, Silent, Bounds

\* The rewrite is taken from the cache, or asked for, or not needed.
LEMMA RewriteKeeps ==
    ASSUME NEW r \in Requests, Pre(r), Rewrite(r) PROVE Post(r)
<1> USE DEF Pre
<1>1. /\ pc[r] = "start" /\ Silent /\ UNCHANGED <<ask, mode, context, gate, threads>> /\ Bounds
  BY DEF Rewrite
<1>2. CASE ask[r].text = "followup"
  <2>1. CacheInv' /\ (Hit(RewriteKey(r)) => \E e \in FittingEntries : Value(RewriteKey(r)) = e.value /\ e.key = RewriteKey(r))
    BY <1>2, GetKeeps DEF Rewrite
  <2>2. CASE Hit(RewriteKey(r))
    <3>1. query' = [query EXCEPT ![r] = Value(RewriteKey(r))] /\ Goto(r, "route")
      BY <1>2, <2>2 DEF Rewrite
    <3>2. Value(RewriteKey(r)) \in Queries /\ Value(RewriteKey(r)).text = ask[r].text
      BY <2>1, <2>2, RequestFits DEF LocalInv
    <3> QED BY <1>1, <2>1, <3>1, <3>2, PreparationKeeps
  <2>3. CASE ~Hit(RewriteKey(r))
    BY <1>1, <1>2, <2>1, <2>3, PreparationKeeps DEF Rewrite
  <2> QED BY <2>2, <2>3
<1>3. CASE ask[r].text # "followup"
  <2>1. Goto(r, "route") /\ UNCHANGED <<query, cache>>
    BY <1>3 DEF Rewrite
  <2>2. CacheInv'
    BY <2>1 DEF CacheInv
  <2> QED BY <1>1, <2>1, <2>2, PreparationKeeps
<1> QED BY <1>2, <1>3

\* The rewrite comes and is stored, or its time is over.
LEMMA RewrittenKeeps ==
    ASSUME NEW r \in Requests, Pre(r), Rewritten(r) \/ RewriteTimeout(r) PROVE Post(r)
<1> USE DEF Pre
<1>1. /\ pc[r] = "rewriting" /\ Silent /\ UNCHANGED <<ask, mode, context, gate, threads>> /\ Bounds
      /\ Goto(r, "route")
  BY DEF Rewritten, RewriteTimeout
<1>2. CASE Rewritten(r)
  <2>1. PICK q \in {Standalone(r), Plain(r)} : query' = [query EXCEPT ![r] = q] /\ Put(RewriteKey(r), q)
    BY <1>2 DEF Rewritten
  <2>2. /\ q \in Queries /\ q.text = ask[r].text
        /\ [key |-> RewriteKey(r), value |-> q, fresh |-> TRUE] \in FittingEntries
    BY RequestFits DEF LocalInv
  <2>3. CacheInv'
    BY <2>1, <2>2, PutKeeps
  <2> QED BY <1>1, <2>1, <2>2, <2>3, PreparationKeeps
<1>3. CASE RewriteTimeout(r)
  <2>1. CacheInv' /\ query' = query
    BY <1>3 DEF RewriteTimeout, CacheInv
  <2> QED BY <1>1, <2>1, PreparationKeeps
<1> QED BY <1>2, <1>3

\* A request that has its path joins the queue of the gate.
LEMMA RouteKeeps ==
    ASSUME NEW r \in Requests, Pre(r), Route(r) PROVE Post(r)
<1> USE DEF Pre
<1>1. /\ pc[r] = "route" /\ gate' = Append(gate, r)
      /\ Silent /\ UNCHANGED <<ask, query, context, threads, cache>> /\ Bounds
  BY DEF Route
<1>2. pc' \in [Requests -> Places] /\ pc'[r] = "gate" /\ \A s \in Requests : s # r => pc'[s] = pc[s]
  BY GotoMoves DEF Route, Places
<1>3. PICK m \in Paths[ask[r].mode] : mode' = [mode EXCEPT ![r] = m]
  BY DEF Route
<1>m. m \in {"dense", "unified"}
  BY <1>3, AllPaths DEF TypeInv, Asks
<1>4. /\ mode' \in [Requests -> {"none", "dense", "unified"}] /\ mode'[r] = m
      /\ \A s \in Requests : s # r => mode'[s] = mode[s]
  BY <1>3, <1>m DEF TypeInv
<1>5. GateInv'
  BY <1>1, <1>2, GateJoins DEF Gated
<1>6. SearchInv(r)' /\ StreamInv(r)'
  BY <1>1, <1>2, <1>3, <1>4 DEF LocalInv, SearchInv, StreamInv, Silent
<1> QED BY <1>1, <1>2, <1>4, <1>5, <1>6 DEF Post, Apart, LocalInv, TypeInv, Silent, Bounds, CacheInv

\* A request that leaves the gate with its context.
LEMMA LeaveKeeps ==
    ASSUME NEW r \in Requests, Pre(r), Release(r), Goto(r, "selected"), Silent, Bounds,
           UNCHANGED <<ask, query, mode>>, pc[r] \in Gated, threads' \subseteq Requests, CacheInv',
           NEW c \in Contexts, context' = [context EXCEPT ![r] = c]
    PROVE  Post(r)
<1> USE DEF Pre
<1>1. pc' \in [Requests -> Places] /\ pc'[r] = "selected" /\ \A s \in Requests : s # r => pc'[s] = pc[s]
  BY GotoMoves DEF Places
<1>2. GateInv'
  BY <1>1, GateLeft DEF Gated
<1>3. SearchInv(r)' /\ StreamInv(r)'
  BY <1>1 DEF LocalInv, SearchInv, StreamInv, Silent, Gated
<1>4. context' \in [Requests -> Contexts \cup {NoContext}]
  BY DEF TypeInv
<1> QED BY <1>1, <1>2, <1>3, <1>4 DEF Post, Apart, LocalInv, TypeInv, Silent, Bounds

\* A request that holds the gate and goes on to a retrieval.
LEMMA RetrieveKeeps ==
    ASSUME NEW r \in Requests, Pre(r), Holds(r), NEW l \in Selecting, Goto(r, l), Silent, Bounds,
           UNCHANGED <<ask, query, mode, context, gate>>, pc[r] \in Gated, threads' \subseteq Requests, CacheInv',
           l \in Paths[ask[r].mode]
    PROVE  Post(r)
<1> USE DEF Pre
<1>1. pc' \in [Requests -> Places] /\ pc'[r] = l /\ \A s \in Requests : s # r => pc'[s] = pc[s]
  BY GotoMoves DEF Places, Selecting
<1>2. GateInv'
  BY <1>1, GateStays DEF Gated, Selecting
<1>3. SearchInv(r)' /\ StreamInv(r)'
  BY <1>1 DEF LocalInv, SearchInv, StreamInv, Silent, Gated, Selecting
<1> QED BY <1>1, <1>2, <1>3 DEF Post, Apart, LocalInv, TypeInv, Silent, Bounds

\* The holder takes a cached context and leaves, or retrieves.
LEMMA SelectKeeps ==
    ASSUME NEW r \in Requests, Pre(r), Select(r) PROVE Post(r)
<1> USE DEF Pre
<1>1. /\ pc[r] = "gate" /\ Holds(r) /\ Get(ContextKey(r))
      /\ Silent /\ UNCHANGED <<ask, query, mode>> /\ Bounds
  BY DEF Select, MayEnter
<1>2. CacheInv' /\ (Hit(ContextKey(r)) => \E e \in FittingEntries : Value(ContextKey(r)) = e.value /\ e.key = ContextKey(r))
  BY <1>1, GetKeeps
<1>3. CASE Hit(ContextKey(r))
  <2>1. Value(ContextKey(r)) \in Contexts
    BY <1>2, <1>3, RequestFits DEF LocalInv
  <2>2. /\ context' = [context EXCEPT ![r] = Value(ContextKey(r))]
        /\ Release(r) /\ Goto(r, "selected") /\ threads' = threads
    BY <1>3 DEF Select
  <2> QED BY <1>1, <1>2, <2>1, <2>2, LeaveKeeps DEF Gated, TypeInv
<1>4. CASE ~Hit(ContextKey(r))
  <2>1. mode[r] \in {"dense", "unified"} /\ mode[r] \in Paths[ask[r].mode]
    BY <1>1, AllPaths DEF TypeInv, Asks, LocalInv, SearchInv
  <2>2. Goto(r, mode[r]) /\ threads' \subseteq Requests /\ UNCHANGED <<gate, context>>
    BY <1>4, <2>1 DEF Select, TypeInv
  <2> QED BY <1>1, <1>2, <2>1, <2>2, RetrieveKeeps DEF Gated, Selecting
<1> QED BY <1>3, <1>4

\* A retrieval that ran to its end is stored under the key it was asked for.
LEMMA SelectedKeeps ==
    ASSUME NEW r \in Requests, Pre(r), NEW p \in Selecting, pc[r] = p, NEW c \in Found(r, p), Selected(r, c),
           UNCHANGED <<ask, query, mode>>, Bounds, threads' \subseteq Requests,
           p \in Paths[ask[r].mode]
    PROVE  Post(r)
<1> USE DEF Pre
<1>1. c \in Contexts /\ [key |-> ContextKey(r), value |-> c, fresh |-> TRUE] \in FittingEntries
  BY RequestFits DEF LocalInv, Selecting
<1>2. CacheInv'
  BY <1>1, PutKeeps DEF Selected
<1> QED BY <1>1, <1>2, LeaveKeeps DEF Selected, Gated, Selecting

\* The holder of the gate selects; a thread whose request was cancelled changes nothing.
LEMMA DenseEndsKeeps ==
    ASSUME NEW r \in Requests, Pre(r), DenseEnds(r) PROVE Post(r)
<1> USE DEF Pre
<1>1. threads' \subseteq Requests /\ UNCHANGED <<ask, query, mode>> /\ Bounds
  BY DEF DenseEnds, TypeInv
<1>2. CASE pc[r] # "dense"
  <2>1. UNCHANGED <<pc, context, outbox, events, gate, cache>>
    BY <1>2 DEF DenseEnds
  <2>2. LocalInv(r)'
    BY <1>1, <2>1, Unmoved
  <2>3. GateInv' /\ CacheInv'
    BY <2>1 DEF GateInv, CacheInv
  <2> QED BY <1>1, <2>1, <2>2, <2>3 DEF Post, Apart, TypeInv, Bounds
<1>3. CASE pc[r] = "dense"
  <2>1. Holds(r) /\ "dense" \in Paths[ask[r].mode]
    BY <1>3, HoldsFirst DEF GateInv, Selecting, LocalInv, SearchInv
  <2>2. CASE \E c \in Found(r, "dense") : Selected(r, c)
    BY <1>1, <1>3, <2>1, <2>2, SelectedKeeps DEF Selecting
  <2>3. CASE MayEscalate(r) /\ Goto(r, "unified") /\ Silent /\ UNCHANGED <<context, gate, cache>>
    <3>1. CacheInv'
      BY <2>3 DEF CacheInv
    <3> QED BY <1>1, <1>3, <2>1, <2>3, <3>1, RetrieveKeeps DEF Selecting, Gated, MayEscalate, Paths
  <2> QED BY <1>3, <2>2, <2>3 DEF DenseEnds
<1> QED BY <1>2, <1>3

\* A unified retrieval is only asked for by its mode or by an automatic one.
LEMMA UnifiedEndsKeeps ==
    ASSUME NEW r \in Requests, Pre(r), UnifiedEnds(r) PROVE Post(r)
<1> USE DEF Pre
<1>1. "unified" \in Paths[ask[r].mode]
  BY DEF LocalInv, SearchInv, UnifiedEnds
<1> QED BY <1>1, SelectedKeeps DEF UnifiedEnds, Selecting, TypeInv

\* A failure opens the gate and yields the two events of an error.
LEMMA RetrievalFailsKeeps ==
    ASSUME NEW r \in Requests, Pre(r), RetrievalFails(r) PROVE Post(r)
<1> USE DEF Pre
<1>1. /\ pc[r] \in {"dense", "unified"} /\ threads' \subseteq Requests /\ Release(r)
      /\ UNCHANGED <<ask, query, mode, context, cache, expiries, cancels>>
  BY DEF RetrievalFails, Bounds, TypeInv
<1>2. pc' \in [Requests -> Places] /\ pc'[r] = "end" /\ \A s \in Requests : s # r => pc'[s] = pc[s]
  BY GotoMoves DEF RetrievalFails, Places
<1>3. /\ DOMAIN outbox' = Requests /\ outbox'[r] = <<"error", "failed">> /\ events' = events
      /\ \A s \in Requests : s # r => outbox'[s] = outbox[s]
  BY YieldMoves DEF RetrievalFails
<1>4. GateInv'
  BY <1>1, <1>2, GateLeft DEF Gated
<1>5. events[r] = <<>>
  BY <1>1 DEF LocalInv, StreamInv
<1>6. SearchInv(r)' /\ StreamInv(r)'
  BY <1>1, <1>2, <1>3, <1>5 DEF LocalInv, SearchInv, StreamInv, Ending
<1> QED BY <1>1, <1>2, <1>3, <1>4, <1>6 DEF Post, Apart, LocalInv, TypeInv, CacheInv

\* A request that has its context and yields events.
LEMMA AnswerKeeps ==
    ASSUME NEW r \in Requests, Pre(r), pc[r] \in {"selected", "streaming"}, NEW l \in {"streaming", "end"}, Goto(r, l),
           NEW ks, Yield(r, ks), UNCHANGED <<ask, query, mode, context, gate, threads, cache>>, Bounds,
           l = "streaming" => ks = <<"text">> /\ events[r] \in {<<>>, <<"text">>},
           l = "end" => Ending(events[r], ks)
    PROVE  Post(r)
<1> USE DEF Pre
<1>1. pc' \in [Requests -> Places] /\ pc'[r] = l /\ \A s \in Requests : s # r => pc'[s] = pc[s]
  BY GotoMoves DEF Places
<1>2. /\ DOMAIN outbox' = Requests /\ outbox'[r] = ks /\ events' = events
      /\ \A s \in Requests : s # r => outbox'[s] = outbox[s]
  BY YieldMoves
<1>3. GateInv'
  BY <1>1, GateStays DEF Gated, Selecting
<1>4. StreamInv(r)'
  BY <1>1, <1>2 DEF StreamInv
<1>5. SearchInv(r)'
  BY <1>1 DEF LocalInv, SearchInv
<1> QED BY <1>1, <1>2, <1>3, <1>4, <1>5 DEF Post, Apart, LocalInv, TypeInv, CacheInv, Bounds

\* The fixed answer, a chunk, and the end of the model's stream.
LEMMA AnswersKeep ==
    ASSUME NEW r \in Requests, Pre(r), Insufficient(r) \/ Chunk(r) \/ StreamEnds(r) PROVE Post(r)
<1> USE DEF Pre
<1>1. /\ pc[r] = "selected" => events[r] = <<>>
      /\ pc[r] = "streaming" /\ outbox[r] = <<>> => events[r] = <<"text">>
  BY DEF LocalInv, StreamInv
<1>2. CASE Insufficient(r)
  <2>1. /\ pc[r] = "selected" /\ Yield(r, <<"text", "citations", "completed">>) /\ Goto(r, "end")
        /\ UNCHANGED <<ask, query, mode, context, gate, threads, cache>> /\ Bounds
    BY <1>2 DEF Insufficient, At
  <2>2. Ending(events[r], <<"text", "citations", "completed">>)
    BY <1>1, <2>1 DEF Ending
  <2> QED BY <2>1, <2>2, AnswerKeeps
<1>3. CASE Chunk(r)
  <2>1. /\ pc[r] \in {"selected", "streaming"} /\ outbox[r] = <<>> /\ Yield(r, <<"text">>) /\ Goto(r, "streaming")
        /\ UNCHANGED <<ask, query, mode, context, gate, threads, cache>> /\ Bounds
    BY <1>3 DEF Chunk, At
  <2>2. events[r] \in {<<>>, <<"text">>}
    BY <1>1, <2>1
  <2> QED BY <2>1, <2>2, AnswerKeeps
<1>4. CASE StreamEnds(r)
  <2>1. /\ pc[r] \in {"selected", "streaming"} /\ outbox[r] = <<>> /\ Goto(r, "end")
        /\ UNCHANGED <<ask, query, mode, context, gate, threads, cache>> /\ Bounds
    BY <1>4 DEF StreamEnds, At
  <2>2. CASE pc[r] = "streaming" /\ Yield(r, <<"citations", "completed">>)
    <3>1. Ending(events[r], <<"citations", "completed">>)
      BY <1>1, <2>1, <2>2 DEF Ending
    <3> QED BY <2>1, <2>2, <3>1, AnswerKeeps
  <2>3. CASE Yield(r, <<"error", "failed">>)
    <3>1. Ending(events[r], <<"error", "failed">>)
      BY <1>1, <2>1 DEF Ending
    <3> QED BY <2>1, <2>3, <3>1, AnswerKeeps
  <2> QED BY <1>4, <2>2, <2>3 DEF StreamEnds
<1> QED BY <1>2, <1>3, <1>4

\* An event that follows another.
LEMMA Joining ==
    /\ Joined(<<>>, "text") = <<"text">> /\ Joined(<<>>, "error") = <<"error">>
    /\ Joined(<<"text">>, "text") = <<"text">>
    /\ Joined(<<"text">>, "citations") = <<"text", "citations">>
    /\ Joined(<<"text">>, "error") = <<"text", "error">>
    /\ Joined(<<"error">>, "failed") = <<"error", "failed">>
    /\ Joined(<<"text", "citations">>, "completed") = <<"text", "citations", "completed">>
    /\ Joined(<<"text", "error">>, "failed") = <<"text", "error", "failed">>
<1>1. ASSUME NEW a, NEW b, a # b PROVE Joined(<<a>>, b) = <<a, b>>
  <2>1. Len(<<a>>) = 1 /\ <<a>>[1] = a
    OBVIOUS
  <2>2. Append(<<a>>, b) = <<a, b>>
    <3>1. <<a>> \in Seq({a, b})
      OBVIOUS
    <3>2. Append(<<a>>, b) \in Seq({a, b}) /\ Len(Append(<<a>>, b)) = 2
      BY <3>1, AppendProperties
    <3>3. Append(<<a>>, b)[1] = a /\ Append(<<a>>, b)[2] = b
      BY <3>1, AppendProperties
    <3>4. <<a, b>> \in Seq({a, b}) /\ Len(<<a, b>>) = 2
      OBVIOUS
    <3>5. <<a, b>>[1] = a /\ <<a, b>>[2] = b
      OBVIOUS
    <3>6. \A i \in 1..2 : i = 1 \/ i = 2
      OBVIOUS
    <3> QED BY <3>2, <3>3, <3>4, <3>5, <3>6, SeqEqual
  <2> QED BY <1>1, <2>1, <2>2 DEF Joined
<1>2. ASSUME NEW a, NEW b, NEW c, b # c PROVE Joined(<<a, b>>, c) = <<a, b, c>>
  <2>1. Len(<<a, b>>) = 2 /\ <<a, b>>[2] = b
    OBVIOUS
  <2>2. Append(<<a, b>>, c) = <<a, b, c>>
    <3>1. <<a, b>> \in Seq({a, b, c})
      OBVIOUS
    <3>2. Append(<<a, b>>, c) \in Seq({a, b, c}) /\ Len(Append(<<a, b>>, c)) = 3
      BY <3>1, AppendProperties
    <3>3. Append(<<a, b>>, c)[1] = a /\ Append(<<a, b>>, c)[2] = b /\ Append(<<a, b>>, c)[3] = c
      BY <3>1, AppendProperties
    <3>4. <<a, b, c>> \in Seq({a, b, c}) /\ Len(<<a, b, c>>) = 3
      OBVIOUS
    <3>5. <<a, b, c>>[1] = a /\ <<a, b, c>>[2] = b /\ <<a, b, c>>[3] = c
      OBVIOUS
    <3>6. \A i \in 1..3 : i = 1 \/ i = 2 \/ i = 3
      OBVIOUS
    <3> QED BY <3>2, <3>3, <3>4, <3>5, <3>6, SeqEqual
  <2> QED BY <1>2, <2>1, <2>2 DEF Joined
<1>3. Joined(<<>>, "text") = <<"text">> /\ Joined(<<>>, "error") = <<"error">>
  BY DEF Joined
<1>4. Joined(<<"text">>, "text") = <<"text">>
  BY DEF Joined
<1> QED BY <1>1, <1>2, <1>3, <1>4

\* What the client takes next, and what it has and awaits then.
LEMMA NextEvent ==
    ASSUME NEW r \in Requests, pc[r] \in Places, StreamInv(r), outbox[r] # <<>>, pc[r] # "cancelled",
           NEW k, k = Head(outbox[r]), NEW e, e = Joined(events[r], k), NEW o, o = Tail(outbox[r])
    PROVE  \/ /\ pc[r] = "streaming" /\ k = "text" /\ events[r] \in {<<>>, <<"text">>}
              /\ e = <<"text">> /\ o = <<>>
           \/ /\ pc[r] = "end" /\ o # <<>> /\ Ending(e, o)
              /\ \/ k = "text" /\ events[r] = <<>>
                 \/ k = "citations" /\ events[r] = <<"text">>
                 \/ k = "error" /\ events[r] \in {<<>>, <<"text">>}
           \/ /\ pc[r] = "end" /\ o = <<>> /\ Ending(e, o)
              /\ \/ k = "completed" /\ events[r] = <<"text", "citations">>
                 \/ k = "failed" /\ events[r] \in {<<"error">>, <<"text", "error">>}
<1>1. pc[r] \in {"streaming", "end"}
  BY DEF StreamInv, Places
<1>2. CASE pc[r] = "streaming"
  <2>1. outbox[r] = <<"text">> /\ events[r] \in {<<>>, <<"text">>}
    BY <1>2 DEF StreamInv
  <2>2. k = "text" /\ o = <<>>
    BY <2>1
  <2>3. CASE events[r] = <<>>
    BY <1>2, <2>2, <2>3 DEF Joined
  <2>4. CASE events[r] = <<"text">>
    BY <1>2, <2>2, <2>4 DEF Joined
  <2> QED BY <2>1, <2>3, <2>4
<1>3. CASE pc[r] = "end"
  <2>1. Ending(events[r], outbox[r])
    BY <1>3 DEF StreamInv
  <2>2. CASE events[r] = <<>> /\ outbox[r] = <<"text", "citations", "completed">>
    <3>1. k = "text" /\ o = <<"citations", "completed">> /\ e = <<"text">>
      BY <2>2, Joining
    <3> QED BY <1>3, <2>2, <3>1 DEF Ending
  <2>3. CASE events[r] = <<"text">> /\ outbox[r] = <<"citations", "completed">>
    <3>1. k = "citations" /\ o = <<"completed">> /\ e = <<"text", "citations">>
      BY <2>3, Joining
    <3> QED BY <1>3, <2>3, <3>1 DEF Ending
  <2>4. CASE events[r] = <<"text", "citations">> /\ outbox[r] = <<"completed">>
    <3>1. k = "completed" /\ o = <<>> /\ e = <<"text", "citations", "completed">>
      BY <2>4, Joining
    <3> QED BY <1>3, <2>4, <3>1 DEF Ending
  <2>5. CASE events[r] = <<>> /\ outbox[r] = <<"error", "failed">>
    <3>1. k = "error" /\ o = <<"failed">> /\ e = <<"error">>
      BY <2>5, Joining
    <3> QED BY <1>3, <2>5, <3>1 DEF Ending
  <2>6. CASE events[r] = <<"error">> /\ outbox[r] = <<"failed">>
    <3>1. k = "failed" /\ o = <<>> /\ e = <<"error", "failed">>
      BY <2>6, Joining
    <3> QED BY <1>3, <2>6, <3>1 DEF Ending
  <2>7. CASE events[r] = <<"text">> /\ outbox[r] = <<"error", "failed">>
    <3>1. k = "error" /\ o = <<"failed">> /\ e = <<"text", "error">>
      BY <2>7, Joining
    <3> QED BY <1>3, <2>7, <3>1 DEF Ending
  <2>8. CASE events[r] = <<"text", "error">> /\ outbox[r] = <<"failed">>
    <3>1. k = "failed" /\ o = <<>> /\ e = <<"text", "error", "failed">>
      BY <2>8, Joining
    <3> QED BY <1>3, <2>8, <3>1 DEF Ending
  <2> QED BY <2>1, <2>2, <2>3, <2>4, <2>5, <2>6, <2>7, <2>8 DEF Ending
<1> QED BY <1>1, <1>2, <1>3

\* An event leaves the outbox of one request.
LEMMA SendMoves ==
    ASSUME TypeInv, NEW r \in Requests, Send(r)
    PROVE  /\ DOMAIN outbox' = Requests /\ outbox'[r] = Tail(outbox[r])
           /\ DOMAIN events' = Requests /\ events'[r] = Joined(events[r], Head(outbox[r]))
           /\ \A s \in Requests : s # r => outbox'[s] = outbox[s] /\ events'[s] = events[s]
           /\ UNCHANGED <<ask, pc, query, mode, context, gate, threads, cache, expiries, cancels>>
  BY DEF TypeInv, Send, Bounds

\* Taking an event moves along the stream that was begun.
LEMMA SendKeeps ==
    ASSUME NEW r \in Requests, Pre(r), Send(r) PROVE Post(r)
<1> USE DEF Pre
<1>1. PICK k, e, o : k = Head(outbox[r]) /\ e = Joined(events[r], k) /\ o = Tail(outbox[r])
  OBVIOUS
<1>2. /\ DOMAIN outbox' = Requests /\ outbox'[r] = o /\ DOMAIN events' = Requests /\ events'[r] = e
      /\ \A s \in Requests : s # r => outbox'[s] = outbox[s] /\ events'[s] = events[s]
      /\ UNCHANGED <<ask, pc, query, mode, context, gate, threads, cache, expiries, cancels>>
  BY <1>1, SendMoves
<1>3. outbox[r] # <<>> /\ pc[r] # "cancelled" /\ pc[r] \in Places
  BY DEF Send, TypeInv
<1>4. \/ pc[r] = "streaming" /\ e = <<"text">> /\ o = <<>>
      \/ pc[r] = "end" /\ Ending(e, o)
  BY <1>1, <1>3, NextEvent DEF LocalInv
<1>5. StreamInv(r)'
  BY <1>2, <1>4 DEF StreamInv, Ending
<1>6. SearchInv(r)'
  BY <1>2 DEF LocalInv, SearchInv
<1>7. GateInv' /\ CacheInv'
  BY <1>2 DEF GateInv, CacheInv
<1> QED BY <1>2, <1>5, <1>6, <1>7 DEF Post, Apart, LocalInv, TypeInv

\* What a cancellation changes.
LEMMA CancelMoves ==
    ASSUME TypeInv, NEW r \in Requests, Cancel(r)
    PROVE  /\ DOMAIN outbox' = Requests /\ outbox'[r] = <<>>
           /\ \A s \in Requests : s # r => outbox'[s] = outbox[s]
           /\ pc' \in [Requests -> Places] /\ pc'[r] = "cancelled" /\ \A s \in Requests : s # r => pc'[s] = pc[s]
           /\ UNCHANGED <<ask, query, mode, context, events, threads, cache, expiries>>
           /\ cancels' \in 0..MaxCancels /\ Release(r)
<1>1. Goto(r, "cancelled") /\ outbox' = [outbox EXCEPT ![r] = <<>>]
  BY DEF Cancel
<1>2. cancels' \in 0..MaxCancels
  BY Bounded DEF Cancel, TypeInv
<1> QED BY <1>1, <1>2, GotoMoves DEF Cancel, TypeInv, Places

\* A cancelled request leaves the gate, as its holder or from the middle of the queue.
LEMMA CancelKeeps ==
    ASSUME NEW r \in Requests, Pre(r), Cancel(r) PROVE Post(r)
<1> USE DEF Pre
<1>1. /\ DOMAIN outbox' = Requests /\ outbox'[r] = <<>>
      /\ \A s \in Requests : s # r => outbox'[s] = outbox[s]
      /\ pc' \in [Requests -> Places] /\ pc'[r] = "cancelled" /\ \A s \in Requests : s # r => pc'[s] = pc[s]
      /\ UNCHANGED <<ask, query, mode, context, events, threads, cache, expiries>>
      /\ cancels' \in 0..MaxCancels /\ Release(r)
  BY CancelMoves
<1>2. GateInv'
  BY <1>1, GateLeft DEF Gated
<1>3. SearchInv(r)' /\ StreamInv(r)'
  BY <1>1 DEF LocalInv, SearchInv, StreamInv
<1> QED BY <1>1, <1>2, <1>3 DEF Post, Apart, LocalInv, TypeInv, CacheInv

\* An entry that outlives its time still fits.
LEMMA ExpireKeeps ==
    ASSUME Inv, Expire PROVE Inv'
<1>1. /\ UNCHANGED <<ask, pc, query, mode, context, outbox, events, gate, threads, cancels>>
      /\ expiries' \in 0..MaxExpiries
  BY Bounded DEF Expire, Inv, TypeInv
<1>2. PICK i \in 1..Len(cache) : cache' = [cache EXCEPT ![i].fresh = FALSE]
  BY DEF Expire
<1>3. CacheInv'
  <2>1. cache \in Seq(FittingEntries) /\ Len(cache) <= MaxEntries
    BY DEF Inv, CacheInv
  <2>2. cache[i] \in FittingEntries
    BY <2>1, ElementOfSeq
  <2>3. PICK e : e = [cache[i] EXCEPT !.fresh = FALSE]
    OBVIOUS
  <2>4. e \in [key: Keys, value: Contexts \cup Queries, fresh: BOOLEAN] /\ e.key = cache[i].key /\ e.value = cache[i].value
    BY <2>2, <2>3 DEF FittingEntries
  <2>5. e \in FittingEntries
    BY <2>2, <2>4 DEF FittingEntries, Fits
  <2>6. cache' = [cache EXCEPT ![i] = e]
    BY <1>2, <2>3
  <2>7. cache' \in Seq(FittingEntries) /\ Len(cache') = Len(cache)
    BY <2>1, <2>5, <2>6, ExceptSeq
  <2> QED BY <2>1, <2>7 DEF CacheInv
<1>4. TypeInv' /\ GateInv'
  BY <1>1 DEF Inv, TypeInv, GateInv
<1>5. \A r \in Requests : LocalInv(r)'
  BY <1>1, Unmoved DEF Inv
<1> QED BY <1>3, <1>4, <1>5 DEF Inv
-----------------------------------------------------------------------------
(* The specification *)

\* The actions of a request keep what it needs.
LEMMA RequestKeeps ==
    ASSUME NEW r \in Requests, Pre(r), Steps(r) \/ Chunk(r) \/ Send(r) \/ Cancel(r)
    PROVE  Post(r)
  BY DirectKeeps, RewriteKeeps, RewrittenKeeps, RouteKeeps, SelectKeeps, DenseEndsKeeps, UnifiedEndsKeeps,
     RetrievalFailsKeeps, AnswersKeep, SendKeeps, CancelKeeps DEF Steps

\* Nothing is queued, cached or sent at the start.
LEMMA InitInv == Init => Inv
<1> SUFFICES ASSUME Init PROVE Inv
  OBVIOUS
<1>1. TypeInv
  <2>1. \A r \in Requests : ask[r].text \in Questions /\ Plain(r) \in Queries
    BY DEF Init, Plain, Queries
  <2>2. query \in [Requests -> Queries]
    BY <2>1 DEF Init
  <2> QED BY <2>2, Bounded DEF Init, TypeInv, Asks, Places
<1>2. CacheInv
  BY Bounded, EmptySeq DEF Init, CacheInv
<1>3. GateInv
  BY EmptySeq DEF Init, GateInv, Gated, Selecting
<1>4. ASSUME NEW r \in Requests PROVE LocalInv(r)
  <2>1. query[r].text = ask[r].text
    BY DEF Init, Plain
  <2> QED BY <2>1 DEF Init, LocalInv, SearchInv, StreamInv
<1> QED BY <1>1, <1>2, <1>3, <1>4 DEF Inv

\* One request moves, or an entry expires; the others keep theirs.
LEMMA StepInv == Inv /\ [Next]_vars => Inv'
<1> SUFFICES ASSUME Inv, [Next]_vars PROVE Inv'
  OBVIOUS
<1>1. CASE UNCHANGED vars
  <2>1. TypeInv' /\ CacheInv' /\ GateInv'
    BY <1>1 DEF vars, Inv, TypeInv, CacheInv, GateInv
  <2>2. \A r \in Requests : LocalInv(r)'
    BY <1>1, Unmoved DEF vars, Inv
  <2> QED BY <2>1, <2>2 DEF Inv
<1>2. CASE Expire
  BY <1>2, ExpireKeeps
<1>3. ASSUME NEW r \in Requests, Steps(r) \/ Chunk(r) \/ Send(r) \/ Cancel(r) PROVE Inv'
  <2>1. Post(r)
    BY <1>3, RequestKeeps DEF Inv, Pre
  <2>2. ASSUME NEW s \in Requests PROVE LocalInv(s)'
    <3>1. CASE s = r
      BY <2>1, <3>1 DEF Post
    <3>2. CASE s # r
      BY <2>1, <3>2, Unmoved DEF Inv, Post, Apart
    <3> QED BY <3>1, <3>2
  <2> QED BY <2>1, <2>2 DEF Inv, Post
<1> QED BY <1>1, <1>2, <1>3 DEF Next

\* Every reachable state: the cache holds what fits its keys and no more than it may,
\* the gate queues each selecting or waiting request once and the first of them
\* selects, and what a client has and awaits is a prefix and the rest of one of the
\* streams the service sends (rag/service.py, rag/cache.py).
THEOREM Invariance == Spec => []Inv
  BY InitInv, StepInv, PTL DEF Spec

\* Every variable stays in its range, and the cache never holds more than
\* rag_cache_max_entries (MemoryRetrievalCache).
THEOREM TypeCorrect == Spec => []TypeOK
<1>1. Inv => TypeOK
  <2> SUFFICES ASSUME Inv PROVE TypeOK
    OBVIOUS
  <2>1. ToSet(gate) \subseteq Requests
    BY ElementOfSeq, LenProperties DEF Inv, GateInv, ToSet
  <2> QED BY <2>1 DEF Inv, TypeInv, CacheInv, TypeOK, Places
<1> QED BY <1>1, Invariance, PTL

\* One request at a time selects its context, and one that has left neither holds the
\* gate nor waits for it (_selection_gate).
THEOREM SelectionIsSerial == Spec => []SelectionSerial
<1>1. Inv => SelectionSerial
  <2> SUFFICES ASSUME Inv PROVE SelectionSerial
    OBVIOUS
  <2>1. \A r \in Requests : pc[r] \in {"dense", "unified"} => Holds(r)
    BY HoldsFirst DEF Inv, GateInv, Selecting
  <2>2. ASSUME NEW r \in Requests, Ended(r) PROVE r \notin ToSet(gate)
    <3>1. pc[r] \notin Gated
      BY <2>2 DEF Ended, At, Gated
    <3>2. DOMAIN gate = 1..Len(gate)
      BY LenProperties DEF Inv, GateInv
    <3> QED BY <3>1, <3>2 DEF Inv, GateInv, ToSet
  <2> QED BY <2>1, <2>2 DEF SelectionSerial
<1> QED BY <1>1, Invariance, PTL

\* A cached context was found for the question and the mode of its key, whatever was
\* cancelled, failed, expired or evicted meanwhile (_store_retrieval).
THEOREM CachedContextsAreFound == Spec => []CachedContextsFit
<1>1. Inv => CachedContextsFit
  <2> SUFFICES ASSUME Inv, NEW i \in 1..Len(cache), cache[i].key.about = "context"
               PROVE  /\ cache[i].value.query.text = cache[i].key.text
                      /\ cache[i].value.path \in Paths[cache[i].key.scope]
    BY DEF CachedContextsFit
  <2>1. cache[i] \in FittingEntries
    BY ElementOfSeq DEF Inv, CacheInv
  <2> QED BY <2>1 DEF FittingEntries, Fits
<1> QED BY <1>1, Invariance, PTL
-----------------------------------------------------------------------------
(* The refinement *)

Over == {r \in Requests : Ended(r)}

\* A step that neither ends a stream nor sends an event.
LEMMA Quiet ==
    ASSUME NEW r \in Requests, events' = events, ~Ended(r), ~Ended(r)',
           \A s \in Requests : s # r => pc'[s] = pc[s] /\ outbox'[s] = outbox[s]
    PROVE  UNCHANGED <<events, Over>>
<1>1. \A s \in Requests : Ended(s)' <=> Ended(s)
  BY DEF Ended, At
<1> QED BY <1>1 DEF Over

\* A step that ends one.
LEMMA Ends ==
    ASSUME NEW r \in Requests, Ended(r)',
           \A s \in Requests : s # r => pc'[s] = pc[s] /\ outbox'[s] = outbox[s]
    PROVE  Over' = Over \cup {r}
<1>1. \A s \in Requests : s # r => (Ended(s)' <=> Ended(s))
  BY DEF Ended, At
<1> QED BY <1>1 DEF Over

\* An event that the client takes is one that the stream allows.
LEMMA SendRefines ==
    ASSUME Inv, NEW r \in Requests, Send(r)
    PROVE  ES!Text(r) \/ ES!Cite(r) \/ ES!Fail(r) \/ ES!Complete(r)
<1>1. PICK k, e, o : k = Head(outbox[r]) /\ e = Joined(events[r], k) /\ o = Tail(outbox[r])
  OBVIOUS
<1>2. /\ outbox'[r] = o /\ pc' = pc
      /\ \A s \in Requests : s # r => outbox'[s] = outbox[s]
  BY <1>1, SendMoves DEF Inv
<1>3. outbox[r] # <<>> /\ pc[r] # "cancelled" /\ pc[r] \in Places
  BY DEF Send, Inv, TypeInv
<1>4. ~Ended(r) /\ r \notin Over
  BY <1>3 DEF Ended, At, Over
<1>5. ES!Deliver(r, k)
  BY <1>1, <1>4 DEF ES!Deliver, Send, Joined, Over
<1>6. \A x : ES!Received(r, x) <=> \E i \in 1..Len(events[r]) : events[r][i] = x
  BY DEF ES!Received
<1>7. CASE /\ pc[r] = "streaming" \/ (pc[r] = "end" /\ o # <<>>)
           /\ \/ k = "text" /\ events[r] \in {<<>>, <<"text">>}
              \/ k = "citations" /\ events[r] = <<"text">>
              \/ k = "error" /\ events[r] \in {<<>>, <<"text">>}
  <2>1. \A s \in Requests : Ended(s)' <=> Ended(s)
    BY <1>2, <1>4, <1>7 DEF Ended, At
  <2>2. Over' = Over
    BY <2>1 DEF Over
  <2>3. ~ES!Received(r, "error") /\ ~ES!Received(r, "citations")
    BY <1>6, <1>7
  <2> QED BY <1>5, <1>7, <2>2, <2>3 DEF ES!Text, ES!Cite, ES!Fail, Over
<1>8. CASE /\ pc[r] = "end" /\ o = <<>>
           /\ \/ k = "completed" /\ events[r] = <<"text", "citations">>
              \/ k = "failed" /\ events[r] \in {<<"error">>, <<"text", "error">>}
  <2>1. Over' = Over \cup {r}
    BY <1>2, <1>8, Ends DEF Ended, At
  <2>2. CASE k = "completed" /\ events[r] = <<"text", "citations">>
    <3>1. events[r][1] = "text" /\ 1 \in 1..Len(events[r])
      BY <2>2
    <3>2. ES!Received(r, "text") /\ ~ES!Received(r, "error")
      BY <1>6, <2>2, <3>1
    <3> QED BY <1>5, <2>1, <2>2, <3>2 DEF ES!Complete, Over
  <2>3. CASE k = "failed" /\ events[r] \in {<<"error">>, <<"text", "error">>}
    <3>1. Len(events[r]) \in 1..Len(events[r]) /\ events[r][Len(events[r])] = "error"
      BY <2>3
    <3>2. ES!Received(r, "error")
      BY <1>6, <3>1
    <3> QED BY <1>5, <2>1, <2>3, <3>2 DEF ES!Complete, Over
  <2> QED BY <1>8, <2>2, <2>3
<1> QED BY <1>1, <1>3, <1>7, <1>8, NextEvent DEF Inv, LocalInv

\* A cancellation breaks a stream that has not ended.
LEMMA CancelRefines ==
    ASSUME Inv, NEW r \in Requests, Cancel(r) PROVE ES!Break(r)
<1>1. /\ \A s \in Requests : s # r => pc'[s] = pc[s] /\ outbox'[s] = outbox[s]
      /\ pc'[r] = "cancelled" /\ events' = events
  BY CancelMoves DEF Inv
<1>2. Over' = Over \cup {r}
  BY <1>1, Ends DEF Ended
<1>3. ~Ended(r)
  BY DEF Cancel, Ended, At, Inv, LocalInv, StreamInv
<1> QED BY <1>1, <1>2, <1>3 DEF ES!Break, Over

\* The other steps of a request.
LEMMA StepsAreQuiet ==
    ASSUME Inv, NEW r \in Requests, Steps(r) \/ Chunk(r) PROVE UNCHANGED <<events, Over>>
<1>1. Post(r)
  BY RequestKeeps DEF Inv, Pre
<1>2. \A s \in Requests : s # r => pc'[s] = pc[s] /\ outbox'[s] = outbox[s]
  BY <1>1 DEF Post, Apart
<1>3. TypeInv
  BY DEF Inv
<1>4. CASE Direct(r) \/ RetrievalFails(r) \/ Insufficient(r) \/ Chunk(r) \/ StreamEnds(r)
  <2>1. \E ks : ks # <<>> /\ Yield(r, ks)
    BY <1>4 DEF Direct, RetrievalFails, Insufficient, Chunk, StreamEnds
  <2>2. outbox'[r] # <<>> /\ events' = events
    BY <1>3, <2>1, YieldMoves
  <2>3. pc'[r] # "cancelled"
    BY <1>3, <1>4, GotoMoves DEF Direct, RetrievalFails, Insufficient, Chunk, StreamEnds, Places
  <2>4. ~Ended(r)
    BY <1>4 DEF Direct, RetrievalFails, Insufficient, Chunk, StreamEnds, Ended, At
  <2> QED BY <1>2, <2>2, <2>3, <2>4, Quiet DEF Ended, At
<1>5. CASE Rewrite(r) \/ Rewritten(r) \/ RewriteTimeout(r) \/ Route(r) \/ Select(r) \/ UnifiedEnds(r)
  <2>1. events' = events /\ pc[r] \in {"start", "rewriting", "route", "gate", "unified"}
    BY <1>5 DEF Rewrite, Rewritten, RewriteTimeout, Route, Select, MayEnter, UnifiedEnds, Selected, Silent
  <2>2. pc'[r] \in {"rewriting", "route", "gate", "dense", "unified", "selected"}
    BY <1>3, <1>5, GotoMoves
       DEF Rewrite, Rewritten, RewriteTimeout, Route, Select, UnifiedEnds, Selected, Places
  <2> QED BY <1>2, <2>1, <2>2, Quiet DEF Ended, At
<1>6. CASE DenseEnds(r)
  <2>1. CASE pc[r] # "dense"
    <3>1. UNCHANGED <<pc, outbox, events>>
      BY <1>6, <2>1 DEF DenseEnds
    <3> QED BY <3>1 DEF Over, Ended, At
  <2>2. CASE pc[r] = "dense"
    <3>1. events' = events /\ (Goto(r, "selected") \/ Goto(r, "unified"))
      BY <1>6, <2>2 DEF DenseEnds, Selected, Silent
    <3>2. pc'[r] \in {"unified", "selected"}
      BY <1>3, <3>1, GotoMoves DEF Places
    <3> QED BY <1>2, <2>2, <3>1, <3>2, Quiet DEF Ended, At
  <2> QED BY <2>1, <2>2
<1> QED BY <1>4, <1>5, <1>6 DEF Steps

\* Every request sends its client a stream that EventStream allows: text, one list of
\* citations after it and one "complete", or an error and its "complete", broken off
\* by a cancellation at any moment (stream and _error_events).
THEOREM Implementation == Spec => ImplementsEventStream
<1>1. Init => ES!Init
  <2> SUFFICES ASSUME Init PROVE ES!Init
    OBVIOUS
  <2>1. \A r \in Requests : ~Ended(r)
    BY DEF Init, Ended, At
  <2> QED BY <2>1 DEF Init, ES!Init
<1>2. Inv /\ [Next]_vars => ES!Next \/ UNCHANGED <<events, Over>>
  <2> SUFFICES ASSUME Inv, [Next]_vars PROVE ES!Next \/ UNCHANGED <<events, Over>>
    OBVIOUS
  <2>1. CASE UNCHANGED vars
    BY <2>1 DEF vars, Over, Ended, At
  <2>2. CASE Expire
    BY <2>2 DEF Expire, Over, Ended, At
  <2>3. ASSUME NEW r \in Requests, Steps(r) \/ Chunk(r) PROVE UNCHANGED <<events, Over>>
    BY <2>3, StepsAreQuiet
  <2>4. ASSUME NEW r \in Requests, Send(r) \/ Cancel(r) PROVE ES!Next
    BY <2>4, SendRefines, CancelRefines DEF ES!Next
  <2> QED BY <2>1, <2>2, <2>3, <2>4 DEF Next
<1>3. Inv /\ [Next]_vars => [ES!Next]_<<events, {r \in Requests : Ended(r)}>>
  BY <1>2 DEF Over
<1> QED BY <1>1, <1>3, Invariance, PTL DEF Spec, ImplementsEventStream, ES!Spec
=============================================================================
