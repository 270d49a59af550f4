----------------------------- MODULE RAGService ------------------------------
(***************************************************************************)
(* Concurrent questions to the RAG service of one process (rag/service.py) *)
(* and what they share: a cache of rewrites and contexts (rag/cache.py)    *)
(* and a gate that lets one of them at a time select its context.  A       *)
(* request may be cancelled at every await; the thread a dense retrieval   *)
(* runs in goes on when its request is cancelled.                          *)
(***************************************************************************)
EXTENDS Naturals, Sequences, FiniteSets, SequencesExt

CONSTANTS
    Requests,
    Conversations, \* what an earlier turn was about
    HasUnified,    \* whether a unified retrieval is configured, as it is in api/app.py
    MaxEntries,    \* rag_cache_max_entries
    MaxExpiries,   \* bound: entries of the cache that outlive their time
    MaxCancels     \* bound: requests that are cancelled

ASSUME RAGAssumption ==
    /\ Conversations # {} /\ HasUnified \in BOOLEAN /\ MaxEntries \in Nat \ {0}
    /\ MaxExpiries \in Nat /\ MaxCancels \in Nat

VARIABLES
    ask,      \* [r -> its question, conversation and way of retrieval]
    pc,
    query,    \* [r -> the query it searches with: what it is about]
    mode,     \* [r -> the retrieval path]
    context,  \* [r -> the context it answers from]
    outbox,   \* [r -> events to hand to the client before the request goes on]
    events,   \* [r -> kinds of the events the client has taken, repetitions joined]
    gate,     \* the requests that wait for _selection_gate, the holder first
    threads,  \* requests whose dense retrieval occupies a thread
    cache,    \* MemoryRetrievalCache: the oldest use first
    expiries, cancels

vars == <<ask, pc, query, mode, context, outbox, events, gate, threads, cache,
          expiries, cancels>>

Questions == {"smalltalk", "followup", "plain"}
\* The paths of each retrieval_mode; "anywhere" is an automatic one of a question that
\* names no knowledge base.
Paths == [auto |-> {"dense", "unified"}, anywhere |-> {"dense"},
          dense |-> {"dense"}, unified |-> {"unified"}]
\* What a retrieval looks for: a follow-up means nothing without its conversation.
Queries == [text: Questions, about: Conversations \cup {"itself"}]
Plain(r) == [text |-> ask[r].text, about |-> "itself"]
Standalone(r) == [text |-> ask[r].text, about |-> ask[r].of]
Contexts == [query: Queries, path: {"dense", "unified"}, empty: BOOLEAN]
NoContext == [query |-> [text |-> "none", about |-> "none"], path |-> "none", empty |-> TRUE]

Init ==
    /\ ask \in [Requests -> [text: Questions, of: Conversations, mode: DOMAIN Paths]]
    /\ pc = [r \in Requests |-> "start"]
    /\ query = [r \in Requests |-> Plain(r)]
    /\ mode = [r \in Requests |-> "none"]
    /\ context = [r \in Requests |-> NoContext]
    /\ outbox = [r \in Requests |-> <<>>] /\ events = [r \in Requests |-> <<>>]
    /\ gate = <<>> /\ threads = {} /\ cache = <<>> /\ expiries = 0 /\ cancels = 0

Goto(r, l) == pc' = [pc EXCEPT ![r] = l]
Joined(s, k) == IF s # <<>> /\ s[Len(s)] = k THEN s ELSE Append(s, k)
At(r, l) == pc[r] = l /\ outbox[r] = <<>>
Yield(r, ks) == outbox' = [outbox EXCEPT ![r] = ks] /\ UNCHANGED events
Silent == UNCHANGED <<outbox, events>>
Bounds == UNCHANGED <<expiries, cancels>>

-----------------------------------------------------------------------------
(* MemoryRetrievalCache *)

Entries(key) == {i \in 1..Len(cache) : cache[i].key = key}
Hit(key) == \E i \in Entries(key) : cache[i].fresh
Place(key) == CHOOSE i \in Entries(key) : TRUE
Value(key) == cache[Place(key)].value
Others(key) == IF Entries(key) = {} THEN cache ELSE RemoveAt(cache, Place(key))
\* A hit becomes the latest used entry, an expired one goes.
Get(key) ==
    cache' = IF Hit(key) THEN Append(Others(key), cache[Place(key)]) ELSE Others(key)
\* The entries used longest ago are evicted.
Put(key, value) ==
    LET c == Append(Others(key), [key |-> key, value |-> value, fresh |-> TRUE])
    IN cache' = IF Len(c) > MaxEntries THEN Tail(c) ELSE c

\* Mutant: the key holds the path of the retrieval and not the mode asked for.
KeyOfPath(r) == [about |-> "context", text |-> ask[r].text, scope |-> mode[r]]
ContextKey(r) == [about |-> "context", text |-> ask[r].text, scope |-> ask[r].mode]
RewriteKey(r) == [about |-> "rewrite", text |-> ask[r].text, scope |-> ask[r].of]

Expire ==
    /\ expiries < MaxExpiries /\ expiries' = expiries + 1
    /\ \E i \in 1..Len(cache) : cache[i].fresh /\ cache' = [cache EXCEPT ![i].fresh = FALSE]
    /\ UNCHANGED <<ask, pc, query, mode, context, outbox, events, gate, threads, cancels>>

-----------------------------------------------------------------------------
(* stream *)

Direct(r) ==
    /\ pc[r] = "start" /\ ask[r].text = "smalltalk"
    /\ Yield(r, <<"text", "citations", "completed">>) /\ Goto(r, "end")
    /\ UNCHANGED <<ask, query, mode, context, gate, threads, cache>> /\ Bounds

\* _rewrite_query: the empty string stands for "keep the question", be it that
\* the model kept it or that it could not be asked.
Rewrite(r) ==
    /\ pc[r] = "start" /\ ask[r].text # "smalltalk"
    /\ IF ask[r].text = "followup"
       THEN /\ Get(RewriteKey(r))
            /\ IF Hit(RewriteKey(r))
               THEN query' = [query EXCEPT ![r] = Value(RewriteKey(r))] /\ Goto(r, "route")
               ELSE Goto(r, "rewriting") /\ UNCHANGED query
       ELSE Goto(r, "route") /\ UNCHANGED <<query, cache>>
    /\ Silent /\ UNCHANGED <<ask, mode, context, gate, threads>> /\ Bounds

Rewritten(r) ==
    /\ pc[r] = "rewriting"
    /\ \E q \in {Standalone(r), Plain(r)} :
         /\ query' = [query EXCEPT ![r] = q]
         /\ Put(RewriteKey(r), q)
    /\ Goto(r, "route")
    /\ Silent /\ UNCHANGED <<ask, mode, context, gate, threads>> /\ Bounds

\* rag_rewrite_timeout_seconds: nothing is cached.
RewriteTimeout(r) ==
    /\ pc[r] = "rewriting" /\ Goto(r, "route")
    /\ Silent /\ UNCHANGED <<ask, query, mode, context, gate, threads, cache>> /\ Bounds

\* resolve_route and the queue of the gate.
Route(r) ==
    /\ pc[r] = "route"
    /\ \E m \in Paths[ask[r].mode] : mode' = [mode EXCEPT ![r] = m]
    /\ gate' = Append(gate, r) /\ Goto(r, "gate")
    /\ Silent /\ UNCHANGED <<ask, query, context, threads, cache>> /\ Bounds

Holds(r) == gate # <<>> /\ Head(gate) = r
\* Mutant: a retrieval that fails keeps the gate.
KeepGate(r) == UNCHANGED gate
Release(r) ==
    gate' = IF r \in ToSet(gate) THEN RemoveAt(gate, CHOOSE i \in 1..Len(gate) : gate[i] = r) ELSE gate
\* Mutant: a request enters without the gate.
EnterAnyway(r) == pc[r] = "gate"
MayEnter(r) == pc[r] = "gate" /\ Holds(r)

\* _resolve_selection: the cached context of the question, or a retrieval.
Select(r) ==
    /\ MayEnter(r)
    /\ Get(ContextKey(r))
    /\ IF Hit(ContextKey(r))
       THEN /\ context' = [context EXCEPT ![r] = Value(ContextKey(r))]
            /\ Release(r) /\ Goto(r, "selected") /\ UNCHANGED threads
       ELSE /\ IF mode[r] = "dense" THEN threads' = threads \cup {r} /\ Goto(r, "dense")
                                    ELSE UNCHANGED threads /\ Goto(r, "unified")
            /\ UNCHANGED <<gate, context>>
    /\ Silent /\ UNCHANGED <<ask, query, mode>> /\ Bounds

Found(r, path) == {[query |-> query[r], path |-> path, empty |-> e] : e \in BOOLEAN}

\* The context is stored and the gate is opened.
Selected(r, c) ==
    /\ context' = [context EXCEPT ![r] = c]
    /\ Put(ContextKey(r), c)
    /\ Release(r) /\ Goto(r, "selected") /\ Silent

\* _needs_escalation, of an automatic question: an empty context always, one that
\* misses the subject of the question too; but only where unified retrieval can be asked.
MayEscalate(r) == ask[r].mode = "auto" /\ HasUnified

\* Of the thread; its request may have been cancelled meanwhile.
DenseEnds(r) ==
    /\ r \in threads /\ threads' = threads \ {r}
    /\ IF pc[r] # "dense" THEN UNCHANGED <<pc, context, outbox, events, gate, cache>>
       ELSE \/ \E c \in Found(r, "dense") : (MayEscalate(r) => ~c.empty) /\ Selected(r, c)
            \/ MayEscalate(r) /\ Goto(r, "unified") /\ Silent /\ UNCHANGED <<context, gate, cache>>
    /\ UNCHANGED <<ask, query, mode>> /\ Bounds

UnifiedEnds(r) ==
    /\ pc[r] = "unified" /\ HasUnified
    /\ \E c \in Found(r, "unified") : Selected(r, c)
    /\ UNCHANGED <<ask, query, mode, threads>> /\ Bounds

\* An exception of the retrieval, in the thread or not.
RetrievalFails(r) ==
    /\ pc[r] \in {"dense", "unified"}
    /\ threads' = threads \ {r}
    /\ Release(r) /\ Yield(r, <<"error", "failed">>) /\ Goto(r, "end")
    /\ UNCHANGED <<ask, query, mode, context, cache>> /\ Bounds

\* No evidence: a fixed answer, without a model.
Insufficient(r) ==
    /\ At(r, "selected") /\ context[r].empty
    /\ Yield(r, <<"text", "citations", "completed">>) /\ Goto(r, "end")
    /\ UNCHANGED <<ask, query, mode, context, gate, threads, cache>> /\ Bounds

\* A chunk of the model's stream.
Chunk(r) ==
    /\ At(r, "selected") \/ At(r, "streaming")
    /\ ~context[r].empty
    /\ Yield(r, <<"text">>) /\ Goto(r, "streaming")
    /\ UNCHANGED <<ask, query, mode, context, gate, threads, cache>> /\ Bounds

\* Mutant: an answer without text is complete as well.
StreamEndsAnyway(r) ==
    /\ At(r, "selected") \/ At(r, "streaming")
    /\ ~context[r].empty
    /\ Yield(r, <<"citations", "completed">>) /\ Goto(r, "end")
    /\ UNCHANGED <<ask, query, mode, context, gate, threads, cache>> /\ Bounds

\* The stream ends: an answer without text is an error.
StreamEnds(r) ==
    /\ At(r, "selected") \/ At(r, "streaming")
    /\ ~context[r].empty
    /\ \/ pc[r] = "streaming" /\ Yield(r, <<"citations", "completed">>)
       \/ Yield(r, <<"error", "failed">>)
    /\ Goto(r, "end")
    /\ UNCHANGED <<ask, query, mode, context, gate, threads, cache>> /\ Bounds

\* The client takes an event.
Send(r) ==
    /\ outbox[r] # <<>> /\ pc[r] # "cancelled"
    /\ outbox' = [outbox EXCEPT ![r] = Tail(@)]
    /\ events' = [events EXCEPT ![r] = Joined(@, Head(outbox[r]))]
    /\ UNCHANGED <<ask, pc, query, mode, context, gate, threads, cache>> /\ Bounds

\* CancelledError at an await, that of the socket included.
Cancel(r) ==
    /\ cancels < MaxCancels /\ cancels' = cancels + 1
    /\ \/ pc[r] \in {"rewriting", "gate", "dense", "unified", "selected", "streaming"}
       \/ outbox[r] # <<>>
    /\ Release(r) /\ Goto(r, "cancelled") /\ outbox' = [outbox EXCEPT ![r] = <<>>]
    /\ UNCHANGED <<ask, query, mode, context, events, threads, cache, expiries>>

Steps(r) ==
    \/ Direct(r) \/ Rewrite(r) \/ Rewritten(r) \/ RewriteTimeout(r) \/ Route(r)
    \/ Select(r) \/ DenseEnds(r) \/ UnifiedEnds(r) \/ RetrievalFails(r)
    \/ Insufficient(r) \/ StreamEnds(r)
Next == Expire \/ \E r \in Requests : Steps(r) \/ Chunk(r) \/ Send(r) \/ Cancel(r)

\* The loop runs every request; a retrieval and a rewrite return or fail, and
\* the model's stream has its deadline (LLMGateway).  Clients may stall for ever.
Fairness == \A r \in Requests : WF_vars(Steps(r))
Spec == Init /\ [][Next]_vars /\ Fairness

-----------------------------------------------------------------------------

TypeOK ==
    /\ \A r \in Requests :
         /\ pc[r] \in {"start", "rewriting", "route", "gate", "dense", "unified", "selected",
                       "streaming", "end", "cancelled"}
         /\ query[r] \in Queries /\ mode[r] \in {"none", "dense", "unified"}
         /\ context[r] \in Contexts \cup {NoContext}
    /\ ToSet(gate) \subseteq Requests /\ threads \subseteq Requests
    /\ Len(cache) <= MaxEntries /\ expiries \in 0..MaxExpiries /\ cancels \in 0..MaxCancels

\* Each request sends the stream of events its client may rely on, with the
\* citations after all of the text (stream and _error_events).
Ended(r) == pc[r] = "cancelled" \/ At(r, "end")
ES == INSTANCE EventStream WITH
        Streams <- Requests, CitationsLast <- TRUE, over <- {r \in Requests : Ended(r)}
ImplementsEventStream == ES!Spec

\* One request at a time selects its context, and a request that has left, by an
\* answer, an error or a cancellation, neither holds the gate nor waits for it
\* (_selection_gate around _resolve_selection).
SelectionSerial ==
    /\ \A r \in Requests : pc[r] \in {"dense", "unified"} => Holds(r)
    /\ \A r \in Requests : Ended(r) => r \notin ToSet(gate)

\* A cached context was found for the question and the mode of its key by a
\* retrieval that ran to its end: neither a cancelled retrieval nor one that
\* failed leaves anything, and an explicit choice of a path is never served what
\* the other one found (_store_retrieval, build_retrieval_cache_key).
CachedContextsFit ==
    \A i \in 1..Len(cache) :
        cache[i].key.about = "context" =>
            /\ cache[i].value.query.text = cache[i].key.text
            /\ cache[i].value.path \in Paths[cache[i].key.scope]

\* Every request gets its context, an error or its cancellation: the gate is not
\* lost, whoever fails or is cancelled while it holds it or waits for it, and it
\* is never held by a request whose client does not take its events (async with).
SelectionEnds == \A r \in Requests : <>(pc[r] \in {"selected", "streaming", "end", "cancelled"})

\* Claimed by rag-qa.md:20 and by test_rag_service.py:303: a follow-up is searched
\* with its rewritten question.  No request is answered from what was found for
\* the subject of another conversation (_cached_retrieval).
ContextIsOwn ==
    \A r \in Requests :
        context[r] # NoContext => context[r].query.about \in {"itself", ask[r].of}
=============================================================================
