------------------------------ MODULE AgentChat ------------------------------
(***************************************************************************)
(* One turn of the chat agent (agent/service.py) behind POST /rag/query    *)
(* (api/rag.py): retrieval, at most one supplementary retrieval, bounded   *)
(* rounds of planning and tools, a streamed answer, a gated one or the     *)
(* standard RAG answer, under the deadline of the turn.  Its model calls   *)
(* go through LLMGateway.                                                  *)
(*                                                                         *)
(* Every event is handed to the client's socket at a yield, where the turn *)
(* waits until the client has taken it.  The deadline, the client's going  *)
(* and the deadline of a model stream all cancel the task at the await it  *)
(* is in, which may be that of the socket.                                 *)
(***************************************************************************)
EXTENDS LLMGateway

CONSTANTS
    MaxRounds,  \* agent_max_rounds
    MaxTools    \* agent_max_tool_calls

ASSUME AgentAssumption == MaxRounds \in Nat \ {0} /\ MaxTools \in Nat \ {0}

VARIABLES
    \* the question: assess_visual_risk, its history, whether app.py has a RAG service
    ask,
    pc,
    round, tries, tools, \* rounds planned, attempts of this plan, tools run
    auto,       \* auto_visual
    visual,     \* visual_executions: none, only failed ones, a completed one
    table,      \* table_outcome: a table tool has completed
    facts,      \* its structured facts are not empty
    emitted,    \* the model's answer has text
    outbox,     \* events to hand to the client before the turn goes on at pc
    held,       \* the complete event, held back until the stream has ended
    sent,       \* the kinds of events the client has received, repetitions joined
    voices,     \* history: what its texts have carried, and whose (see Text)
    cancelling, \* who has cancelled the turn
    over        \* how the response has ended

question == <<ask>>
turn == <<pc, round, tries, tools, auto, visual, table, facts, emitted>>
client == <<held, sent, voices>>
vars == <<gateway, question, turn, outbox, client, cancelling, over>>

NoEvent == [kind |-> "none"]
Status == [kind |-> "status"]
\* A text carries words of the "program", of the answering "model" or of the classic
\* "rag" service, or a "description" by the vision model; of the numbers in that one, a
\* "figure" is one that strip_numeric_claims recognises, and a "lookalike" one that it
\* leaves in: it reads as a year, follows a letter, or is spelled out.
Text(by) == [kind |-> "text", by |-> by]
Citations == [kind |-> "citations"]
Error == [kind |-> "error"]
CompleteError == [kind |-> "complete", status |-> "failed", fact |-> "not_available", tools |-> tools]
Complete(fact) == [kind |-> "complete", status |-> "completed", fact |-> fact, tools |-> tools]

Init ==
    /\ GatewayInit
    /\ ask \in [risk: BOOLEAN, intent: BOOLEAN, history: BOOLEAN, rag: BOOLEAN]
    /\ pc = "history" /\ round = 0 /\ tries = 0 /\ tools = 0
    /\ auto = FALSE /\ visual = "none" /\ table = FALSE /\ facts = FALSE /\ emitted = FALSE
    /\ outbox = <<>> /\ held = NoEvent /\ sent = <<>> /\ voices = {}
    /\ cancelling = "nobody" /\ over = "no"

\* The turn runs: no event is on its way to the client and no call is open.
Running(l) == pc = l /\ over = "no" /\ outbox = <<>> /\ gpc = "idle"
Goto(l) == pc' = l
Yield(s) == outbox' = s
Quiet == UNCHANGED <<question, client, cancelling, over>>
Same == UNCHANGED <<round, tries, tools, auto, visual, table, facts, emitted>>

-----------------------------------------------------------------------------
(* Calls of the gateway *)

Begin(l, k) == Running(l) /\ Call(k) /\ Goto(l) /\ Same /\ Yield(<<>>) /\ Quiet
Returned(l, k) ==
    /\ Calling(k) /\ pc = l /\ over = "no" /\ outbox = <<>> /\ outcome # "cancelled"
    /\ gpc' = "idle"
    /\ UNCHANGED <<kind, attempt, outcome, invocations, usage, answered, unsure, faults>>

\* An exception no handler of the turn expects: the response breaks off.
Unexpected == over' = "broken" /\ UNCHANGED <<question, client, cancelling>>

\* _prepare_history and _rewrite_for_retrieval: any exception skips them.
Optional(l, next) ==
    \/ Running(l) /\ ~ask.history /\ Goto(next) /\ Same /\ Yield(<<>>) /\ Quiet /\ UNCHANGED gateway
    \/ ask.history /\ Begin(l, "complete")
    \* no older turns to summarise, a question that is no follow-up
    \/ Running(l) /\ ask.history /\ Goto(next) /\ Same /\ Yield(<<>>) /\ Quiet /\ UNCHANGED gateway
    \/ Returned(l, "complete") /\ Goto(next) /\ Same /\ Yield(<<>>) /\ Quiet

PrepareHistory == Optional("history", "rewrite")
RewriteForRetrieval == Optional("rewrite", "searching")

-----------------------------------------------------------------------------
(* Retrieval *)

NeedsVisualNumberGate == ask.risk /\ (visual # "none" \/ ask.intent)
Degrade == IF NeedsVisualNumberGate THEN "gated" ELSE "fallback"

AnnounceSearch == Running("searching") /\ Yield(<<Status>>) /\ Goto("retrieve")
                  /\ Same /\ Quiet /\ UNCHANGED gateway

Retrieve ==
    /\ Running("retrieve")
    /\ Yield(<<Status>>)
    /\ Goto(Degrade) \/ Goto("supplement") \/ Goto("plan")
    /\ Same /\ Quiet /\ UNCHANGED gateway

\* Whatever comes of it, the candidates of the first retrieval stay.
SupplementaryRetrieval ==
    /\ Running("supplement")
    /\ Yield(<<Status>>) /\ Goto("plan")
    /\ Same /\ Quiet /\ UNCHANGED gateway

-----------------------------------------------------------------------------
(* Planning and tools *)

Plan == round < MaxRounds /\ Begin("plan", "complete")

\* Mutant: a failing planner goes straight to the standard answer.
FallBack == Goto("fallback")
PlanningFailed == Goto(Degrade)
AfterTools == Goto(IF NeedsVisualNumberGate THEN "gated" ELSE "answer")

\* An answer that is no valid plan is asked for once more.
PlanInvalid ==
    /\ Returned("plan", "complete") /\ outcome = "ok"
    /\ IF tries = 0
       THEN tries' = 1 /\ Goto("plan")
       ELSE tries' = tries /\ PlanningFailed
    /\ Yield(<<>>) /\ Quiet /\ UNCHANGED <<round, tools, auto, visual, table, facts, emitted>>

PlanCallFailed ==
    /\ Returned("plan", "complete") /\ outcome # "ok"
    /\ \/ outcome \in LLMErrors /\ PlanningFailed /\ Quiet
       \/ outcome = "raw" /\ Goto("plan") /\ Unexpected
    /\ Same /\ Yield(<<>>)

\* The plan is final, or the rounds are used up.
PlanFinal ==
    /\ \/ Returned("plan", "complete") /\ outcome = "ok"
       \/ Running("plan") /\ round = MaxRounds /\ UNCHANGED gateway
    /\ AfterTools /\ Same /\ Yield(<<>>) /\ Quiet

\* Mutant: the budget of tool calls is not looked at.
NoBudget == FALSE
OverBudget == tools >= MaxTools

\* A tool the budget or an earlier identical call rules out.
PlanSkipped ==
    /\ Returned("plan", "complete") /\ outcome = "ok"
    /\ OverBudget \/ tools > 0
    /\ Yield(<<Status>>) /\ AfterTools /\ Same /\ Quiet

\* A tool the planner chose, or the image analysis a final plan would skip.
PlanTool(t) ==
    /\ Returned("plan", "complete") /\ outcome = "ok"
    /\ ~OverBudget
    /\ \/ auto' = auto
       \/ t = "image" /\ ~auto /\ auto' = TRUE
    /\ Yield(<<Status>>) /\ Goto(t)
    /\ round' = round + 1 /\ tries' = 0
    /\ UNCHANGED <<tools, visual, table, facts, emitted>> /\ Quiet

\* tool_calls counts a tool before it runs; a failing tool is an outcome too.
RunImage ==
    /\ Running("image")
    /\ visual' \in {"completed", IF visual = "completed" THEN "completed" ELSE "failed"}
    /\ tools' = tools + 1
    /\ Yield(<<Status>>) /\ Goto("plan") /\ Quiet
    /\ UNCHANGED <<gateway, round, tries, auto, table, facts, emitted>>

RunTable ==
    /\ Running("table")
    /\ \/ table' = TRUE /\ facts' \in BOOLEAN
       \/ UNCHANGED <<table, facts>>
    /\ tools' = tools + 1
    /\ Yield(<<Status>>) /\ Goto("plan") /\ Quiet
    /\ UNCHANGED <<gateway, round, tries, auto, visual, emitted>>

-----------------------------------------------------------------------------
(* Answers *)

\* The answer in the payload of the last completed image analysis, if it is a text.
Descriptions == {{}} \cup {{"description"} \cup n : n \in SUBSET {"figure", "lookalike"}}
\* Mutant: the description is quoted as it is.
Quoted(text) == text
\* strip_numeric_claims.
Masked(text) == text \ {"figure"}
\* build_gated_visual_answer: words of the program, and the masked description.
GatedTexts ==
    IF visual = "completed" THEN {{"program"} \cup Masked(d) : d \in Descriptions} ELSE {{"program"}}
\* _safety_gated_events: the answering model is not asked; the sources come first.
GatedFact ==
    IF visual = "completed" THEN "unverified"
    ELSE IF facts THEN "source_verified" ELSE "not_available"
SafetyGated ==
    /\ Running("gated")
    /\ \E cited \in {<<Citations>>, <<>>}, by \in GatedTexts :
          Yield(cited \o <<Text(by), Complete(GatedFact)>>)
    /\ Goto("end") /\ Same /\ Quiet /\ UNCHANGED gateway

Deterministic == ask.risk /\ table /\ visual = "none"
DeterministicTable ==
    /\ Running("answer") /\ Deterministic
    /\ Yield(<<Text({"program"}), Citations, Complete("source_verified")>>)
    /\ Goto("end") /\ Same /\ Quiet /\ UNCHANGED gateway

Answer == ~Deterministic /\ ~emitted /\ Begin("answer", "stream")

\* A chunk of the answer, of which the marker filter may hold everything back.
Chunk ==
    /\ pc = "answer" /\ over = "no" /\ outbox = <<>>
    /\ YieldEvent /\ Yield(<<Text({"model"})>>)
    /\ emitted' = TRUE /\ Goto("answer")
    /\ UNCHANGED <<round, tries, tools, auto, visual, table, facts>> /\ Quiet

AnswerFact ==
    IF table /\ visual = "none" THEN "source_verified"
    ELSE IF visual = "completed" THEN "unverified" ELSE "not_available"
AnswerDone ==
    /\ Returned("answer", "stream") /\ outcome = "ok"
    /\ \/ emitted /\ Yield(<<Citations, Complete(AnswerFact)>>)
       \* the filter still holds the tail
       \/ Yield(<<Text({"model"}), Citations, Complete(AnswerFact)>>)
       \/ ~emitted /\ Yield(<<Error, CompleteError>>)
    /\ Goto("end") /\ Same /\ Quiet

AnswerFailed ==
    /\ Returned("answer", "stream") /\ outcome # "ok"
    /\ Goto("end") /\ Same
    /\ \/ outcome \in LLMErrors /\ Yield(<<Error, CompleteError>>) /\ Quiet
       \/ outcome = "raw" /\ Yield(<<>>) /\ Unexpected

\* _fallback_events: a notice, then the stream of the RAG service, an EventStream,
\* whose complete event gets the turn's own fields.
Fallback ==
    /\ Running("fallback")
    /\ \/ ~ask.rag /\ Yield(<<Text({"program"}), Error, CompleteError>>) /\ Goto("end")
       \/ ask.rag /\ Yield(<<Text({"program"})>>) /\ Goto("rag")
    /\ Same /\ Quiet /\ UNCHANGED gateway

RagEvents ==
    /\ Running("rag")
    /\ \/ Yield(<<Text({"rag"})>>) /\ Goto("rag")
       \/ Yield(<<Citations, Complete("not_available")>>) /\ Goto("end")
       \/ Yield(<<Error, CompleteError>>) /\ Goto("end")
    /\ Same /\ Quiet /\ UNCHANGED gateway

-----------------------------------------------------------------------------
(* The response: _agent_events and _trusted_event_stream *)

Joined(s, k) == IF s # <<>> /\ s[Len(s)] = k THEN s ELSE Append(s, k)

\* The client takes an event, or the complete event is held back; the gateway's
\* stream goes on after its own.
Send ==
    /\ over = "no" /\ outbox # <<>>
    /\ LET e == Head(outbox) IN
       /\ outbox' = Tail(outbox)
       /\ held' = IF e.kind = "complete" THEN e ELSE held
       /\ sent' = IF e.kind \in {"status", "complete"} THEN sent ELSE Joined(sent, e.kind)
       /\ voices' = IF e.kind = "text" THEN voices \cup e.by ELSE voices
    /\ IF gpc = "yielded" THEN Resume ELSE UNCHANGED gateway
    /\ UNCHANGED <<question, turn, cancelling, over>>

\* The stream has ended; a trust record is attempted first, and its failure only
\* leaves the record out.
SendComplete ==
    /\ pc = "end" /\ over = "no" /\ outbox = <<>> /\ held # NoEvent
    /\ sent' = Append(sent, held.status) /\ over' = "complete"
    /\ UNCHANGED <<gateway, question, turn, outbox, held, voices, cancelling>>

-----------------------------------------------------------------------------
(* Cancellation *)

Break(who) ==
    /\ over' = "broken" /\ cancelling' = who /\ outbox' = <<>>
    /\ UNCHANGED <<gateway, question, turn, client>>

\* Mutant: the complete event comes alone.
TimedOutSilently == <<[CompleteError EXCEPT !.tools = 0]>>
TimedOut == <<Error, [CompleteError EXCEPT !.tools = 0]>>

\* Where the turn itself awaits something, between calls of the gateway.
Awaiting == gpc = "idle" /\ pc \in {"retrieve", "supplement", "image", "table", "rag"}
\* agent_timeout_seconds: CancelledError at the await the turn is in.  Only
\* inside _agent_events does it become an error and a complete event; at the
\* await of the socket it ends the response.
TurnDeadline ==
    /\ over = "no" /\ cancelling = "nobody" /\ pc # "end"
    /\ IF outbox # <<>> THEN Break("deadline")
       ELSE IF Busy
       THEN /\ Cancel /\ cancelling' = "deadline"
            /\ UNCHANGED <<question, turn, outbox, client, over>>
       ELSE /\ Awaiting
            /\ cancelling' = "deadline" /\ Goto("end") /\ Yield(TimedOut)
            /\ UNCHANGED <<gateway, question, client, over>> /\ Same

\* The events of the timeout, or of an answer, are on their way when it strikes.
LateDeadline == over = "no" /\ cancelling = "nobody" /\ pc = "end" /\ outbox # <<>>
                /\ Break("deadline")

\* The client goes away.
Disconnect ==
    /\ over = "no" /\ cancelling # "client"
    /\ IF outbox = <<>> /\ Busy
       THEN /\ Cancel /\ cancelling' = "client"
            /\ UNCHANGED <<question, turn, outbox, client, over>>
       ELSE /\ outbox # <<>> \/ Awaiting \/ pc = "end"
            /\ Break("client")

\* llm_timeout_seconds strikes while the stream waits for its consumer: the
\* consumer's await is cancelled, which is that of the socket.
StreamDeadline == over = "no" /\ gpc = "yielded" /\ outbox # <<>> /\ Break("stream")

\* The gateway has unwound.
Cancelled ==
    /\ gpc = "returned" /\ outcome = "cancelled" /\ over = "no" /\ cancelling # "nobody"
    /\ gpc' = "idle"
    /\ UNCHANGED <<kind, attempt, outcome, invocations, usage, answered, unsure, faults>>
    /\ IF cancelling = "deadline"
       THEN Yield(TimedOut) /\ over' = over ELSE Yield(<<>>) /\ over' = "broken"
    /\ Goto("end") /\ Same /\ UNCHANGED <<question, client, cancelling>>

\* Mutant: nobody closes it.
LeaveOpen == FALSE
\* An abandoned stream is closed by the event loop.
CloseAbandoned == over # "no" /\ CloseStream
                  /\ UNCHANGED <<question, turn, outbox, client, cancelling, over>>

Rest == UNCHANGED <<question, turn, outbox, client, cancelling, over>>
Provider == ProviderEnds /\ Rest
ProviderDeadline == Deadline /\ Rest
Retrying == Backoff /\ Rest
Recording == (RecordInvocation \/ RecordUsage) /\ Rest

Steps ==
    \/ PrepareHistory \/ RewriteForRetrieval \/ AnnounceSearch
    \/ Plan \/ PlanInvalid \/ PlanCallFailed \/ PlanFinal \/ PlanSkipped
    \/ \E t \in {"image", "table"} : PlanTool(t)
    \/ SafetyGated \/ DeterministicTable \/ Answer \/ AnswerDone \/ AnswerFailed
    \/ Fallback \/ SendComplete \/ Cancelled \/ CloseAbandoned
    \/ Retrying \/ Recording
\* What others do in their own time.
Others ==
    \/ Provider \/ Chunk \/ Retrieve \/ SupplementaryRetrieval \/ RunImage \/ RunTable
    \/ RagEvents \/ Send \/ Disconnect
Deadlines == ProviderDeadline \/ TurnDeadline \/ StreamDeadline \/ LateDeadline

Next == Steps \/ Others \/ Deadlines
\* The program's own steps and its writes to the database come to an end, and
\* so does a turn's time; the provider, the indexes, the tools and the client
\* may stall for ever.
Spec == Init /\ [][Next]_vars /\ WF_vars(Steps) /\ WF_vars(TurnDeadline \/ LateDeadline)

-----------------------------------------------------------------------------

Kinds == {"text", "citations", "error", "completed", "failed"}
Carried == {"program", "model", "rag", "description", "figure", "lookalike"}
TypeOK ==
    /\ GatewayTypeOK
    /\ pc \in {"history", "rewrite", "searching", "retrieve", "supplement", "plan", "image",
               "table", "gated", "answer", "fallback", "rag", "end"}
    /\ round \in 0..MaxRounds /\ tries \in 0..1 /\ tools \in 0..MaxTools
    /\ auto \in BOOLEAN /\ table \in BOOLEAN /\ facts \in BOOLEAN /\ emitted \in BOOLEAN
    /\ visual \in {"none", "failed", "completed"}
    /\ Len(outbox) <= 3 /\ sent \in Seq(Kinds) /\ voices \subseteq Carried
    /\ cancelling \in {"nobody", "deadline", "client", "stream"}
    /\ over \in {"no", "complete", "broken"}

\* What the client receives is the stream of events it may rely on, whatever is
\* cancelled, times out or fails on the way (_answer_events, _fallback_events,
\* _agent_events and the complete event _trusted_event_stream holds back).
ES == INSTANCE EventStream WITH
        Streams <- {"turn"}, CitationsLast <- FALSE,
        events <- [t \in {"turn"} |-> sent],
        over <- IF over = "no" THEN {} ELSE {"turn"}
ImplementsEventStream == ES!Spec

NumbersGated == ask.risk /\ (ask.intent \/ visual # "none")

\* A high-risk question that asks for visual numbers, or for which a visual tool
\* has run, is never answered by the answering model or the classic service,
\* whichever way the turn takes after a failing retrieval, planner or tool; what
\* it is told of the image has passed the mask, so that no number the mask
\* recognises reaches the client.  And an answer is reported as verified by its
\* source only if a table tool has completed and no image analysis has
\* (_needs_visual_number_gate at its four places, build_gated_visual_answer,
\* _answer_events).
VisualNumbersWithheld ==
    /\ NumbersGated => voices \cap {"model", "rag", "figure"} = {}
    /\ held # NoEvent /\ held.fact = "source_verified" => table /\ visual # "completed"

\* A turn that is cancelled at an await, by its deadline or by the client, only
\* unwinds: no handler takes the cancellation for a failure it may go on after,
\* not even when the record of the interrupted model call cannot be written
\* (complete() and stream() raise the cancellation from the failed write).
CancelRespected ==
    [][cancelling # "nobody" =>
         /\ pc' \in {pc, "end"} /\ tools' = tools /\ attempt' = attempt /\ voices' = voices]_vars

\* However long the provider, the indexes, the tools or the client stall, the
\* work of a turn ends and no stream stays open at the provider: what is left is
\* a client that takes its last events (asyncio.timeout in _agent_events and
\* _invoke_once, aclosing, the bounded rounds).
TurnEnds == <>[](gpc \in {"idle", "returned"} /\ (over # "no" \/ pc = "end"))
=============================================================================
