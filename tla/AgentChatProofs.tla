--------------------------- MODULE AgentChatProofs ---------------------------
(***************************************************************************)
(* Theorems about AgentChat and the LLMGateway it runs on, for any bounds  *)
(* on retries, rounds, tools and faults: types, the account of a call, the *)
(* numbers that are withheld, what a cancelled turn may still do, and the  *)
(* turn as an implementation of EventStream.                               *)
(*                                                                         *)
(* The inductive invariant has one part per concern: what the gateway has  *)
(* recorded where (GatewayInv), where the turn stands (TurnInv), where it  *)
(* may have a call open (CallInv), what the client has got and gets next   *)
(* (ReplyInv), and what is left of a cancelled call (UnwindInv).           *)
(***************************************************************************)
EXTENDS AgentChat, SequenceTheorems, TLAPS

(* The gateway *)

Outcomes == {"success", "failure", "cancelled"}
NoSuccess == \A i \in 1..Len(invocations) : invocations[i] # "success"

\* Until its record an attempt has left no trace but those of the attempts before it, all
\* of them failures; only a call that answers is on record as a success.
GatewayInv ==
    /\ GatewayTypeOK
    /\ gpc \in {"provider", "yielded", "record"} =>
         Len(invocations) = attempt - 1 /\ attempt >= 1 /\ unsure = 0 /\ usage = <<>> /\ NoSuccess
    /\ gpc \in {"provider", "yielded"} => outcome = "none"
    /\ gpc = "yielded" => kind = "stream"
    /\ gpc = "backoff" =>
         /\ kind = "complete" /\ attempt \in 1..MaxRetries
         /\ Len(invocations) = attempt /\ unsure = 0 /\ usage = <<>> /\ NoSuccess
    /\ gpc = "usage" =>
         /\ attempt <= Len(invocations) + unsure /\ Len(invocations) <= attempt /\ usage = <<>>
         /\ outcome = "ok" => Len(invocations) = attempt /\ invocations[attempt] = "success"
         /\ \A i \in 1..Len(invocations) : invocations[i] = "success" => i = Len(invocations)
    /\ AttemptsAccounted

\* The bounds as numbers, one by one.
LEMMA Bounded ==
    /\ MaxRetries \in Nat /\ MaxFaults \in Nat
    /\ MaxRounds \in Nat \ {0} /\ MaxTools \in Nat \ {0}
  BY GatewayAssumption, AgentAssumption DEF GatewayAssumption, AgentAssumption

\* A call begins, or goes on at the provider.
LEMMA CallKeeps ==
    ASSUME MaxRetries \in Nat, GatewayInv, NEW k \in {"complete", "stream"}, Call(k) PROVE GatewayInv'
<1>1. 1 \in 0..(MaxRetries + 1)
  OBVIOUS
<1>2. invocations' \in Seq({"success", "failure", "cancelled"}) /\ usage' \in Seq(BOOLEAN)
  BY EmptySeq DEF Call
<1>3. answered' \in BOOLEAN
  BY Zenon DEF Call
<1>4. GatewayTypeOK'
  BY <1>1, <1>2, <1>3 DEF GatewayInv, GatewayTypeOK, Call
<1> QED BY <1>4 DEF GatewayInv, Call, NoSuccess, AttemptsAccounted

\* An attempt ends, and has yet to be recorded unless the service is not configured.
LEMMA AttemptedKeeps ==
    ASSUME GatewayInv, NEW o, Attempted(o), o \in {"ok"} \cup LLMErrors, o = "configuration" => attempt = 1
    PROVE  GatewayInv'
<1>1. answered' \in BOOLEAN
  BY Zenon DEF Attempted
<1>2. GatewayTypeOK'
  BY <1>1 DEF GatewayInv, GatewayTypeOK, Attempted, LLMErrors
<1>3. /\ gpc = "provider" /\ gpc' = (IF o = "configuration" THEN "returned" ELSE "record")
      /\ outcome' = o /\ UNCHANGED <<kind, attempt, invocations, usage, unsure, faults>>
  BY DEF Attempted
<1>4. Len(invocations) = attempt - 1 /\ attempt >= 1 /\ unsure = 0 /\ usage = <<>> /\ NoSuccess
  BY <1>3 DEF GatewayInv
<1>5. NoSuccess' /\ Len(usage') <= 1
  BY <1>3, <1>4 DEF NoSuccess
<1>6. AttemptsAccounted'
  BY <1>3, <1>4, <1>5 DEF AttemptsAccounted, NoSuccess
<1> QED BY <1>2, <1>3, <1>4, <1>5, <1>6 DEF GatewayInv

\* The next attempt begins with the last one on record.
LEMMA BackoffKeeps ==
    ASSUME MaxRetries \in Nat, GatewayInv, Backoff PROVE GatewayInv'
<1>1. attempt' = attempt + 1 /\ attempt \in 1..MaxRetries
  BY DEF GatewayInv, Backoff
<1>2. GatewayTypeOK'
  BY <1>1 DEF GatewayInv, GatewayTypeOK, Backoff
<1> QED BY <1>1, <1>2 DEF GatewayInv, Backoff, NoSuccess, AttemptsAccounted

\* What a stream hands on changes no record.
LEMMA StreamKeeps ==
    ASSUME GatewayInv, YieldEvent \/ Resume \/ CloseStream PROVE GatewayInv'
<1>1. GatewayTypeOK'
  BY DEF GatewayInv, GatewayTypeOK, YieldEvent, Resume, CloseStream
<1> QED BY <1>1 DEF GatewayInv, YieldEvent, Resume, CloseStream, NoSuccess, AttemptsAccounted

\* The record of an attempt is the last one.
LEMMA RecordAttempt ==
    ASSUME MaxRetries \in Nat, GatewayInv, gpc = "record", Applied(invocations, Outcome)
    PROVE  /\ invocations' \in Seq(Outcomes) /\ Len(invocations') = attempt
           /\ invocations'[attempt] = Outcome
           /\ \A i \in 1..Len(invocations') : invocations'[i] = "success" => i = Len(invocations')
           /\ Outcome # "success" => NoSuccess'
<1>1. invocations \in Seq(Outcomes) /\ Len(invocations) = attempt - 1 /\ NoSuccess
      /\ attempt \in Nat /\ attempt >= 1
  BY DEF GatewayInv, GatewayTypeOK, Outcomes
<1>2. Outcome \in Outcomes
  BY DEF Outcome, Outcomes
<1>3. /\ invocations' \in Seq(Outcomes) /\ Len(invocations') = Len(invocations) + 1
      /\ \A i \in 1..Len(invocations) : invocations'[i] = invocations[i]
      /\ invocations'[Len(invocations) + 1] = Outcome
  BY <1>1, <1>2, AppendProperties DEF Applied
<1>4. \A i \in 1..Len(invocations') : i = attempt \/ i \in 1..Len(invocations)
  BY <1>1, <1>3
<1> QED BY <1>1, <1>3, <1>4 DEF NoSuccess

\* The record of a call is its only one.
LEMMA RecordCall ==
    ASSUME GatewayInv, gpc = "usage", Applied(usage, outcome = "ok")
    PROVE  /\ usage' \in Seq(BOOLEAN) /\ Len(usage') <= 1
           /\ outcome = "ok" => usage' = <<TRUE>>
<1>1. usage = <<>>
  BY DEF GatewayInv
<1>2. PICK x \in BOOLEAN : x = (outcome = "ok")
  OBVIOUS
<1>3. Applied(usage, x)
  BY <1>2 DEF Applied
<1>4. usage' = <<x>>
  BY <1>1, <1>3 DEF Applied
<1>5. outcome = "ok" => x = TRUE
  BY <1>2
<1>6. usage' \in Seq(BOOLEAN) /\ Len(usage') <= 1
  BY <1>4
<1> QED BY <1>4, <1>5, <1>6

\* A write that is cancelled or fails has left the record or not.
LEMMA MayRecordCall ==
    ASSUME GatewayInv, gpc = "usage", MaybeApplied(usage, outcome = "ok")
    PROVE  usage' \in Seq(BOOLEAN) /\ Len(usage') <= 1
<1>1. CASE Applied(usage, outcome = "ok")
  BY <1>1, RecordCall
<1>2. CASE usage' = usage
  <2>1. usage' = <<>>
    BY <1>2 DEF GatewayInv
  <2> QED BY <2>1, EmptySeq
<1> QED BY <1>1, <1>2 DEF MaybeApplied

\* The record of an attempt, and a write of it that fails.
LEMMA RecordInvocationKeeps ==
    ASSUME MaxRetries \in Nat, MaxFaults \in Nat, GatewayInv, RecordInvocation PROVE GatewayInv'
<1>1. gpc = "record" /\ UNCHANGED <<kind, attempt, usage, answered>>
  BY DEF RecordInvocation
<1>2. /\ attempt \in 1..(MaxRetries + 1) /\ unsure = 0 /\ usage = <<>> /\ NoSuccess
      /\ Len(invocations) = attempt - 1 /\ invocations \in Seq(Outcomes)
      /\ outcome \in {"none", "ok", "raw", "cancelled", "closed"} \cup LLMErrors /\ faults \in 0..MaxFaults
      /\ kind \in {"complete", "stream"} /\ answered \in BOOLEAN
  BY <1>1 DEF GatewayInv, GatewayTypeOK, Outcomes
<1>3. CASE /\ Applied(invocations, Outcome) /\ gpc' = IF Retry THEN "backoff" ELSE "usage"
           /\ UNCHANGED <<outcome, unsure, faults>>
  <2>1. /\ invocations' \in Seq(Outcomes) /\ Len(invocations') = attempt
        /\ invocations'[attempt] = Outcome
        /\ \A i \in 1..Len(invocations') : invocations'[i] = "success" => i = Len(invocations')
        /\ Outcome # "success" => NoSuccess'
    BY <1>1, <1>3, RecordAttempt
  <2>2. GatewayTypeOK'
    BY <1>1, <1>2, <1>3, <2>1 DEF GatewayTypeOK, Outcomes
  <2>3. CASE Retry
    <3>1. NoSuccess' /\ attempt \in 1..MaxRetries /\ kind = "complete"
      BY <1>2, <2>1, <2>3 DEF Retry, Outcome
    <3> QED BY <1>1, <1>2, <1>3, <2>1, <2>2, <2>3, <3>1 DEF GatewayInv, AttemptsAccounted
  <2>4. CASE ~Retry
    <3>1. outcome = "ok" => Outcome = "success"
      BY DEF Outcome
    <3> QED BY <1>1, <1>2, <1>3, <2>1, <2>2, <2>4, <3>1 DEF GatewayInv, AttemptsAccounted
  <2> QED BY <2>3, <2>4
<1>4. CASE /\ faults < MaxFaults /\ faults' = faults + 1
           /\ MaybeApplied(invocations, Outcome)
           /\ outcome' \in Broken /\ unsure' = unsure + 1
           /\ gpc' = IF kind = "stream" THEN "returned" ELSE "usage"
  <2>1. outcome' \in {"cancelled", "persistence", "raw"}
    BY <1>4 DEF Broken
  <2>2. /\ invocations' \in Seq(Outcomes) /\ Len(invocations') \in {attempt - 1, attempt}
        /\ \A i \in 1..Len(invocations') : invocations'[i] = "success" => i = Len(invocations')
    BY <1>1, <1>2, <1>4, RecordAttempt DEF MaybeApplied, NoSuccess
  <2>3. GatewayTypeOK'
    BY <1>1, <1>2, <1>4, <2>1, <2>2 DEF GatewayTypeOK, Outcomes, LLMErrors
  <2>4. attempt <= Len(invocations') + unsure' /\ Len(invocations') <= attempt
    BY <1>2, <1>4, <2>2
  <2>5. usage' = <<>> /\ Len(usage') <= 1 /\ attempt' = attempt /\ outcome' # "ok"
    BY <1>1, <1>2, <2>1
  <2> QED BY <1>4, <2>2, <2>3, <2>4, <2>5 DEF GatewayInv, AttemptsAccounted
<1> QED BY <1>3, <1>4 DEF RecordInvocation

\* The record of a call, and a write of it that fails.
LEMMA RecordUsageKeeps ==
    ASSUME MaxFaults \in Nat, GatewayInv, RecordUsage PROVE GatewayInv'
<1>1. /\ gpc = "usage" /\ gpc' = "returned"
      /\ UNCHANGED <<kind, attempt, invocations, answered, unsure>>
  BY DEF RecordUsage
<1>2. /\ usage = <<>> /\ attempt <= Len(invocations) + unsure /\ Len(invocations) <= attempt
      /\ outcome = "ok" => Len(invocations) = attempt /\ invocations[attempt] = "success"
      /\ \A i \in 1..Len(invocations) : invocations[i] = "success" => i = Len(invocations)
  BY <1>1 DEF GatewayInv
<1>3. /\ usage' \in Seq(BOOLEAN) /\ Len(usage') <= 1
      /\ outcome' = "ok" => outcome = "ok" /\ usage' = <<TRUE>>
  <2>1. CASE Applied(usage, outcome = "ok") /\ outcome' = IF outcome = "raw" THEN "fatal" ELSE outcome
    <3>1. outcome' = "ok" => outcome = "ok"
      BY <2>1
    <3>2. /\ usage' \in Seq(BOOLEAN) /\ Len(usage') <= 1
          /\ outcome = "ok" => usage' = <<TRUE>>
      BY <1>1, <2>1, RecordCall
    <3> QED BY <3>1, <3>2
  <2>2. CASE MaybeApplied(usage, outcome = "ok") /\ outcome' \in Broken
    <3>1. outcome' # "ok"
      BY <2>2 DEF Broken
    <3>2. usage' \in Seq(BOOLEAN) /\ Len(usage') <= 1
      BY <1>1, <2>2, MayRecordCall
    <3> QED BY <3>1, <3>2
  <2> QED BY <2>1, <2>2 DEF RecordUsage
<1>4. outcome' \in {"none", "ok", "raw", "cancelled", "closed"} \cup LLMErrors /\ faults' \in 0..MaxFaults
  BY DEF RecordUsage, Broken, GatewayInv, GatewayTypeOK, LLMErrors
<1>5. GatewayTypeOK'
  BY <1>1, <1>3, <1>4 DEF GatewayInv, GatewayTypeOK
<1> QED BY <1>1, <1>2, <1>3, <1>5 DEF GatewayInv, AttemptsAccounted

\* A cancellation at each of the awaits of a call.
LEMMA CancelKeepsAccount ==
    ASSUME MaxRetries \in Nat, GatewayInv, Cancel PROVE GatewayInv'
<1>1. outcome' = "cancelled" /\ UNCHANGED <<kind, attempt, answered, faults>>
  BY DEF Cancel
<1>2. attempt \in Nat /\ unsure \in Nat /\ invocations \in Seq(Outcomes) /\ usage \in Seq(BOOLEAN)
  BY DEF GatewayInv, GatewayTypeOK, Outcomes
<1>3. CASE gpc = "provider" /\ gpc' = "record" /\ UNCHANGED <<invocations, usage, unsure>>
  <2>1. GatewayTypeOK'
    BY <1>1, <1>3 DEF GatewayInv, GatewayTypeOK
  <2> QED BY <1>1, <1>3, <2>1 DEF GatewayInv, NoSuccess, AttemptsAccounted
<1>4. CASE gpc = "backoff" /\ gpc' = "usage" /\ UNCHANGED <<invocations, usage, unsure>>
  <2>1. GatewayTypeOK'
    BY <1>1, <1>4 DEF GatewayInv, GatewayTypeOK
  <2> QED BY <1>1, <1>2, <1>4, <2>1 DEF GatewayInv, NoSuccess, AttemptsAccounted
<1>5. CASE /\ gpc = "record" /\ gpc' = (IF kind = "stream" THEN "returned" ELSE "usage")
           /\ MaybeApplied(invocations, Outcome) /\ unsure' = unsure + 1 /\ usage' = usage
  <2>1. /\ usage = <<>> /\ attempt >= 1 /\ unsure = 0
        /\ Len(invocations) = attempt - 1 /\ NoSuccess
    BY <1>5 DEF GatewayInv
  <2>2. /\ invocations' \in Seq(Outcomes) /\ Len(invocations') \in {attempt - 1, attempt}
        /\ \A i \in 1..Len(invocations') : invocations'[i] = "success" => i = Len(invocations')
    BY <1>2, <1>5, <2>1, RecordAttempt DEF MaybeApplied, NoSuccess
  <2>3. GatewayTypeOK'
    BY <1>1, <1>2, <1>5, <2>2 DEF GatewayInv, GatewayTypeOK, Outcomes
  <2>4. attempt <= Len(invocations') + unsure' /\ Len(invocations') <= attempt
    BY <1>2, <1>5, <2>1, <2>2
  <2>5. usage' = <<>> /\ Len(usage') <= 1
    BY <1>5, <2>1
  <2> QED BY <1>1, <1>5, <2>2, <2>3, <2>4, <2>5 DEF GatewayInv, AttemptsAccounted
<1>6. CASE /\ gpc = "usage" /\ gpc' = "returned" /\ MaybeApplied(usage, outcome = "ok")
           /\ UNCHANGED <<invocations, unsure>>
  <2>1. usage' \in Seq(BOOLEAN) /\ Len(usage') <= 1
    BY <1>6, MayRecordCall
  <2>2. GatewayTypeOK'
    BY <1>1, <1>6, <2>1 DEF GatewayInv, GatewayTypeOK
  <2> QED BY <1>1, <1>6, <2>1, <2>2 DEF GatewayInv, AttemptsAccounted
<1> QED BY <1>3, <1>4, <1>5, <1>6 DEF Cancel

\* What a turn does with its gateway.
GatewayStep ==
    \/ \E k \in {"complete", "stream"} : Call(k)
    \/ ProviderEnds \/ Deadline \/ Backoff \/ YieldEvent \/ Resume \/ CloseStream
    \/ RecordInvocation \/ RecordUsage \/ Cancel
    \/ /\ gpc = "returned" /\ gpc' = "idle"
       /\ UNCHANGED <<kind, attempt, outcome, invocations, usage, answered, unsure, faults>>
    \/ UNCHANGED gateway

\* Every step keeps the account of the call.
LEMMA GatewayKeeps ==
    ASSUME MaxRetries \in Nat, MaxFaults \in Nat, GatewayInv, GatewayStep PROVE GatewayInv'
<1>1. CASE ProviderEnds
  <2>1. PICK o \in ProviderOutcomes : Attempted(o)
    BY <1>1 DEF ProviderEnds
  <2>2. o \in {"ok"} \cup LLMErrors /\ (o = "configuration" => attempt = 1)
    BY DEF ProviderOutcomes, LLMErrors
  <2> QED BY <2>1, <2>2, AttemptedKeeps
<1>2. CASE Deadline
  <2>1. PICK o \in {"retryable", "fatal"} : Attempted(o)
    BY <1>2 DEF Deadline
  <2> QED BY <2>1, AttemptedKeeps DEF LLMErrors
<1>3. CASE /\ gpc = "returned" /\ gpc' = "idle"
           /\ UNCHANGED <<kind, attempt, outcome, invocations, usage, answered, unsure, faults>>
  <2>1. GatewayTypeOK'
    BY <1>3 DEF GatewayInv, GatewayTypeOK
  <2> QED BY <1>3, <2>1 DEF GatewayInv, AttemptsAccounted
<1>4. CASE UNCHANGED gateway
  BY <1>4 DEF gateway, GatewayInv, GatewayTypeOK, NoSuccess, AttemptsAccounted
<1> QED BY <1>1, <1>2, <1>3, <1>4, CallKeeps, BackoffKeeps, StreamKeeps, RecordInvocationKeeps,
           RecordUsageKeeps, CancelKeepsAccount DEF GatewayStep

\* An attempt that is cancelled, or has ended, begins no other.
LEMMA UnwindingStays ==
    ASSUME outcome = "cancelled", RecordInvocation \/ RecordUsage
    PROVE  outcome' = "cancelled" /\ attempt' = attempt /\ gpc' \in {"usage", "returned"}
  BY DEF RecordInvocation, RecordUsage, Broken, Retry
-----------------------------------------------------------------------------
(* The turn *)

EarlyPlaces == {"history", "rewrite", "searching", "retrieve", "supplement", "plan", "image", "table"}
TurnPlaces == EarlyPlaces \cup {"gated", "answer", "fallback", "rag", "end"}

TurnInv ==
    /\ pc \in TurnPlaces /\ ask.risk \in BOOLEAN /\ ask.intent \in BOOLEAN
    /\ round \in 0..MaxRounds /\ tries \in 0..1 /\ tools \in 0..MaxTools
    /\ auto \in BOOLEAN /\ table \in BOOLEAN /\ facts \in BOOLEAN /\ emitted \in BOOLEAN
    /\ visual \in {"none", "failed", "completed"}
    /\ cancelling \in {"nobody", "deadline", "client", "stream"} /\ over \in {"no", "complete", "broken"}
    /\ facts => table
    /\ pc \in {"image", "table"} => tools < MaxTools
    /\ pc = "plan" /\ gpc # "idle" => round < MaxRounds

\* Where a call is open, and what is left of it when the response has ended.
CallInv ==
    /\ gpc # "idle" /\ over = "no" =>
         \/ pc \in {"history", "rewrite", "plan"} /\ kind = "complete"
         \/ pc = "answer" /\ kind = "stream"
    /\ over = "no" /\ outbox # <<>> => gpc \in {"idle", "yielded"}
    /\ over = "no" /\ gpc = "yielded" => outbox = <<Text({"model"})>>
    /\ over # "no" => /\ outbox = <<>> /\ gpc \in {"idle", "yielded", "record", "usage", "returned"}
                      /\ gpc # "idle" => kind = "stream"

\* What the texts for the client may carry, and how an answer may be reported.
Speakers == IF NeedsVisualNumberGate THEN {"program", "description", "lookalike"} ELSE Carried
Texts == {Text(by) : by \in SUBSET Speakers}
Reports == [kind: {"complete"}, status: {"completed", "failed"},
            fact: {"source_verified", "unverified", "not_available"}, tools: 0..MaxTools]
Answered == {e \in Reports : e.status = "completed"
                              /\ (e.fact = "source_verified" => table /\ visual # "completed")}
Failures == {e \in Reports : e.status = "failed" /\ e.fact = "not_available"}

\* What the client has got and what it gets next, at the end of a turn.
Finishing(h, s, o) ==
    \/ h = NoEvent /\ \E t \in Texts, e \in Answered :
         \/ s = <<>> /\ o \in {<<Citations, t, e>>, <<t, e>>, <<t, Citations, e>>}
         \/ s = <<"citations">> /\ o = <<t, e>>
         \/ s \in {<<"citations", "text">>, <<"text", "citations">>} /\ o = <<e>>
         \/ s = <<"text">> /\ o \in {<<e>>, <<Citations, e>>, <<t, Citations, e>>}
    \/ h = NoEvent /\ \E t \in Texts, e \in Failures :
         \/ s = <<>> /\ o \in {<<Error, e>>, <<t, Error, e>>}
         \/ s = <<"text">> /\ o = <<Error, e>>
         \/ s \in {<<"error">>, <<"text", "error">>} /\ o = <<e>>
    \/ o = <<>> /\ h \in Answered
       /\ s \in {<<"citations", "text">>, <<"text", "citations">>, <<"text">>}
    \/ o = <<>> /\ h \in Failures /\ s \in {<<"error">>, <<"text", "error">>}

ReplyInv ==
    /\ voices \subseteq Speakers
    /\ held # NoEvent => held \in Answered \cup Failures
    /\ pc \in {"answer", "fallback", "rag"} => ~NeedsVisualNumberGate
    /\ pc \in EarlyPlaces \cup {"gated", "fallback"} =>
         /\ voices = {} /\ held = NoEvent /\ sent = <<>> /\ ~emitted
         /\ outbox \in {<<>>, <<Status>>}
    /\ pc = "answer" =>
         /\ held = NoEvent /\ sent \in {<<>>, <<"text">>}
         /\ outbox \in {<<>>, <<Status>>, <<Text({"model"})>>}
         /\ emitted => sent = <<"text">> \/ outbox = <<Text({"model"})>> \/ over # "no"
    /\ pc = "rag" =>
         /\ held = NoEvent /\ sent \in {<<>>, <<"text">>}
         /\ outbox \in {<<>>, <<Text({"program"})>>, <<Text({"rag"})>>}
         /\ over = "no" => outbox # <<>> \/ sent = <<"text">>
    /\ pc = "end" /\ over = "no" => Finishing(held, sent, outbox)
    /\ over # "no" => sent \in Seq(Kinds)

\* A cancelled call unwinds; then only the error of the timeout is left to send.
UnwindInv ==
    cancelling # "nobody" /\ over = "no" =>
        \/ gpc \in {"record", "usage", "returned"} /\ outcome = "cancelled" /\ outbox = <<>>
        \/ gpc = "idle" /\ pc = "end" /\ \A i \in 1..Len(outbox) : outbox[i].kind # "text"

ChatInv == GatewayInv /\ TurnInv /\ CallInv /\ ReplyInv /\ UnwindInv
-----------------------------------------------------------------------------
(* What the turn does between its gateway and its client *)

\* Nothing has been cancelled where the turn, or a call, goes on.
LEMMA Uncancelled ==
    ASSUME UnwindInv, over = "no",
           \/ gpc = "idle" /\ pc # "end"
           \/ gpc \in {"provider", "backoff", "yielded"}
           \/ gpc # "idle" /\ outcome # "cancelled"
    PROVE  cancelling = "nobody"
  BY DEF UnwindInv

\* A step of the preparation, the retrieval, the planning or the tools.
EarlyStep ==
    /\ pc \in EarlyPlaces /\ over = "no" /\ outbox = <<>>
    /\ gpc = "idle" \/ (gpc = "returned" /\ outcome # "cancelled")
    /\ UNCHANGED <<ask, emitted, held, sent, voices, cancelling>>
    /\ outbox' \in {<<>>, <<Status>>}
    /\ \/ over' = "no" /\ gpc' = "idle"
       \/ over' = "broken" /\ gpc' = "idle" /\ outbox' = <<>>
       \/ /\ over' = "no" /\ outbox' = <<>> /\ gpc' = "provider" /\ kind' = "complete"
          /\ pc' \in {"history", "rewrite", "plan"}
    /\ \/ pc' \in EarlyPlaces
       \/ pc' = "gated" /\ visual' = visual
       \/ pc' \in {"answer", "fallback"} /\ visual' = visual /\ ~NeedsVisualNumberGate

\* What each of the early steps does.
LEMMA OptionalMoves ==
    ASSUME NEW l, NEW n, Optional(l, n), l \in {"history", "rewrite"}, n \in EarlyPlaces
    PROVE  EarlyStep /\ pc' \in {l, n} /\ UNCHANGED <<round, tries, tools, auto, visual, table, facts>>
<1>1. l \in EarlyPlaces
  BY DEF EarlyPlaces
<1>2. CASE Begin(l, "complete")
  BY <1>1, <1>2 DEF Begin, Running, Call, Goto, Same, Yield, Quiet, question, client, EarlyStep
<1>3. CASE Running(l) /\ Goto(n) /\ Same /\ Yield(<<>>) /\ Quiet /\ UNCHANGED gateway
  BY <1>1, <1>3 DEF Running, Goto, Same, Yield, Quiet, question, client, gateway, EarlyStep
<1>4. CASE Returned(l, "complete") /\ Goto(n) /\ Same /\ Yield(<<>>) /\ Quiet
  BY <1>1, <1>4 DEF Returned, Calling, Goto, Same, Yield, Quiet, question, client, EarlyStep
<1> QED BY <1>2, <1>3, <1>4 DEF Optional

LEMMA RetrievalMoves ==
    ASSUME AnnounceSearch \/ Retrieve \/ SupplementaryRetrieval
    PROVE  /\ EarlyStep /\ pc' \in {"retrieve", "gated", "fallback", "supplement", "plan"}
           /\ gpc' = "idle" /\ UNCHANGED <<round, tries, tools, auto, visual, table, facts>>
<1>1. CASE AnnounceSearch \/ SupplementaryRetrieval
  BY <1>1 DEF AnnounceSearch, SupplementaryRetrieval, Running, Goto, Same, Yield, Quiet, question, client,
              gateway, EarlyStep, EarlyPlaces
<1>2. CASE Retrieve
  BY <1>2 DEF Retrieve, Degrade, Running, Goto, Same, Yield, Quiet, question, client,
              gateway, EarlyStep, EarlyPlaces
<1> QED BY <1>1, <1>2

LEMMA PlanMoves ==
    ASSUME Plan \/ PlanInvalid \/ PlanCallFailed \/ PlanFinal \/ PlanSkipped
    PROVE  /\ EarlyStep /\ pc = "plan" /\ pc' \in {"plan", "gated", "answer", "fallback"}
           /\ gpc' # "idle" => round < MaxRounds
           /\ tries' \in {tries, 1} /\ UNCHANGED <<round, tools, auto, visual, table, facts>>
<1>1. CASE Plan
  BY <1>1 DEF Plan, Begin, Running, Call, Goto, Same, Yield, Quiet, question, client, EarlyStep, EarlyPlaces
<1>2. CASE PlanInvalid
  BY <1>2 DEF PlanInvalid, PlanningFailed, Degrade, Returned, Calling, Goto, Same, Yield, Quiet, question,
              client, EarlyStep, EarlyPlaces
<1>3. CASE PlanCallFailed
  BY <1>3 DEF PlanCallFailed, PlanningFailed, Degrade, Returned, Calling, Unexpected, Goto, Same, Yield, Quiet,
              question, client, EarlyStep, EarlyPlaces
<1>4. CASE PlanFinal \/ PlanSkipped
  BY <1>4 DEF PlanFinal, PlanSkipped, AfterTools, Returned, Calling, Running, Goto, Same, Yield, Quiet,
              question, client, gateway, EarlyStep, EarlyPlaces
<1> QED BY <1>1, <1>2, <1>3, <1>4

LEMMA ToolMoves ==
    ASSUME NEW t \in {"image", "table"}, PlanTool(t)
    PROVE  /\ EarlyStep /\ pc = "plan" /\ pc' = t /\ gpc # "idle" /\ gpc' = "idle"
           /\ ~OverBudget /\ (auto' = auto \/ auto' = TRUE) /\ round' = round + 1 /\ tries' = 0
           /\ UNCHANGED <<tools, visual, table, facts>>
  BY DEF PlanTool, Returned, Calling, Goto, Yield, Quiet, question, client, EarlyStep, EarlyPlaces

LEMMA RunMoves ==
    ASSUME RunImage \/ RunTable
    PROVE  /\ EarlyStep /\ pc \in {"image", "table"} /\ pc' = "plan" /\ gpc' = "idle"
           /\ tools' = tools + 1 /\ UNCHANGED <<round, tries, auto>>
           /\ visual' \in {"failed", "completed", visual}
           /\ \/ table' = TRUE /\ facts' \in BOOLEAN
              \/ table' = table /\ facts' = facts
<1>1. CASE RunImage
  BY <1>1 DEF RunImage, Running, Goto, Yield, Quiet, question, client, gateway, EarlyStep, EarlyPlaces
<1>2. CASE RunTable
  BY <1>2 DEF RunTable, Running, Goto, Yield, Quiet, question, client, gateway, EarlyStep, EarlyPlaces
<1> QED BY <1>1, <1>2

Early ==
    \/ PrepareHistory \/ RewriteForRetrieval \/ AnnounceSearch \/ Retrieve \/ SupplementaryRetrieval
    \/ Plan \/ PlanInvalid \/ PlanCallFailed \/ PlanFinal \/ PlanSkipped
    \/ \E t \in {"image", "table"} : PlanTool(t)
    \/ RunImage \/ RunTable

\* Each of them keeps the turn in its bounds.
LEMMA EarlyKeepsTurn ==
    ASSUME MaxRounds \in Nat \ {0}, MaxTools \in Nat \ {0}, TurnInv, Early PROVE EarlyStep /\ TurnInv'
<1> USE DEF TurnInv
<1>1. CASE PrepareHistory \/ RewriteForRetrieval
  <2>1. EarlyStep /\ pc' \in {"history", "rewrite", "searching"}
        /\ UNCHANGED <<round, tries, tools, auto, visual, table, facts>>
    BY <1>1, OptionalMoves DEF PrepareHistory, RewriteForRetrieval, EarlyPlaces
  <2> QED BY <2>1 DEF EarlyStep, TurnPlaces, EarlyPlaces
<1>2. CASE AnnounceSearch \/ Retrieve \/ SupplementaryRetrieval
  <2>1. /\ EarlyStep /\ pc' \in {"retrieve", "gated", "fallback", "supplement", "plan"}
        /\ gpc' = "idle" /\ UNCHANGED <<round, tries, tools, auto, visual, table, facts>>
    BY <1>2, RetrievalMoves
  <2> QED BY <2>1 DEF EarlyStep, TurnPlaces, EarlyPlaces
<1>3. CASE Plan \/ PlanInvalid \/ PlanCallFailed \/ PlanFinal \/ PlanSkipped
  <2>1. /\ EarlyStep /\ pc = "plan" /\ pc' \in {"plan", "gated", "answer", "fallback"}
        /\ gpc' # "idle" => round < MaxRounds
        /\ tries' \in {tries, 1} /\ UNCHANGED <<round, tools, auto, visual, table, facts>>
    BY <1>3, PlanMoves
  <2> QED BY <2>1 DEF EarlyStep, TurnPlaces, EarlyPlaces
<1>4. ASSUME NEW t \in {"image", "table"}, PlanTool(t) PROVE EarlyStep /\ TurnInv'
  <2>1. /\ EarlyStep /\ pc = "plan" /\ pc' = t /\ gpc # "idle" /\ gpc' = "idle"
        /\ ~OverBudget /\ (auto' = auto \/ auto' = TRUE) /\ round' = round + 1 /\ tries' = 0
        /\ UNCHANGED <<tools, visual, table, facts>>
    BY <1>4, ToolMoves
  <2>2. tools' < MaxTools /\ round' \in 0..MaxRounds
    BY <2>1 DEF OverBudget
  <2>3. auto' \in BOOLEAN
    BY <2>1, Zenon
  <2> QED BY <2>1, <2>2, <2>3 DEF EarlyStep, TurnPlaces, EarlyPlaces
<1>5. CASE RunImage \/ RunTable
  <2>1. /\ EarlyStep /\ pc \in {"image", "table"} /\ pc' = "plan" /\ gpc' = "idle"
        /\ tools' = tools + 1 /\ UNCHANGED <<round, tries, auto>>
        /\ visual' \in {"failed", "completed", visual}
        /\ \/ table' = TRUE /\ facts' \in BOOLEAN
           \/ table' = table /\ facts' = facts
    BY <1>5, RunMoves
  <2>2. tools' \in 0..MaxTools
    BY <2>1
  <2>3. table' \in BOOLEAN /\ facts' \in BOOLEAN /\ (facts' => table')
    <3>1. CASE table' = TRUE /\ facts' \in BOOLEAN
      BY <3>1
    <3>2. CASE table' = table /\ facts' = facts
      BY <3>2
    <3> QED BY <2>1, <3>1, <3>2
  <2> QED BY <2>1, <2>2, <2>3 DEF EarlyStep, TurnPlaces, EarlyPlaces
<1> QED BY <1>1, <1>2, <1>3, <1>4, <1>5 DEF Early

\* Nothing of an answer is on its way to the client before or after one of them.
LEMMA EarlyKeeps ==
    ASSUME TurnInv, CallInv, ReplyInv, UnwindInv, EarlyStep PROVE CallInv' /\ ReplyInv' /\ UnwindInv'
<1>1. cancelling' = "nobody"
  <2>1. over = "no" /\ pc # "end" /\ (gpc = "idle" \/ (gpc # "idle" /\ outcome # "cancelled"))
    BY DEF EarlyStep, EarlyPlaces
  <2> QED BY <2>1, Uncancelled DEF EarlyStep
<1>2. UnwindInv'
  BY <1>1 DEF UnwindInv
<1>3. CallInv'
  BY DEF EarlyStep, CallInv
<1>4. voices = {} /\ held = NoEvent /\ sent = <<>> /\ ~emitted
  BY DEF EarlyStep, ReplyInv
<1>5. pc' \in EarlyPlaces \cup {"gated", "answer", "fallback"} /\ outbox' \in {<<>>, <<Status>>}
      /\ voices' = {} /\ held' = NoEvent /\ sent' = <<>> /\ ~emitted'
  BY <1>4 DEF EarlyStep, NoEvent
<1>6. pc' \notin {"rag", "end"}
  BY <1>5 DEF EarlyPlaces
<1>7. pc' \in {"answer", "fallback"} => ~NeedsVisualNumberGate'
  BY DEF EarlyStep, NeedsVisualNumberGate, EarlyPlaces
<1>8. sent' \in Seq(Kinds)
  BY <1>5, EmptySeq
<1> QED BY <1>2, <1>3, <1>5, <1>6, <1>7, <1>8 DEF ReplyInv, NoEvent, Status

\* The gateway goes on while the turn waits for it, or without it.
LEMMA WaitingKeeps ==
    ASSUME GatewayInv, TurnInv, CallInv, ReplyInv, UnwindInv, Rest,
           \/ ProviderEnds \/ Deadline \/ Backoff \/ RecordInvocation \/ RecordUsage
           \/ over # "no" /\ CloseStream
    PROVE  TurnInv' /\ CallInv' /\ ReplyInv' /\ UnwindInv'
<1>1. /\ gpc # "idle" /\ kind' = kind
      /\ \/ gpc = "provider" /\ gpc' \in {"returned", "record"}
         \/ gpc = "backoff" /\ gpc' = "provider"
         \/ gpc = "record" /\ gpc' \in {"usage", "returned"}
         \/ gpc = "record" /\ gpc' = "backoff" /\ kind = "complete"
         \/ gpc = "usage" /\ gpc' = "returned"
         \/ gpc = "yielded" /\ gpc' = "record" /\ over # "no"
  BY DEF ProviderEnds, Deadline, Attempted, Backoff, RecordInvocation, RecordUsage, CloseStream, Retry
<1>2. UNCHANGED <<ask, pc, round, tries, tools, auto, visual, table, facts, emitted, outbox, held, sent,
                  voices, cancelling, over>>
  BY DEF Rest, question, turn, client
<1>3. TurnInv'
  BY <1>1, <1>2 DEF TurnInv
<1>4. CallInv'
  BY <1>1, <1>2 DEF CallInv, Text
<1>5. ReplyInv'
  BY <1>2 DEF ReplyInv, Speakers, NeedsVisualNumberGate, Answered, Failures, Finishing, Texts, Text, Status,
              Citations, Error, NoEvent, Reports, Kinds
<1>6. UnwindInv'
  <2>1. CASE cancelling # "nobody" /\ over = "no"
    <3>1. (RecordInvocation \/ RecordUsage) /\ outcome = "cancelled" /\ outbox = <<>>
      BY <1>1, <2>1 DEF UnwindInv, ProviderEnds, Deadline, Attempted, Backoff
    <3>2. outcome' = "cancelled" /\ gpc' \in {"usage", "returned"}
      BY <3>1, UnwindingStays
    <3> QED BY <1>2, <3>1, <3>2 DEF UnwindInv
  <2>2. CASE ~(cancelling # "nobody" /\ over = "no")
    BY <1>2, <2>2 DEF UnwindInv
  <2> QED BY <2>1, <2>2
<1> QED BY <1>3, <1>4, <1>5, <1>6
-----------------------------------------------------------------------------
(* Answers *)

\* What the client may get hangs on the question, the tools and their outcomes alone.
LEMMA SpeakersStay ==
    ASSUME UNCHANGED <<ask, visual, table>>
    PROVE  /\ NeedsVisualNumberGate' <=> NeedsVisualNumberGate
           /\ Speakers' = Speakers /\ Texts' = Texts /\ Answered' = Answered /\ Failures' = Failures
<1>1. NeedsVisualNumberGate' <=> NeedsVisualNumberGate
  BY DEF NeedsVisualNumberGate
<1>2. Speakers' = Speakers
  BY <1>1 DEF Speakers
<1>3. Texts' = Texts
  BY <1>2 DEF Texts, Text
<1>4. Answered' = Answered /\ Failures' = Failures
  BY DEF Answered, Failures, Reports
<1> QED BY <1>1, <1>2, <1>3, <1>4

\* The program may always speak, also of a masked description, and the answering model and
\* the classic service where no gate is needed.
LEMMA Voices ==
    /\ Text({"program"}) \in Texts
    /\ \A by \in GatedTexts : Text(by) \in Texts
    /\ ~NeedsVisualNumberGate => Text({"model"}) \in Texts /\ Text({"rag"}) \in Texts
<1>1. {"program"} \subseteq Speakers
  BY DEF Speakers, Carried
<1>2. \A d \in Descriptions : {"program"} \cup Masked(d) \subseteq Speakers
  BY DEF Descriptions, Masked, Speakers, Carried
<1>3. ~NeedsVisualNumberGate => {"model"} \subseteq Speakers /\ {"rag"} \subseteq Speakers
  BY DEF Speakers, Carried
<1>4. \A by \in GatedTexts : by \subseteq Speakers
  BY <1>1, <1>2 DEF GatedTexts
<1> QED BY <1>1, <1>3, <1>4 DEF Texts

\* An answer may be reported as verified by its source only for a table tool.
LEMMA Reported ==
    ASSUME MaxTools \in Nat, TurnInv
    PROVE  /\ CompleteError \in Failures /\ TimedOut[2] \in Failures
           /\ Complete("unverified") \in Answered /\ Complete("not_available") \in Answered
           /\ table /\ visual # "completed" => Complete("source_verified") \in Answered
<1>1. tools \in 0..MaxTools /\ 0 \in 0..MaxTools
  BY DEF TurnInv
<1> QED BY <1>1 DEF CompleteError, Complete, TimedOut, Failures, Answered, Reports

\* A turn comes to its end.
EndStep ==
    /\ over = "no" /\ outbox = <<>> /\ pc \in {"gated", "answer", "fallback", "rag"}
    /\ gpc = "idle" \/ (gpc = "returned" /\ outcome # "cancelled")
    /\ pc' = "end" /\ gpc' = "idle"
    /\ UNCHANGED <<ask, round, tries, tools, auto, visual, table, facts, emitted, held, sent, voices, cancelling>>
    /\ \/ over' = "no" /\ Finishing(held, sent, outbox')
       \/ over' = "broken" /\ outbox' = <<>>

\* A step that ends the turn hands the client what finishes its stream.
LEMMA EndKeeps ==
    ASSUME TurnInv, CallInv, ReplyInv, UnwindInv, EndStep
    PROVE  TurnInv' /\ CallInv' /\ ReplyInv' /\ UnwindInv'
<1>1. cancelling' = "nobody"
  BY Uncancelled DEF EndStep
<1>2. UnwindInv'
  BY <1>1 DEF UnwindInv
<1>3. CallInv'
  BY DEF EndStep, CallInv
<1>4. TurnInv'
  BY DEF EndStep, TurnInv, TurnPlaces
<1>5. /\ NeedsVisualNumberGate' <=> NeedsVisualNumberGate
      /\ Speakers' = Speakers /\ Texts' = Texts /\ Answered' = Answered /\ Failures' = Failures
  BY SpeakersStay DEF EndStep
<1>6. over' = "no" => Finishing(held, sent, outbox)'
  BY <1>5 DEF EndStep, Finishing, NoEvent, Citations, Error
<1>7. sent' \in Seq(Kinds)
  <2>1. sent' \in {<<>>, <<"text">>}
    BY DEF EndStep, ReplyInv
  <2>2. <<>> \in Seq(Kinds) /\ <<"text">> \in Seq(Kinds)
    BY EmptySeq DEF Kinds
  <2> QED BY <2>1, <2>2
<1>8. voices' \subseteq Speakers' /\ (held # NoEvent => held \in Answered \cup Failures)'
  BY <1>5 DEF EndStep, ReplyInv, NoEvent
<1>9. pc' \notin EarlyPlaces \cup {"gated", "fallback", "answer", "rag"}
  BY DEF EndStep, EarlyPlaces
<1> QED BY <1>2, <1>3, <1>4, <1>6, <1>7, <1>8, <1>9 DEF ReplyInv

\* The sources first, or not.
LEMMA Cited ==
    ASSUME NEW c, NEW t, NEW e
    PROVE  <<c>> \o <<t, e>> = <<c, t, e>> /\ <<>> \o <<t, e>> = <<t, e>>
<1> DEFINE S == {c, t, e}
<1>1. <<c>> \in Seq(S) /\ <<t, e>> \in Seq(S) /\ <<c, t, e>> \in Seq(S)
  OBVIOUS
<1>2. <<c>> \o <<t, e>> \in Seq(S) /\ Len(<<c>> \o <<t, e>>) = 3
  BY <1>1, ConcatProperties
<1>3. ASSUME NEW i \in 1..3 PROVE (<<c>> \o <<t, e>>)[i] = <<c, t, e>>[i]
  <2>1. (<<c>> \o <<t, e>>)[i] = IF i <= Len(<<c>>) THEN <<c>>[i] ELSE <<t, e>>[i - Len(<<c>>)]
    BY <1>1, ConcatProperties
  <2>2. i = 1 \/ i = 2 \/ i = 3
    OBVIOUS
  <2> QED BY <2>1, <2>2
<1>4. Len(<<c, t, e>>) = 3
  OBVIOUS
<1>5. <<c>> \o <<t, e>> = <<c, t, e>>
  BY <1>1, <1>2, <1>3, <1>4, SeqEqual
<1>6. <<>> \o <<t, e>> = <<t, e>>
  BY <1>1, ConcatEmptySeq
<1> QED BY <1>5, <1>6

\* The three ways an answer comes about are such steps.
LEMMA GatedEnds ==
    ASSUME MaxTools \in Nat, TurnInv, ReplyInv, SafetyGated
    PROVE  EndStep
<1>1. /\ Running("gated") /\ pc' = "end" /\ UNCHANGED <<gateway, ask, cancelling, over, held, sent, voices>>
      /\ UNCHANGED <<round, tries, tools, auto, visual, table, facts, emitted>>
  BY DEF SafetyGated, Goto, Same, Quiet, question, client
<1>2. PICK cited \in {<<Citations>>, <<>>}, by \in GatedTexts :
        outbox' = cited \o <<Text(by), Complete(GatedFact)>>
  BY DEF SafetyGated, Yield
<1>3. Complete(GatedFact) \in Answered
  BY Reported DEF GatedFact, TurnInv
<1>4. PICK t \in Texts, e \in Answered : outbox' \in {<<Citations, t, e>>, <<t, e>>}
  <2>1. outbox' \in {<<Citations, Text(by), Complete(GatedFact)>>, <<Text(by), Complete(GatedFact)>>}
    BY <1>2, Cited
  <2> QED BY <1>3, <2>1, Voices
<1>5. held = NoEvent /\ sent = <<>>
  BY <1>1 DEF Running, ReplyInv
<1>6. Finishing(held, sent, outbox')
  BY <1>4, <1>5 DEF Finishing
<1> QED BY <1>1, <1>6 DEF EndStep, Running, gateway

LEMMA TableEnds ==
    ASSUME MaxTools \in Nat, TurnInv, ReplyInv, DeterministicTable
    PROVE  EndStep
<1>1. /\ Running("answer") /\ pc' = "end" /\ UNCHANGED <<gateway, ask, cancelling, over, held, sent, voices>>
      /\ UNCHANGED <<round, tries, tools, auto, visual, table, facts, emitted>>
      /\ Deterministic /\ outbox' = <<Text({"program"}), Citations, Complete("source_verified")>>
  BY DEF DeterministicTable, Goto, Same, Quiet, Yield, question, client
<1>2. Complete("source_verified") \in Answered
  BY <1>1, Reported DEF Deterministic
<1>3. PICK t \in Texts, e \in Answered : outbox' = <<t, Citations, e>>
  BY <1>1, <1>2, Voices
<1>4. held = NoEvent /\ sent \in {<<>>, <<"text">>}
  BY <1>1 DEF Running, ReplyInv
<1>5. Finishing(held, sent, outbox')
  BY <1>3, <1>4 DEF Finishing
<1> QED BY <1>1, <1>5 DEF EndStep, Running, gateway

LEMMA AnswerEnds ==
    ASSUME MaxTools \in Nat, TurnInv, ReplyInv, AnswerDone \/ AnswerFailed
    PROVE  EndStep
<1>1. /\ pc = "answer" /\ over = "no" /\ outbox = <<>> /\ gpc = "returned" /\ outcome # "cancelled"
      /\ pc' = "end" /\ gpc' = "idle" /\ UNCHANGED <<ask, cancelling, held, sent, voices>>
      /\ UNCHANGED <<round, tries, tools, auto, visual, table, facts, emitted>>
  BY DEF AnswerDone, AnswerFailed, Returned, Calling, Goto, Same, Quiet, Unexpected, question, client
<1>2. /\ held = NoEvent /\ sent \in {<<>>, <<"text">>} /\ ~NeedsVisualNumberGate
      /\ emitted => sent = <<"text">>
  BY <1>1 DEF ReplyInv, Text
<1>3. \/ emitted /\ over' = "no" /\ outbox' = <<Citations, Complete(AnswerFact)>>
      \/ over' = "no" /\ outbox' = <<Text({"model"}), Citations, Complete(AnswerFact)>>
      \/ over' = "no" /\ outbox' = <<Error, CompleteError>>
      \/ over' = "broken" /\ outbox' = <<>>
  BY <1>1 DEF AnswerDone, AnswerFailed, Quiet, Unexpected, Yield
<1>4. Complete(AnswerFact) \in Answered /\ CompleteError \in Failures
  BY Reported DEF AnswerFact
<1>5. over' = "no" => Finishing(held, sent, outbox')
  <2>1. CASE emitted /\ outbox' = <<Citations, Complete(AnswerFact)>>
    BY <1>2, <1>4, <2>1, Voices DEF Finishing
  <2>2. CASE outbox' = <<Text({"model"}), Citations, Complete(AnswerFact)>>
    BY <1>2, <1>4, <2>2, Voices DEF Finishing
  <2>3. CASE outbox' = <<Error, CompleteError>>
    BY <1>2, <1>4, <2>3, Voices DEF Finishing
  <2> QED BY <1>3, <2>1, <2>2, <2>3
<1> QED BY <1>1, <1>3, <1>5 DEF EndStep

\* The standard answer, or the notice that there is none.
LEMMA FallbackMoves ==
    ASSUME MaxTools \in Nat, TurnInv, ReplyInv, Fallback \/ RagEvents
    PROVE  \/ EndStep
           \/ /\ pc \in {"fallback", "rag"} /\ over = "no" /\ outbox = <<>> /\ gpc = "idle" /\ pc' = "rag"
              /\ outbox' \in {<<Text({"program"})>>, <<Text({"rag"})>>}
              /\ UNCHANGED <<ask, cancelling, over, held, sent, voices, gpc, kind>>
              /\ UNCHANGED <<round, tries, tools, auto, visual, table, facts, emitted>>
<1>1. /\ pc \in {"fallback", "rag"} /\ over = "no" /\ outbox = <<>> /\ gpc = "idle"
      /\ UNCHANGED <<ask, cancelling, over, held, sent, voices, gpc, kind>>
      /\ UNCHANGED <<round, tries, tools, auto, visual, table, facts, emitted>>
  BY DEF Fallback, RagEvents, Running, Same, Quiet, question, client, gateway
<1>2. \/ pc = "fallback" /\ outbox' = <<Text({"program"}), Error, CompleteError>> /\ pc' = "end"
      \/ outbox' \in {<<Text({"program"})>>, <<Text({"rag"})>>} /\ pc' = "rag"
      \/ pc = "rag" /\ pc' = "end"
         /\ outbox' \in {<<Citations, Complete("not_available")>>, <<Error, CompleteError>>}
  BY DEF Fallback, RagEvents, Running, Yield, Goto
<1>3. held = NoEvent
  BY <1>1 DEF ReplyInv
<1>4. CompleteError \in Failures /\ Complete("not_available") \in Answered /\ Text({"program"}) \in Texts
  BY Reported, Voices
<1>5. CASE pc = "fallback" /\ outbox' = <<Text({"program"}), Error, CompleteError>> /\ pc' = "end"
  <2>1. sent = <<>>
    BY <1>5 DEF ReplyInv
  <2>2. Finishing(held, sent, outbox')
    BY <1>3, <1>4, <1>5, <2>1 DEF Finishing
  <2> QED BY <1>1, <1>5, <2>2 DEF EndStep
<1>6. CASE pc = "rag" /\ pc' = "end"
           /\ outbox' \in {<<Citations, Complete("not_available")>>, <<Error, CompleteError>>}
  <2>1. sent = <<"text">>
    BY <1>1, <1>6 DEF ReplyInv
  <2>2. Finishing(held, sent, outbox')
    BY <1>3, <1>4, <1>6, <2>1 DEF Finishing
  <2> QED BY <1>1, <1>6, <2>2 DEF EndStep
<1> QED BY <1>1, <1>2, <1>5, <1>6

\* The classic service answers where the agent cannot.
LEMMA FallbackKeeps ==
    ASSUME MaxTools \in Nat, TurnInv, CallInv, ReplyInv, UnwindInv, Fallback \/ RagEvents
    PROVE  TurnInv' /\ CallInv' /\ ReplyInv' /\ UnwindInv'
<1>1. CASE EndStep
  BY <1>1, EndKeeps
<1>2. CASE /\ pc \in {"fallback", "rag"} /\ over = "no" /\ outbox = <<>> /\ gpc = "idle" /\ pc' = "rag"
           /\ outbox' \in {<<Text({"program"})>>, <<Text({"rag"})>>}
           /\ UNCHANGED <<ask, cancelling, over, held, sent, voices, gpc, kind>>
           /\ UNCHANGED <<round, tries, tools, auto, visual, table, facts, emitted>>
  <2>1. cancelling' = "nobody"
    BY <1>2, Uncancelled
  <2>2. UnwindInv'
    BY <2>1 DEF UnwindInv
  <2>3. CallInv'
    BY <1>2 DEF CallInv
  <2>4. TurnInv'
    BY <1>2 DEF TurnInv, TurnPlaces
  <2>5. /\ NeedsVisualNumberGate' <=> NeedsVisualNumberGate
        /\ Speakers' = Speakers
    BY <1>2, SpeakersStay
  <2>6. held' = NoEvent /\ sent' \in {<<>>, <<"text">>} /\ ~NeedsVisualNumberGate' /\ voices' \subseteq Speakers'
    BY <1>2, <2>5 DEF ReplyInv
  <2>7. outbox' # <<>> /\ pc' \notin EarlyPlaces \cup {"gated", "fallback", "answer", "end"} /\ over' = "no"
    BY <1>2 DEF EarlyPlaces
  <2> QED BY <1>2, <2>2, <2>3, <2>4, <2>6, <2>7 DEF ReplyInv, Text, NoEvent
<1> QED BY <1>1, <1>2, FallbackMoves

\* The stream of the answer is opened, and brings text.
LEMMA StreamMoves ==
    ASSUME TurnInv, CallInv, ReplyInv, UnwindInv, Answer \/ Chunk
    PROVE  TurnInv' /\ CallInv' /\ ReplyInv' /\ UnwindInv'
<1>1. /\ pc = "answer" /\ pc' = "answer" /\ over = "no" /\ outbox = <<>> /\ gpc \in {"idle", "provider"}
      /\ UNCHANGED <<ask, cancelling, over, held, sent, voices, round, tries, tools, auto, visual, table, facts>>
      /\ \/ gpc' = "provider" /\ kind' = "stream" /\ outbox' = <<>> /\ emitted' = emitted
         \/ gpc' = "yielded" /\ kind' = "stream" /\ outbox' = <<Text({"model"})>> /\ emitted' = TRUE
  BY DEF Answer, Begin, Call, Running, Chunk, YieldEvent, Goto, Same, Yield, Quiet, question, client
<1>2. cancelling' = "nobody"
  BY <1>1, Uncancelled
<1>3. UnwindInv'
  BY <1>2 DEF UnwindInv
<1>4. CallInv'
  BY <1>1 DEF CallInv, Text
<1>5. emitted' \in BOOLEAN
  <2>1. CASE emitted' = emitted
    BY <2>1 DEF TurnInv
  <2>2. CASE emitted' = TRUE
    BY <2>2
  <2> QED BY <1>1, <2>1, <2>2
<1>6. TurnInv'
  BY <1>1, <1>5 DEF TurnInv
<1>7. /\ NeedsVisualNumberGate' <=> NeedsVisualNumberGate
      /\ Speakers' = Speakers
  BY <1>1, SpeakersStay
<1>8. /\ held' = NoEvent /\ sent' \in {<<>>, <<"text">>} /\ ~NeedsVisualNumberGate' /\ voices' \subseteq Speakers'
      /\ emitted /\ outbox = <<>> => sent = <<"text">>
  BY <1>1, <1>7 DEF ReplyInv, Text
<1>9. (emitted => sent = <<"text">> \/ outbox = <<Text({"model"})>>)'
  BY <1>1, <1>8 DEF Text
<1>10. pc' \notin EarlyPlaces \cup {"gated", "fallback", "rag", "end"} /\ over' = "no"
  BY <1>1 DEF EarlyPlaces
<1>11. outbox' \in {<<>>, <<Text({"model"})>>}
  BY <1>1
<1> QED BY <1>1, <1>3, <1>4, <1>6, <1>8, <1>9, <1>10, <1>11 DEF ReplyInv, Text, Status, NoEvent
-----------------------------------------------------------------------------
(* The client takes what it is sent *)

\* Sequences of events.
LEMMA Appended ==
    ASSUME NEW a, NEW b PROVE Append(<<a>>, b) = <<a, b>>
<1>1. <<a>> \in Seq({a, b}) /\ <<a, b>> \in Seq({a, b}) /\ Len(<<a>>) = 1 /\ Len(<<a, b>>) = 2
  OBVIOUS
<1>2. /\ Append(<<a>>, b) \in Seq({a, b}) /\ Len(Append(<<a>>, b)) = 2
      /\ Append(<<a>>, b)[1] = <<a>>[1] /\ Append(<<a>>, b)[2] = b
  BY <1>1, AppendProperties
<1>3. <<a>>[1] = a /\ <<a, b>>[1] = a /\ <<a, b>>[2] = b
  OBVIOUS
<1>4. \A i \in 1..2 : i = 1 \/ i = 2
  OBVIOUS
<1> QED BY <1>1, <1>2, <1>3, <1>4, SeqEqual

\* An event that follows another.
LEMMA JoinedEvents ==
    /\ \A k : Joined(<<>>, k) = <<k>>
    /\ Joined(<<"text">>, "text") = <<"text">>
    /\ Joined(<<"text">>, "citations") = <<"text", "citations">>
    /\ Joined(<<"citations">>, "text") = <<"citations", "text">>
    /\ Joined(<<"text">>, "error") = <<"text", "error">>
<1>1. ASSUME NEW a, NEW b, a # b PROVE Joined(<<a>>, b) = <<a, b>>
  BY <1>1, Appended DEF Joined
<1>2. ASSUME NEW k PROVE Joined(<<>>, k) = <<k>>
  BY DEF Joined
<1>3. Joined(<<"text">>, "text") = <<"text">>
  BY DEF Joined
<1> QED BY <1>1, <1>2, <1>3

Events == {Status, Citations, Error} \cup Texts \cup Reports

\* The kind of each event.
LEMMA EventKinds ==
    /\ \A by : Text(by).kind = "text" /\ Text(by).by = by
    /\ Status.kind = "status" /\ Citations.kind = "citations" /\ Error.kind = "error" /\ NoEvent.kind = "none"
    /\ \A t \in Texts : t.kind = "text" /\ t.by \subseteq Speakers
    /\ \A e \in Reports : e.kind = "complete" /\ e # NoEvent
    /\ Answered \subseteq Reports /\ Failures \subseteq Reports
<1>1. NoEvent.kind = "none"
  BY DEF NoEvent
<1>2. \A e \in Reports : e.kind = "complete"
  BY DEF Reports
<1>3. \A t \in Texts : t.kind = "text" /\ t.by \subseteq Speakers
  BY DEF Texts, Text
<1> QED BY <1>1, <1>2, <1>3 DEF Text, Status, Citations, Error, Answered, Failures

\* The first of the events that end a turn, and what is left when the client has it.
LEMMA FinishingNext ==
    ASSUME Finishing(held, sent, outbox), outbox # <<>>,
           NEW e, e = Head(outbox), NEW o, o = Tail(outbox),
           NEW h, h = IF e.kind = "complete" THEN e ELSE held,
           NEW s, s = IF e.kind \in {"status", "complete"} THEN sent ELSE Joined(sent, e.kind)
    PROVE  /\ Finishing(h, s, o) /\ outbox \in Seq(Events)
           /\ \/ e \in Texts /\ sent \in {<<>>, <<"text">>, <<"citations">>}
              \/ e = Citations /\ sent \in {<<>>, <<"text">>}
              \/ e = Error /\ sent \in {<<>>, <<"text">>}
              \/ e \in Answered \cup Failures
<1>1. held = NoEvent
  BY DEF Finishing
<1>2. ASSUME NEW t \in Texts, NEW a \in Answered,
             \/ sent = <<>> /\ outbox \in {<<Citations, t, a>>, <<t, a>>, <<t, Citations, a>>}
             \/ sent = <<"citations">> /\ outbox = <<t, a>>
             \/ sent \in {<<"citations", "text">>, <<"text", "citations">>} /\ outbox = <<a>>
             \/ sent = <<"text">> /\ outbox \in {<<a>>, <<Citations, a>>, <<t, Citations, a>>}
      PROVE  /\ Finishing(h, s, o) /\ outbox \in Seq(Events)
             /\ \/ e \in Texts /\ sent \in {<<>>, <<"text">>, <<"citations">>}
                \/ e = Citations /\ sent \in {<<>>, <<"text">>}
                \/ e = Error /\ sent \in {<<>>, <<"text">>}
                \/ e \in Answered \cup Failures
  <2>1. t.kind = "text" /\ a.kind = "complete" /\ Citations.kind = "citations"
    BY EventKinds
  <2>2. t \in Events /\ a \in Events /\ Citations \in Events
    BY EventKinds DEF Events
  <2>3. outbox \in Seq(Events)
    BY <1>2, <2>2
  <2>4. CASE sent = <<>> /\ outbox = <<Citations, t, a>>
    <3>1. e = Citations /\ o = <<t, a>> /\ h = NoEvent /\ s = <<"citations">>
      BY <1>1, <2>1, <2>4, JoinedEvents
    <3> QED BY <2>3, <2>4, <3>1 DEF Finishing
  <2>5. CASE sent = <<>> /\ outbox = <<t, a>>
    <3>1. e = t /\ o = <<a>> /\ h = NoEvent /\ s = <<"text">>
      BY <1>1, <2>1, <2>5, JoinedEvents
    <3> QED BY <2>3, <2>5, <3>1 DEF Finishing
  <2>6. CASE sent \in {<<>>, <<"text">>} /\ outbox = <<t, Citations, a>>
    <3>1. e = t /\ o = <<Citations, a>> /\ h = NoEvent /\ s = <<"text">>
      BY <1>1, <2>1, <2>6, JoinedEvents
    <3> QED BY <2>3, <2>6, <3>1 DEF Finishing
  <2>7. CASE sent = <<"citations">> /\ outbox = <<t, a>>
    <3>1. e = t /\ o = <<a>> /\ h = NoEvent /\ s = <<"citations", "text">>
      BY <1>1, <2>1, <2>7, JoinedEvents
    <3> QED BY <2>3, <2>7, <3>1 DEF Finishing
  <2>8. CASE outbox = <<a>>
    <3>1. e = a /\ o = <<>> /\ h = a /\ s = sent
      BY <2>1, <2>8
    <3>2. sent \in {<<"citations", "text">>, <<"text", "citations">>, <<"text">>}
      BY <1>2, <2>8
    <3> QED BY <2>3, <3>1, <3>2 DEF Finishing
  <2>9. CASE sent = <<"text">> /\ outbox = <<Citations, a>>
    <3>1. e = Citations /\ o = <<a>> /\ h = NoEvent /\ s = <<"text", "citations">>
      BY <1>1, <2>1, <2>9, JoinedEvents
    <3> QED BY <2>3, <2>9, <3>1 DEF Finishing
  <2> QED BY <1>2, <2>4, <2>5, <2>6, <2>7, <2>8, <2>9
<1>3. ASSUME NEW t \in Texts, NEW a \in Failures,
             \/ sent = <<>> /\ outbox \in {<<Error, a>>, <<t, Error, a>>}
             \/ sent = <<"text">> /\ outbox = <<Error, a>>
             \/ sent \in {<<"error">>, <<"text", "error">>} /\ outbox = <<a>>
      PROVE  /\ Finishing(h, s, o) /\ outbox \in Seq(Events)
             /\ \/ e \in Texts /\ sent \in {<<>>, <<"text">>, <<"citations">>}
                \/ e = Citations /\ sent \in {<<>>, <<"text">>}
                \/ e = Error /\ sent \in {<<>>, <<"text">>}
                \/ e \in Answered \cup Failures
  <2>1. t.kind = "text" /\ a.kind = "complete" /\ Error.kind = "error"
    BY EventKinds
  <2>2. t \in Events /\ a \in Events /\ Error \in Events
    BY EventKinds DEF Events
  <2>3. outbox \in Seq(Events)
    BY <1>3, <2>2
  <2>4. CASE sent = <<>> /\ outbox = <<Error, a>>
    <3>1. e = Error /\ o = <<a>> /\ h = NoEvent /\ s = <<"error">>
      BY <1>1, <2>1, <2>4, JoinedEvents
    <3> QED BY <2>3, <2>4, <3>1 DEF Finishing
  <2>5. CASE sent = <<>> /\ outbox = <<t, Error, a>>
    <3>1. e = t /\ o = <<Error, a>> /\ h = NoEvent /\ s = <<"text">>
      BY <1>1, <2>1, <2>5, JoinedEvents
    <3> QED BY <2>3, <2>5, <3>1 DEF Finishing
  <2>6. CASE sent = <<"text">> /\ outbox = <<Error, a>>
    <3>1. e = Error /\ o = <<a>> /\ h = NoEvent /\ s = <<"text", "error">>
      BY <1>1, <2>1, <2>6, JoinedEvents
    <3> QED BY <2>3, <2>6, <3>1 DEF Finishing
  <2>7. CASE outbox = <<a>>
    <3>1. e = a /\ o = <<>> /\ h = a /\ s = sent
      BY <2>1, <2>7
    <3>2. sent \in {<<"error">>, <<"text", "error">>}
      BY <1>3, <2>7
    <3> QED BY <2>3, <3>1, <3>2 DEF Finishing
  <2> QED BY <1>3, <2>4, <2>5, <2>6, <2>7
<1> QED BY <1>2, <1>3 DEF Finishing

\* The first event of any turn.
LEMMA FirstEvent ==
    ASSUME TurnInv, ReplyInv, over = "no", outbox # <<>>, NEW e, e = Head(outbox)
    PROVE  /\ outbox \in Seq(Events)
           /\ \/ e = Status /\ pc \in EarlyPlaces \cup {"gated", "fallback", "answer"} /\ outbox = <<e>>
              \/ e \in Texts /\ pc \in {"answer", "rag"} /\ outbox = <<e>> /\ sent \in {<<>>, <<"text">>}
              \/ pc = "end" /\ e \in Texts /\ sent \in {<<>>, <<"text">>, <<"citations">>}
              \/ pc = "end" /\ e = Citations /\ sent \in {<<>>, <<"text">>}
              \/ pc = "end" /\ e = Error /\ sent \in {<<>>, <<"text">>}
              \/ pc = "end" /\ e \in Answered \cup Failures
<1>1. pc \in TurnPlaces
  BY DEF TurnInv
<1> DEFINE Only(x) == outbox = <<x>> /\ <<x>> \in Seq(Events)
<1>0. ASSUME NEW x, Only(x) PROVE outbox \in Seq(Events) /\ outbox = <<e>> /\ e = x
  BY <1>0
<1> HIDE DEF Only
<1>2. CASE pc \in EarlyPlaces \cup {"gated", "fallback"}
  <2>1. outbox = <<Status>>
    BY <1>2 DEF ReplyInv
  <2>2. outbox \in Seq(Events)
    BY <2>1 DEF Events
  <2> QED BY <1>2, <2>1, <2>2
<1>3. CASE pc = "answer"
  <2>1. outbox \in {<<Status>>, <<Text({"model"})>>} /\ sent \in {<<>>, <<"text">>} /\ ~NeedsVisualNumberGate
    BY <1>3 DEF ReplyInv
  <2>2. Text({"model"}) \in Texts
    BY <2>1, Voices
  <2>3. <<Status>> \in Seq(Events) /\ <<Text({"model"})>> \in Seq(Events)
    BY <2>2 DEF Events
  <2>4. Only(Status) \/ Only(Text({"model"}))
    BY <2>1, <2>3 DEF Only
  <2>5. outbox \in Seq(Events) /\ outbox = <<e>> /\ (e = Status \/ e = Text({"model"}))
    BY <1>0, <2>4
  <2> QED BY <1>3, <2>1, <2>2, <2>5
<1>4. CASE pc = "rag"
  <2>1. /\ outbox \in {<<Text({"program"})>>, <<Text({"rag"})>>} /\ sent \in {<<>>, <<"text">>}
        /\ ~NeedsVisualNumberGate
    BY <1>4 DEF ReplyInv
  <2>2. Text({"program"}) \in Texts /\ Text({"rag"}) \in Texts
    BY <2>1, Voices
  <2>3. <<Text({"program"})>> \in Seq(Events) /\ <<Text({"rag"})>> \in Seq(Events)
    BY <2>2 DEF Events
  <2>4. Only(Text({"program"})) \/ Only(Text({"rag"}))
    BY <2>1, <2>3 DEF Only
  <2>5. outbox \in Seq(Events) /\ outbox = <<e>> /\ (e = Text({"program"}) \/ e = Text({"rag"}))
    BY <1>0, <2>4
  <2> QED BY <1>4, <2>1, <2>2, <2>5
<1>5. CASE pc = "end"
  <2>1. Finishing(held, sent, outbox)
    BY <1>5 DEF ReplyInv
  <2>2. PICK o, h, s : /\ o = Tail(outbox) /\ h = IF e.kind = "complete" THEN e ELSE held
                       /\ s = IF e.kind \in {"status", "complete"} THEN sent ELSE Joined(sent, e.kind)
    OBVIOUS
  <2> QED BY <1>5, <2>1, <2>2, FinishingNext
<1> QED BY <1>1, <1>2, <1>3, <1>4, <1>5 DEF TurnPlaces

\* Sending an event keeps what finishes the stream.
LEMMA SendKeepsTurn ==
    ASSUME GatewayInv, TurnInv, CallInv, ReplyInv, UnwindInv, Send
    PROVE  TurnInv' /\ CallInv' /\ ReplyInv' /\ UnwindInv'
<1>1. over = "no" /\ outbox # <<>>
  BY DEF Send
<1>2. PICK e, o : e = Head(outbox) /\ o = Tail(outbox)
  OBVIOUS
<1>3. /\ outbox' = o
      /\ held' = IF e.kind = "complete" THEN e ELSE held
      /\ sent' = IF e.kind \in {"status", "complete"} THEN sent ELSE Joined(sent, e.kind)
      /\ voices' = IF e.kind = "text" THEN voices \cup e.by ELSE voices
      /\ UNCHANGED <<ask, pc, round, tries, tools, auto, visual, table, facts, emitted, cancelling, over>>
      /\ \/ gpc = "yielded" /\ gpc' = "provider" /\ kind' = kind
         \/ gpc = "idle" /\ gpc' = "idle" /\ kind' = kind
  BY <1>1, <1>2 DEF Send, CallInv, Resume, gateway, question, turn
<1>4. /\ outbox \in Seq(Events)
      /\ \/ e = Status /\ pc \in EarlyPlaces \cup {"gated", "fallback", "answer"} /\ outbox = <<e>>
         \/ e \in Texts /\ pc \in {"answer", "rag"} /\ outbox = <<e>> /\ sent \in {<<>>, <<"text">>}
         \/ pc = "end" /\ e \in Texts /\ sent \in {<<>>, <<"text">>, <<"citations">>}
         \/ pc = "end" /\ e = Citations /\ sent \in {<<>>, <<"text">>}
         \/ pc = "end" /\ e = Error /\ sent \in {<<>>, <<"text">>}
         \/ pc = "end" /\ e \in Answered \cup Failures
  BY <1>1, <1>2, FirstEvent
<1>5. TurnInv'
  BY <1>3 DEF TurnInv
<1>6. CallInv'
  <2>1. CASE gpc = "idle"
    BY <1>1, <1>3, <2>1 DEF CallInv
  <2>2. CASE gpc = "yielded"
    <3>1. o = <<>>
      BY <1>1, <1>2, <2>2 DEF CallInv
    <3> QED BY <1>1, <1>3, <2>2, <3>1 DEF CallInv
  <2> QED BY <1>3, <2>1, <2>2
<1>7. UnwindInv'
  <2>1. CASE cancelling # "nobody"
    <3>1. gpc = "idle" /\ pc = "end" /\ \A i \in 1..Len(outbox) : outbox[i].kind # "text"
      BY <1>1, <2>1 DEF UnwindInv
    <3>2. Len(outbox) \in Nat /\ Len(o) = Len(outbox) - 1 /\ \A i \in 1..Len(o) : o[i] = outbox[i + 1]
      BY <1>1, <1>2, <1>4, HeadTailProperties, LenProperties
    <3>3. \A i \in 1..Len(o) : o[i].kind # "text"
      BY <3>1, <3>2
    <3> QED BY <1>3, <3>1, <3>3 DEF UnwindInv
  <2>2. CASE cancelling = "nobody"
    BY <1>3, <2>2 DEF UnwindInv
  <2> QED BY <2>1, <2>2
<1>8. /\ NeedsVisualNumberGate' <=> NeedsVisualNumberGate
      /\ Speakers' = Speakers /\ Texts' = Texts /\ Answered' = Answered /\ Failures' = Failures
  BY <1>3, SpeakersStay
<1>9. voices' \subseteq Speakers'
  BY <1>3, <1>4, <1>8, EventKinds DEF ReplyInv
<1>10. held' # NoEvent => held' \in Answered' \cup Failures'
  BY <1>3, <1>4, <1>8, EventKinds DEF ReplyInv
<1>11. ReplyInv'
  <2>1. CASE e = Status /\ pc \in EarlyPlaces \cup {"gated", "fallback", "answer"} /\ outbox = <<e>>
    <3>1. held' = held /\ sent' = sent /\ voices' = voices /\ outbox' = <<>>
      BY <1>2, <1>3, <2>1, EventKinds
    <3>2. outbox # <<Text({"model"})>>
      BY <2>1, EventKinds
    <3>3. pc \notin {"rag", "end"}
      BY <2>1 DEF EarlyPlaces
    <3> QED BY <1>1, <1>3, <1>8, <1>9, <2>1, <3>1, <3>2, <3>3 DEF ReplyInv, NoEvent, Text, Status
  <2>2. CASE e \in Texts /\ pc \in {"answer", "rag"} /\ outbox = <<e>> /\ sent \in {<<>>, <<"text">>}
    <3>1. held' = held /\ sent' = <<"text">> /\ outbox' = <<>>
      BY <1>2, <1>3, <2>2, EventKinds, JoinedEvents
    <3>2. pc \notin EarlyPlaces \cup {"gated", "fallback", "end"}
      BY <2>2 DEF EarlyPlaces
    <3> QED BY <1>1, <1>3, <1>8, <1>9, <2>2, <3>1, <3>2 DEF ReplyInv, NoEvent, Text
  <2>3. CASE pc = "end"
    <3>1. Finishing(held, sent, outbox)
      BY <1>1, <2>3 DEF ReplyInv
    <3>2. Finishing(held', sent', o)
      BY <1>1, <1>2, <1>3, <3>1, FinishingNext
    <3>3. Finishing(held, sent, outbox)'
      BY <1>3, <1>8, <3>2 DEF Finishing, NoEvent, Citations, Error
    <3>4. pc \notin EarlyPlaces \cup {"gated", "fallback", "answer", "rag"}
      BY <2>3 DEF EarlyPlaces
    <3> QED BY <1>1, <1>3, <1>9, <1>10, <2>3, <3>3, <3>4 DEF ReplyInv, NoEvent
  <2> QED BY <1>4, <2>1, <2>2, <2>3
<1> QED BY <1>5, <1>6, <1>7, <1>11

\* The client has got nothing but kinds of events.
LEMMA SentKinds ==
    ASSUME TurnInv, ReplyInv PROVE sent \in Seq(Kinds)
<1>1. /\ <<>> \in Seq(Kinds) /\ <<"text">> \in Seq(Kinds) /\ <<"citations">> \in Seq(Kinds)
      /\ <<"error">> \in Seq(Kinds) /\ <<"text", "error">> \in Seq(Kinds)
      /\ <<"citations", "text">> \in Seq(Kinds) /\ <<"text", "citations">> \in Seq(Kinds)
  BY EmptySeq DEF Kinds
<1>2. pc \in EarlyPlaces \cup {"gated", "fallback", "answer", "rag"} => sent \in {<<>>, <<"text">>}
  BY DEF ReplyInv
<1>3. pc = "end" /\ over = "no" =>
        sent \in {<<>>, <<"text">>, <<"citations">>, <<"error">>, <<"text", "error">>,
                  <<"citations", "text">>, <<"text", "citations">>}
  BY DEF ReplyInv, Finishing
<1>4. over # "no" => sent \in Seq(Kinds)
  BY DEF ReplyInv
<1> QED BY <1>1, <1>2, <1>3, <1>4 DEF TurnInv, TurnPlaces

\* The last event, which was held back.
LEMMA SendCompleteKeeps ==
    ASSUME TurnInv, CallInv, ReplyInv, UnwindInv, SendComplete
    PROVE  TurnInv' /\ CallInv' /\ ReplyInv' /\ UnwindInv'
<1>1. /\ pc = "end" /\ over = "no" /\ outbox = <<>> /\ held # NoEvent
      /\ sent' = Append(sent, held.status) /\ over' = "complete"
      /\ UNCHANGED <<ask, pc, round, tries, tools, auto, visual, table, facts, emitted, outbox, held, voices,
                     cancelling, gpc, kind>>
  BY DEF SendComplete, question, turn, gateway
<1>2. gpc = "idle"
  BY <1>1 DEF CallInv
<1>3. TurnInv' /\ CallInv' /\ UnwindInv'
  BY <1>1, <1>2 DEF TurnInv, CallInv, UnwindInv
<1>4. sent \in Seq(Kinds)
  BY SentKinds
<1>5. held.status \in Kinds /\ held \in Answered \cup Failures
  BY <1>1 DEF ReplyInv, Answered, Failures, Reports, Kinds
<1>6. sent' \in Seq(Kinds)
  BY <1>1, <1>4, <1>5, AppendProperties
<1>7. Speakers' = Speakers /\ Answered' = Answered /\ Failures' = Failures
  BY <1>1, SpeakersStay
<1>8. pc' \notin EarlyPlaces \cup {"gated", "fallback", "answer", "rag"}
  BY <1>1 DEF EarlyPlaces
<1>9. voices' \subseteq Speakers' /\ held' \in Answered' \cup Failures'
  BY <1>1, <1>5, <1>7 DEF ReplyInv
<1> QED BY <1>1, <1>3, <1>6, <1>8, <1>9 DEF ReplyInv
-----------------------------------------------------------------------------
(* Cancellation *)

\* The response breaks off.
LEMMA BreakKeeps ==
    ASSUME GatewayInv, TurnInv, CallInv, ReplyInv, UnwindInv, over = "no", gpc \in {"idle", "yielded"},
           NEW who \in {"deadline", "client", "stream"}, Break(who)
    PROVE  TurnInv' /\ CallInv' /\ ReplyInv' /\ UnwindInv'
<1>1. /\ over' = "broken" /\ cancelling' = who /\ outbox' = <<>>
      /\ UNCHANGED <<ask, pc, round, tries, tools, auto, visual, table, facts, emitted, held, sent, voices,
                     gpc, kind>>
  BY DEF Break, question, turn, client, gateway
<1>2. TurnInv'
  BY <1>1 DEF TurnInv
<1>3. CallInv'
  BY <1>1 DEF CallInv, GatewayInv
<1>4. UnwindInv'
  BY <1>1 DEF UnwindInv
<1>5. sent' \in Seq(Kinds)
  BY <1>1, SentKinds
<1>6. /\ NeedsVisualNumberGate' <=> NeedsVisualNumberGate
      /\ Speakers' = Speakers /\ Answered' = Answered /\ Failures' = Failures
  BY <1>1, SpeakersStay
<1> QED BY <1>1, <1>2, <1>3, <1>4, <1>5, <1>6 DEF ReplyInv, NoEvent

\* A call is cancelled at its await.
LEMMA CancelKeepsTurn ==
    ASSUME GatewayInv, TurnInv, CallInv, ReplyInv, over = "no", outbox = <<>>, Cancel,
           cancelling' \in {"deadline", "client"}, UNCHANGED <<question, turn, outbox, client, over>>
    PROVE  TurnInv' /\ CallInv' /\ ReplyInv' /\ UnwindInv'
<1>1. /\ gpc # "idle" /\ gpc' \in {"record", "usage", "returned"} /\ kind' = kind /\ outcome' = "cancelled"
  BY DEF Cancel
<1>2. UNCHANGED <<ask, pc, round, tries, tools, auto, visual, table, facts, emitted, outbox, held, sent,
                  voices, over>>
  BY DEF question, turn, client
<1>3. TurnInv' /\ CallInv' /\ UnwindInv'
  BY <1>1, <1>2 DEF TurnInv, CallInv, UnwindInv
<1>4. ReplyInv'
  BY <1>2 DEF ReplyInv, Speakers, NeedsVisualNumberGate, Answered, Failures, Finishing, Texts, Text, Status,
              Citations, Error, NoEvent, Reports, Kinds
<1> QED BY <1>3, <1>4

\* The turn is told of a cancellation where it waited itself, or when its call has unwound.
LEMMA TimeOutKeeps ==
    ASSUME MaxTools \in Nat, TurnInv, ReplyInv, over = "no", outbox = <<>>,
           pc \in {"history", "rewrite", "retrieve", "supplement", "plan", "image", "table", "answer", "rag"},
           pc' = "end", gpc' = "idle", cancelling' \in {"deadline", "client", "stream"},
           UNCHANGED <<ask, held, sent, voices>>, Same,
           \/ over' = "no" /\ outbox' = TimedOut
           \/ over' = "broken" /\ outbox' = <<>>
    PROVE  TurnInv' /\ CallInv' /\ ReplyInv' /\ UnwindInv'
<1>1. UNCHANGED <<round, tries, tools, auto, visual, table, facts, emitted>>
  BY DEF Same
<1>2. PICK e \in Failures : TimedOut = <<Error, e>>
  <2>1. TimedOut[2] \in Failures /\ TimedOut = <<Error, TimedOut[2]>>
    BY Reported DEF TimedOut
  <2> QED BY <2>1
<1>3. TurnInv'
  BY <1>1 DEF TurnInv, TurnPlaces
<1>4. CallInv'
  BY DEF CallInv
<1>5. UnwindInv'
  <2>1. CASE over' = "no"
    <3>1. Error.kind # "text" /\ e.kind # "text"
      BY EventKinds
    <3>2. outbox' = <<Error, e>>
      BY <1>2, <2>1
    <3>3. Len(outbox') = 2 /\ outbox'[1] = Error /\ outbox'[2] = e
      BY <3>2
    <3>4. \A i \in 1..2 : i = 1 \/ i = 2
      OBVIOUS
    <3>5. \A i \in 1..Len(outbox') : outbox'[i].kind # "text"
      BY <3>1, <3>3, <3>4
    <3> QED BY <3>5 DEF UnwindInv
  <2>2. CASE over' # "no"
    BY <2>2 DEF UnwindInv
  <2> QED BY <2>1, <2>2
<1>6. /\ NeedsVisualNumberGate' <=> NeedsVisualNumberGate
      /\ Speakers' = Speakers /\ Texts' = Texts /\ Answered' = Answered /\ Failures' = Failures
  BY <1>1, SpeakersStay
<1>7. held = NoEvent /\ sent \in {<<>>, <<"text">>} /\ voices \subseteq Speakers
  BY DEF ReplyInv, EarlyPlaces
<1>8. ASSUME over' = "no" PROVE Finishing(held, sent, outbox)'
  <2>1. \E t \in Texts' : TRUE
    BY <1>6, Voices
  <2>2. outbox' = <<Error, e>> /\ e \in Failures'
    BY <1>2, <1>6, <1>8
  <2> QED BY <1>6, <1>7, <2>1, <2>2 DEF Finishing, NoEvent, Error
<1>9. sent' \in Seq(Kinds)
  BY SentKinds
<1>10. pc' \notin EarlyPlaces \cup {"gated", "fallback", "answer", "rag"}
  BY DEF EarlyPlaces
<1>11. voices' \subseteq Speakers' /\ held' = NoEvent
  BY <1>6, <1>7
<1>12. ReplyInv'
  BY <1>8, <1>9, <1>10, <1>11 DEF ReplyInv, NoEvent
<1> QED BY <1>3, <1>4, <1>5, <1>12

\* A deadline or a disconnect ends the stream, or cancels the call that is open.
LEMMA DeadlineKeeps ==
    ASSUME MaxTools \in Nat, GatewayInv, TurnInv, CallInv, ReplyInv, UnwindInv,
           TurnDeadline \/ LateDeadline \/ StreamDeadline \/ Disconnect
    PROVE  TurnInv' /\ CallInv' /\ ReplyInv' /\ UnwindInv'
<1>1. over = "no"
  BY DEF TurnDeadline, LateDeadline, StreamDeadline, Disconnect
<1>2. CASE \E who \in {"deadline", "client", "stream"} :
             Break(who) /\ (outbox # <<>> \/ Awaiting \/ pc = "end" \/ gpc = "yielded")
  <2>1. gpc \in {"idle", "yielded"}
    BY <1>1, <1>2 DEF CallInv, Awaiting
  <2> QED BY <1>1, <1>2, <2>1, BreakKeeps
<1>3. CASE \E who \in {"deadline", "client"} :
             /\ outbox = <<>> /\ Cancel /\ cancelling' = who
             /\ UNCHANGED <<question, turn, outbox, client, over>>
  BY <1>1, <1>3, CancelKeepsTurn
<1>4. CASE /\ outbox = <<>> /\ Awaiting /\ cancelling' = "deadline" /\ Goto("end") /\ Yield(TimedOut)
           /\ UNCHANGED <<gateway, question, client, over>> /\ Same
  <2>1. /\ pc \in {"retrieve", "supplement", "image", "table", "rag"} /\ pc' = "end" /\ gpc' = "idle"
        /\ over' = "no" /\ outbox' = TimedOut /\ UNCHANGED <<ask, held, sent, voices>>
    BY <1>1, <1>4 DEF Awaiting, Goto, Yield, gateway, question, client
  <2> QED BY <1>1, <1>4, <2>1, TimeOutKeeps
<1>5. CASE TurnDeadline
  BY <1>2, <1>3, <1>4, <1>5 DEF TurnDeadline
<1>6. CASE LateDeadline \/ StreamDeadline
  BY <1>2, <1>6 DEF LateDeadline, StreamDeadline
<1>7. CASE Disconnect
  BY <1>2, <1>3, <1>7 DEF Disconnect
<1> QED BY <1>5, <1>6, <1>7

\* A turn whose call was cancelled has only its error left to send.
LEMMA CancelledKeeps ==
    ASSUME MaxTools \in Nat, GatewayInv, TurnInv, CallInv, ReplyInv, UnwindInv, Cancelled
    PROVE  TurnInv' /\ CallInv' /\ ReplyInv' /\ UnwindInv'
<1>1. /\ gpc = "returned" /\ over = "no" /\ cancelling # "nobody" /\ gpc' = "idle" /\ pc' = "end" /\ Same
      /\ UNCHANGED <<ask, held, sent, voices, cancelling>>
      /\ \/ over' = "no" /\ outbox' = TimedOut
         \/ over' = "broken" /\ outbox' = <<>>
  BY DEF Cancelled, Goto, Yield, question, client
<1>2. outbox = <<>> /\ pc \in {"history", "rewrite", "plan", "answer"}
  BY <1>1 DEF UnwindInv, CallInv
<1>3. cancelling' \in {"deadline", "client", "stream"}
  BY <1>1 DEF TurnInv
<1> QED BY <1>1, <1>2, <1>3, TimeOutKeeps
-----------------------------------------------------------------------------
(* Every state *)

\* The invariant holds at the start, and every step keeps it.
LEMMA ChatInit ==
    ASSUME MaxRetries \in Nat, MaxFaults \in Nat, MaxRounds \in Nat \ {0}, MaxTools \in Nat \ {0}, Init
    PROVE  ChatInv
<1>1. /\ invocations = <<>> /\ usage = <<>> /\ <<>> \in Seq({"success", "failure", "cancelled"})
      /\ <<>> \in Seq(BOOLEAN)
  BY EmptySeq DEF Init, GatewayInit
<1>2. answered = FALSE /\ answered \in BOOLEAN
  BY DEF Init, GatewayInit
<1>3. GatewayInv
  <2>1. GatewayTypeOK
    BY <1>1, <1>2 DEF Init, GatewayInit, GatewayTypeOK
  <2> QED BY <2>1 DEF Init, GatewayInit, GatewayInv, AttemptsAccounted
<1>4. auto \in BOOLEAN /\ table \in BOOLEAN /\ facts \in BOOLEAN /\ emitted \in BOOLEAN /\ ~facts /\ ~emitted
  BY DEF Init
<1>5. TurnInv
  BY <1>4 DEF Init, TurnInv, TurnPlaces, EarlyPlaces
<1>6. CallInv /\ UnwindInv
  BY DEF Init, GatewayInit, CallInv, UnwindInv
<1>7. ReplyInv
  BY <1>4 DEF Init, ReplyInv, EarlyPlaces, NoEvent
<1> QED BY <1>3, <1>5, <1>6, <1>7 DEF ChatInv

\* What a step of the turn does with the gateway.
LEMMA TurnDrivesGateway ==
    ASSUME [Next]_vars PROVE GatewayStep
<1>1. CASE UNCHANGED vars
  BY <1>1 DEF vars, GatewayStep
<1>2. CASE Early
  BY <1>2 DEF Early, PrepareHistory, RewriteForRetrieval, Optional, AnnounceSearch, Retrieve,
              SupplementaryRetrieval, Plan, PlanInvalid, PlanCallFailed, PlanFinal, PlanSkipped, PlanTool,
              RunImage, RunTable, Begin, Returned, Calling, GatewayStep
<1>3. CASE SafetyGated \/ DeterministicTable \/ Fallback \/ RagEvents \/ SendComplete
  BY <1>3 DEF SafetyGated, DeterministicTable, Fallback, RagEvents, SendComplete, GatewayStep
<1>4. CASE Answer \/ Chunk \/ AnswerDone \/ AnswerFailed
  BY <1>4 DEF Answer, Chunk, AnswerDone, AnswerFailed, Begin, Returned, Calling, GatewayStep
<1>5. CASE Provider \/ ProviderDeadline \/ Retrying \/ Recording \/ CloseAbandoned
  BY <1>5 DEF Provider, ProviderDeadline, Retrying, Recording, CloseAbandoned, GatewayStep
<1>6. CASE Send \/ Cancelled
  BY <1>6 DEF Send, Cancelled, GatewayStep
<1>7. CASE TurnDeadline \/ LateDeadline \/ StreamDeadline \/ Disconnect
  BY <1>7 DEF TurnDeadline, LateDeadline, StreamDeadline, Disconnect, Break, GatewayStep
<1> QED BY <1>1, <1>2, <1>3, <1>4, <1>5, <1>6, <1>7 DEF Next, Steps, Others, Deadlines, Early

LEMMA ChatStep ==
    ASSUME MaxRetries \in Nat, MaxFaults \in Nat, MaxRounds \in Nat \ {0}, MaxTools \in Nat \ {0},
           ChatInv, [Next]_vars
    PROVE  ChatInv'
<1>1. GatewayInv /\ TurnInv /\ CallInv /\ ReplyInv /\ UnwindInv /\ MaxTools \in Nat
  BY DEF ChatInv
<1>2. GatewayInv'
  BY <1>1, TurnDrivesGateway, GatewayKeeps
<1>3. CASE UNCHANGED vars
  <2>1. UNCHANGED <<gateway, ask, pc, round, tries, tools, auto, visual, table, facts, emitted, outbox, held,
                    sent, voices, cancelling, over>>
    BY <1>3 DEF vars, question, turn, client
  <2>2. TurnInv' /\ CallInv' /\ UnwindInv'
    BY <1>1, <2>1 DEF gateway, TurnInv, CallInv, UnwindInv, Text
  <2>3. ReplyInv'
    BY <1>1, <2>1 DEF ReplyInv, Speakers, NeedsVisualNumberGate, Answered, Failures, Finishing, Texts, Text,
                      Status, Citations, Error, NoEvent, Reports, Kinds
  <2> QED BY <1>2, <2>2, <2>3 DEF ChatInv
<1>4. CASE Early
  <2>1. EarlyStep /\ TurnInv'
    BY <1>1, <1>4, EarlyKeepsTurn
  <2> QED BY <1>1, <1>2, <2>1, EarlyKeeps DEF ChatInv
<1>5. CASE Provider \/ ProviderDeadline \/ Retrying \/ Recording \/ CloseAbandoned
  <2>1. /\ Rest
        /\ \/ ProviderEnds \/ Deadline \/ Backoff \/ RecordInvocation \/ RecordUsage
           \/ over # "no" /\ CloseStream
    BY <1>5 DEF Provider, ProviderDeadline, Retrying, Recording, CloseAbandoned, Rest
  <2> QED BY <1>1, <1>2, <2>1, WaitingKeeps DEF ChatInv
<1>6. CASE SafetyGated \/ DeterministicTable \/ AnswerDone \/ AnswerFailed
  <2>1. EndStep
    BY <1>1, <1>6, GatedEnds, TableEnds, AnswerEnds
  <2> QED BY <1>1, <1>2, <2>1, EndKeeps DEF ChatInv
<1>7. CASE Fallback \/ RagEvents
  BY <1>1, <1>2, <1>7, FallbackKeeps DEF ChatInv
<1>8. CASE Answer \/ Chunk
  BY <1>1, <1>2, <1>8, StreamMoves DEF ChatInv
<1>9. CASE Send
  BY <1>1, <1>2, <1>9, SendKeepsTurn DEF ChatInv
<1>10. CASE SendComplete
  BY <1>1, <1>2, <1>10, SendCompleteKeeps DEF ChatInv
<1>11. CASE TurnDeadline \/ LateDeadline \/ StreamDeadline \/ Disconnect
  BY <1>1, <1>2, <1>11, DeadlineKeeps DEF ChatInv
<1>12. CASE Cancelled
  BY <1>1, <1>2, <1>12, CancelledKeeps DEF ChatInv
<1> QED BY <1>3, <1>4, <1>5, <1>6, <1>7, <1>8, <1>9, <1>10, <1>11, <1>12
        DEF Next, Steps, Others, Deadlines, Early

\* Every reachable state of a turn: what the gateway has on record at each of its
\* awaits, where a call may be open, and how what the client has got and what it gets
\* next make up a stream (llm/gateway.py, agent/service.py).
THEOREM ChatInvariance == Spec => []ChatInv
<1>1. /\ MaxRetries \in Nat /\ MaxFaults \in Nat
      /\ MaxRounds \in Nat \ {0} /\ MaxTools \in Nat \ {0}
  BY Bounded
<1>2. Init => ChatInv
  BY <1>1, ChatInit
<1>3. ChatInv /\ [Next]_vars => ChatInv'
  BY <1>1, ChatStep
<1> QED BY <1>2, <1>3, PTL DEF Spec

\* Every variable stays in its range: the rounds of planning, the tools and the retries
\* within their limits, and no more than three events in hand (_plan_and_run_tools).
THEOREM ChatTypeCorrect == Spec => []TypeOK
<1>1. ChatInv => TypeOK
  <2> SUFFICES ASSUME ChatInv PROVE TypeOK
    OBVIOUS
  <2>1. TurnInv /\ ReplyInv /\ GatewayInv /\ CallInv
    BY DEF ChatInv
  <2>2. sent \in Seq(Kinds)
    BY <2>1, SentKinds
  <2>3. voices \subseteq Carried
    BY <2>1 DEF ReplyInv, Speakers, Carried
  <2>4. Len(outbox) <= 3
    <3>1. ASSUME outbox = <<>> \/ \E x : outbox = <<x>> PROVE Len(outbox) <= 3
      BY <3>1
    <3>2. CASE pc = "end" /\ over = "no"
      <4>1. Finishing(held, sent, outbox)
        BY <2>1, <3>2 DEF ReplyInv
      <4>2. \/ outbox = <<>> \/ (\E x : outbox = <<x>>)
            \/ (\E x, y : outbox = <<x, y>>) \/ (\E x, y, z : outbox = <<x, y, z>>)
        BY <4>1 DEF Finishing
      <4>3. ASSUME NEW x, NEW y, outbox = <<x, y>> PROVE Len(outbox) <= 3
        BY <4>3
      <4>4. ASSUME NEW x, NEW y, NEW z, outbox = <<x, y, z>> PROVE Len(outbox) <= 3
        BY <4>4
      <4> QED BY <3>1, <4>2, <4>3, <4>4
    <3> QED BY <2>1, <3>1, <3>2 DEF ReplyInv, CallInv, TurnInv, TurnPlaces
  <2> QED BY <2>1, <2>2, <2>3, <2>4 DEF TypeOK, TurnInv, TurnPlaces, EarlyPlaces, GatewayInv
<1> QED BY <1>1, ChatInvariance, PTL

\* When a call returns, each attempt is on record once unless its write failed or was
\* cancelled, there is at most one usage record, a result comes with both saying
\* success, and nothing follows a success (LLMGateway.complete and stream).
THEOREM AttemptsAreAccounted == Spec => []AttemptsAccounted
<1>1. ChatInv => AttemptsAccounted
  BY DEF ChatInv, GatewayInv
<1> QED BY <1>1, ChatInvariance, PTL

\* Where the number gate applies, no text is a model's, whichever way the turn came
\* there; and an answer verified by its source stands on a table alone
\* (_needs_visual_number_gate, _answer_events).
THEOREM NumbersAreWithheld == Spec => []VisualNumbersWithheld
<1>1. ChatInv => VisualNumbersWithheld
  <2> SUFFICES ASSUME ChatInv PROVE VisualNumbersWithheld
    OBVIOUS
  <2>1. voices \subseteq Speakers /\ (held # NoEvent => held \in Answered \cup Failures)
    BY DEF ChatInv, ReplyInv
  <2>2. NumbersGated => voices \cap {"model", "rag", "figure"} = {}
    BY <2>1 DEF NumbersGated, Speakers, NeedsVisualNumberGate
  <2>3. held # NoEvent /\ held.fact = "source_verified" => table /\ visual # "completed"
    BY <2>1 DEF Answered, Failures
  <2> QED BY <2>2, <2>3 DEF VisualNumbersWithheld
<1> QED BY <1>1, ChatInvariance, PTL

\* No step of a cancelled turn plans, runs a tool, tries a call again or speaks.
LEMMA CancelledOnlyUnwinds ==
    ASSUME MaxRounds \in Nat \ {0}, MaxTools \in Nat \ {0}, ChatInv, cancelling # "nobody", Next
    PROVE  pc' \in {pc, "end"} /\ tools' = tools /\ attempt' = attempt /\ voices' = voices
<1>1. GatewayInv /\ TurnInv /\ CallInv /\ ReplyInv /\ UnwindInv /\ MaxTools \in Nat
  BY DEF ChatInv
<1>2. ASSUME over = "no" PROVE /\ ~(gpc = "idle" /\ pc # "end") /\ gpc \notin {"provider", "backoff", "yielded"}
                               /\ ~(gpc # "idle" /\ outcome # "cancelled")
  BY <1>1, <1>2, Uncancelled
<1>3. ~Early
  <2>1. ~EarlyStep
    BY <1>2 DEF EarlyStep, EarlyPlaces
  <2> QED BY <1>1, <2>1, EarlyKeepsTurn
<1>4. ~(SafetyGated \/ DeterministicTable \/ AnswerDone \/ AnswerFailed \/ Fallback \/ RagEvents)
  <2>1. ~EndStep
    BY <1>2 DEF EndStep
  <2>2. ~(over = "no" /\ gpc = "idle" /\ pc \in {"fallback", "rag"})
    BY <1>2
  <2> QED BY <1>1, <2>1, <2>2, GatedEnds, TableEnds, AnswerEnds, FallbackMoves
<1>5. ~(Answer \/ Chunk)
  BY <1>2 DEF Answer, Begin, Running, Chunk, YieldEvent
<1>6. CASE Provider \/ ProviderDeadline \/ Recording \/ CloseAbandoned
  BY <1>6 DEF Provider, ProviderEnds, ProviderDeadline, Deadline, Attempted, Recording, RecordInvocation,
              RecordUsage, CloseAbandoned, CloseStream, Rest, turn, client
<1>7. ~Retrying
  BY <1>1, <1>2 DEF Retrying, Backoff, CallInv
<1>8. CASE Send
  <2>1. over = "no" /\ outbox # <<>>
    BY <1>8 DEF Send
  <2>2. PICK e : e = Head(outbox)
    OBVIOUS
  <2>3. outbox \in Seq(Events)
    BY <1>1, <2>1, <2>2, FirstEvent
  <2>4. e = outbox[1] /\ 1 \in 1..Len(outbox)
    BY <2>1, <2>2, <2>3, EmptySeq
  <2>5. gpc = "idle" /\ e.kind # "text"
    BY <1>1, <2>1, <2>4 DEF UnwindInv
  <2> QED BY <1>8, <2>2, <2>5 DEF Send, turn, gateway
<1>9. CASE SendComplete
  BY <1>9 DEF SendComplete, turn, gateway
<1>10. CASE TurnDeadline \/ LateDeadline \/ StreamDeadline \/ Disconnect
  BY <1>10 DEF TurnDeadline, LateDeadline, StreamDeadline, Disconnect, Break, Cancel, turn, client, gateway
<1>11. CASE Cancelled
  BY <1>11 DEF Cancelled, Goto, Same, client
<1> QED BY <1>3, <1>4, <1>5, <1>6, <1>7, <1>8, <1>9, <1>10, <1>11 DEF Next, Steps, Others, Deadlines, Early

\* After its cancellation a turn plans nothing, runs no tool, tries no call again and
\* speaks no more, even when the record of the interrupted call cannot be written.
THEOREM CancelIsRespected == Spec => CancelRespected
<1>1. MaxRounds \in Nat \ {0} /\ MaxTools \in Nat \ {0}
  BY Bounded
<1>2. ChatInv /\ [Next]_vars =>
        [cancelling # "nobody" =>
           /\ pc' \in {pc, "end"} /\ tools' = tools /\ attempt' = attempt /\ voices' = voices]_vars
  BY <1>1, CancelledOnlyUnwinds
<1> QED BY <1>2, ChatInvariance, PTL DEF Spec, CancelRespected
-----------------------------------------------------------------------------
(* The refinement *)

Delivered == [t \in {"turn"} |-> sent]
Closed == IF over = "no" THEN {} ELSE {"turn"}

\* A step that sends nothing.
LEMMA Silence ==
    ASSUME sent' = sent, over' = over \/ (over = "no" /\ over' # "no")
    PROVE  ES!Next \/ UNCHANGED <<Delivered, Closed>>
<1>1. CASE over' = over
  BY <1>1 DEF Delivered, Closed
<1>2. CASE over = "no" /\ over' # "no"
  <2>1. ES!Break("turn")
    BY <1>2 DEF ES!Break
  <2> QED BY <2>1 DEF ES!Next
<1> QED BY <1>1, <1>2

\* What is sent is allowed by EventStream, as is the end of the stream.
LEMMA TurnSends ==
    ASSUME TurnInv, ReplyInv, Send PROVE ES!Next \/ UNCHANGED <<Delivered, Closed>>
<1>1. over = "no" /\ outbox # <<>> /\ over' = over
  BY DEF Send
<1>2. PICK e : e = Head(outbox)
  OBVIOUS
<1>3. sent' = IF e.kind \in {"status", "complete"} THEN sent ELSE Joined(sent, e.kind)
  BY <1>2 DEF Send
<1>4. \/ e = Status \/ e \in Answered \cup Failures
      \/ e \in Texts /\ sent \in {<<>>, <<"text">>, <<"citations">>}
      \/ e \in {Citations, Error} /\ sent \in {<<>>, <<"text">>}
  BY <1>1, <1>2, FirstEvent
<1>5. CASE e = Status \/ e \in Answered \cup Failures
  <2>1. e.kind \in {"status", "complete"}
    BY <1>5, EventKinds
  <2> QED BY <1>1, <1>3, <2>1, Silence
<1>6. \A k : ES!Received("turn", k) <=> \E i \in 1..Len(sent) : sent[i] = k
  BY DEF ES!Received
<1>7. ASSUME NEW k \in {"text", "citations", "error"}, e.kind = k PROVE ES!Deliver("turn", k) /\ Closed' = Closed
  BY <1>1, <1>3, <1>7 DEF ES!Deliver, Joined, Closed
<1>8. CASE e \in Texts /\ sent \in {<<>>, <<"text">>, <<"citations">>}
  <2>1. ES!Deliver("turn", "text") /\ Closed' = Closed
    BY <1>7, <1>8, EventKinds
  <2>2. ~ES!Received("turn", "error")
    BY <1>6, <1>8
  <2>3. ES!Text("turn")
    BY <2>1, <2>2 DEF ES!Text, Closed
  <2> QED BY <2>3 DEF ES!Next
<1>9. CASE e \in {Citations, Error} /\ sent \in {<<>>, <<"text">>}
  <2>1. ~ES!Received("turn", "error") /\ ~ES!Received("turn", "citations")
    BY <1>6, <1>9
  <2>2. CASE e = Citations
    <3>1. ES!Deliver("turn", "citations") /\ Closed' = Closed
      BY <1>7, <2>2, EventKinds
    <3>2. ES!Cite("turn")
      BY <2>1, <3>1 DEF ES!Cite, Closed
    <3> QED BY <3>2 DEF ES!Next
  <2>3. CASE e = Error
    <3>1. ES!Deliver("turn", "error") /\ Closed' = Closed
      BY <1>7, <2>3, EventKinds
    <3>2. ES!Fail("turn")
      BY <2>1, <3>1 DEF ES!Fail, Closed
    <3> QED BY <3>2 DEF ES!Next
  <2> QED BY <1>9, <2>2, <2>3
<1> QED BY <1>4, <1>5, <1>8, <1>9

LEMMA TurnCompletes ==
    ASSUME ReplyInv, SendComplete PROVE ES!Next
<1>1. /\ pc = "end" /\ over = "no" /\ outbox = <<>> /\ held # NoEvent
      /\ sent' = Append(sent, held.status) /\ over' = "complete"
  BY DEF SendComplete
<1>2. \/ held \in Answered /\ sent \in {<<"citations", "text">>, <<"text", "citations">>, <<"text">>}
      \/ held \in Failures /\ sent \in {<<"error">>, <<"text", "error">>}
  BY <1>1 DEF ReplyInv, Finishing
<1>3. \A k : ES!Received("turn", k) <=> \E i \in 1..Len(sent) : sent[i] = k
  BY DEF ES!Received
<1>4. CASE held \in Answered /\ sent \in {<<"citations", "text">>, <<"text", "citations">>, <<"text">>}
  <2>1. held.status = "completed"
    BY <1>4 DEF Answered
  <2>2. sent[Len(sent)] # "completed"
    BY <1>4
  <2>3. ES!Deliver("turn", "completed")
    BY <1>1, <2>1, <2>2 DEF ES!Deliver
  <2>4. ES!Received("turn", "text") /\ ~ES!Received("turn", "error")
    <3>1. 1 \in 1..Len(sent) /\ (sent[1] = "text" \/ (2 \in 1..Len(sent) /\ sent[2] = "text"))
      BY <1>4
    <3>2. \A i \in 1..Len(sent) : sent[i] # "error"
      BY <1>4
    <3> QED BY <1>3, <3>1, <3>2
  <2>5. ES!Complete("turn")
    BY <1>1, <2>3, <2>4 DEF ES!Complete
  <2> QED BY <2>5 DEF ES!Next
<1>5. CASE held \in Failures /\ sent \in {<<"error">>, <<"text", "error">>}
  <2>1. held.status = "failed"
    BY <1>5 DEF Failures
  <2>2. sent[Len(sent)] = "error" /\ Len(sent) \in 1..Len(sent)
    BY <1>5
  <2>3. ES!Deliver("turn", "failed")
    BY <1>1, <2>1, <2>2 DEF ES!Deliver
  <2>4. ES!Received("turn", "error")
    BY <1>3, <2>2
  <2>5. ES!Complete("turn")
    BY <1>1, <2>3, <2>4 DEF ES!Complete
  <2> QED BY <2>5 DEF ES!Next
<1> QED BY <1>2, <1>4, <1>5

\* Every step is a step of EventStream, or leaves it alone.
LEMMA TurnStreams ==
    ASSUME MaxRounds \in Nat \ {0}, MaxTools \in Nat \ {0}, ChatInv, [Next]_vars
    PROVE  ES!Next \/ UNCHANGED <<Delivered, Closed>>
<1>1. TurnInv /\ CallInv /\ ReplyInv /\ MaxTools \in Nat
  BY DEF ChatInv
<1>2. CASE Send
  BY <1>1, <1>2, TurnSends
<1>3. CASE SendComplete
  BY <1>1, <1>3, TurnCompletes
<1>4. CASE sent' = sent /\ (over' = over \/ (over = "no" /\ over' # "no"))
  BY <1>4, Silence
<1>5. CASE UNCHANGED vars
  BY <1>4, <1>5 DEF vars, client
<1>6. CASE Early
  <2>1. EarlyStep
    BY <1>1, <1>6, EarlyKeepsTurn
  <2> QED BY <1>4, <2>1 DEF EarlyStep
<1>7. CASE SafetyGated \/ DeterministicTable \/ AnswerDone \/ AnswerFailed \/ Fallback \/ RagEvents
  <2>1. EndStep \/ (sent' = sent /\ over' = over)
    BY <1>1, <1>7, GatedEnds, TableEnds, AnswerEnds, FallbackMoves
  <2> QED BY <1>4, <2>1 DEF EndStep
<1>8. CASE Answer \/ Chunk
  BY <1>4, <1>8 DEF Answer, Begin, Chunk, Quiet, client
<1>9. CASE Provider \/ ProviderDeadline \/ Retrying \/ Recording \/ CloseAbandoned
  BY <1>4, <1>9 DEF Provider, ProviderDeadline, Retrying, Recording, CloseAbandoned, Rest, client
<1>10. CASE TurnDeadline \/ LateDeadline \/ StreamDeadline \/ Disconnect
  BY <1>4, <1>10 DEF TurnDeadline, LateDeadline, StreamDeadline, Disconnect, Break, client
<1>11. CASE Cancelled
  BY <1>4, <1>11 DEF Cancelled, client
<1> QED BY <1>2, <1>3, <1>5, <1>6, <1>7, <1>8, <1>9, <1>10, <1>11 DEF Next, Steps, Others, Deadlines, Early

\* A turn sends its client a stream that EventStream allows, whether it is answered by
\* the agent, the number gate, a table or the classic service, fails, times out, or is
\* broken off (_answer_events, _fallback_events, _agent_events).
THEOREM TurnImplementation == Spec => ImplementsEventStream
<1>1. MaxRounds \in Nat \ {0} /\ MaxTools \in Nat \ {0}
  BY Bounded
<1>2. Init => ES!Init
  BY DEF Init, ES!Init
<1>3. ChatInv /\ [Next]_vars =>
        [ES!Next]_<<[t \in {"turn"} |-> sent], IF over = "no" THEN {} ELSE {"turn"}>>
  BY <1>1, TurnStreams DEF Delivered, Closed
<1> QED BY <1>2, <1>3, ChatInvariance, PTL DEF Spec, ImplementsEventStream, ES!Spec
=============================================================================
