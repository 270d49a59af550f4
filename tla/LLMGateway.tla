----------------------------- MODULE LLMGateway ------------------------------
(***************************************************************************)
(* One call of the LLM gateway at a time (llm/gateway.py): complete() with *)
(* its retries, stream() with the consumer between two of its events, and  *)
(* what both write to the database: one record for each attempt at the     *)
(* provider, one usage record for each call.  Every await may be cancelled *)
(* and every write may fail, applied or not.                               *)
(***************************************************************************)
EXTENDS Naturals, Sequences

CONSTANTS
    MaxRetries, \* llm_max_retries
    MaxFaults   \* bound: failing writes of the recorder

ASSUME GatewayAssumption == MaxRetries \in Nat /\ MaxFaults \in Nat

VARIABLES
    gpc,      \* where the call stands
    kind,     \* "complete" or "stream"
    attempt,  \* attempts begun
    outcome,  \* how the attempt, later the call, has ended
    invocations, \* outcomes of the attempts on record
    usage,    \* the usage records of the call: its success
    answered, \* history: the provider has answered this call in full
    unsure,   \* history: attempts whose record did not return normally
    faults

gateway == <<gpc, kind, attempt, outcome, invocations, usage, answered, unsure, faults>>

GatewayInit ==
    /\ gpc = "idle" /\ kind = "complete" /\ attempt = 0 /\ outcome = "none"
    /\ invocations = <<>> /\ usage = <<>> /\ answered = FALSE /\ unsure = 0 /\ faults = 0

Call(k) ==
    /\ gpc = "idle"
    /\ gpc' = "provider" /\ kind' = k /\ attempt' = 1 /\ outcome' = "none"
    /\ invocations' = <<>> /\ usage' = <<>> /\ answered' = FALSE /\ unsure' = 0
    /\ UNCHANGED faults

Calling(k) == gpc = "returned" /\ kind = k
\* What the caller gets: an LLMError, another exception, or CancelledError.
LLMErrors == {"retryable", "fatal", "configuration", "persistence"}

-----------------------------------------------------------------------------
(* The provider *)

\* An attempt ends; a missing key is noticed before anything is sent.
Attempted(o) ==
    /\ gpc = "provider"
    /\ outcome' = o /\ answered' = (o = "ok")
    /\ gpc' = IF o = "configuration" THEN "returned" ELSE "record"
    /\ UNCHANGED <<kind, attempt, invocations, usage, unsure, faults>>

ProviderOutcomes ==
    {"ok", "fatal"} \cup (IF kind = "complete" THEN {"retryable"} ELSE {})
                    \cup (IF attempt = 1 THEN {"configuration"} ELSE {})
ProviderEnds == \E o \in ProviderOutcomes : Attempted(o)
\* llm_timeout_seconds, for one attempt or for the whole stream.
Deadline == Attempted(IF kind = "complete" THEN "retryable" ELSE "fatal")

Backoff ==
    /\ gpc = "backoff"
    /\ gpc' = "provider" /\ attempt' = attempt + 1 /\ outcome' = "none"
    /\ UNCHANGED <<kind, invocations, usage, answered, unsure, faults>>

\* stream() hands an event to its consumer, and goes on when it is resumed.
YieldEvent ==
    /\ gpc = "provider" /\ kind = "stream"
    /\ gpc' = "yielded"
    /\ UNCHANGED <<kind, attempt, outcome, invocations, usage, answered, unsure, faults>>
Resume ==
    /\ gpc = "yielded"
    /\ gpc' = "provider"
    /\ UNCHANGED <<kind, attempt, outcome, invocations, usage, answered, unsure, faults>>
\* The consumer has gone: GeneratorExit at the yield.
CloseStream ==
    /\ gpc = "yielded"
    /\ gpc' = "record" /\ outcome' = "closed"
    /\ UNCHANGED <<kind, attempt, invocations, usage, answered, unsure, faults>>

-----------------------------------------------------------------------------
(* The records *)

Outcome == IF outcome = "ok" THEN "success"
           ELSE IF outcome = "cancelled" THEN "cancelled" ELSE "failure"

\* Mutant: every failure of a provider call is tried again.
RetryAll == kind = "complete" /\ outcome # "cancelled" /\ attempt <= MaxRetries
Retry == kind = "complete" /\ outcome = "retryable" /\ attempt <= MaxRetries

\* Mutant: the failure of the write replaces the cancellation.
BrokenAlways == {"persistence", "raw"}
\* What a failed write leaves: CancelledError is raised from the failure.
Broken == IF outcome = "cancelled" THEN {"cancelled"} ELSE {"persistence", "raw"}

\* A write is applied when it returns, and may be applied when it does not.
Applied(log, x) == log' = Append(log, x)
MaybeApplied(log, x) == Applied(log, x) \/ log' = log

RecordInvocation ==
    /\ gpc = "record"
    /\ \/ /\ Applied(invocations, Outcome)
          /\ gpc' = IF Retry THEN "backoff" ELSE "usage"
          /\ UNCHANGED <<outcome, unsure, faults>>
       \/ /\ faults < MaxFaults /\ faults' = faults + 1
          /\ MaybeApplied(invocations, Outcome)
          /\ outcome' \in Broken /\ unsure' = unsure + 1
          \* stream() writes both records in one finally block
          /\ gpc' = IF kind = "stream" THEN "returned" ELSE "usage"
    /\ UNCHANGED <<kind, attempt, usage, answered>>

RecordUsage ==
    /\ gpc = "usage"
    /\ \/ /\ Applied(usage, outcome = "ok")
          \* complete() wraps what is not an LLMError once it is recorded
          /\ outcome' = IF outcome = "raw" THEN "fatal" ELSE outcome
          /\ UNCHANGED faults
       \/ /\ faults < MaxFaults /\ faults' = faults + 1
          /\ MaybeApplied(usage, outcome = "ok")
          /\ outcome' \in Broken
    /\ gpc' = "returned"
    /\ UNCHANGED <<kind, attempt, invocations, answered, unsure>>

-----------------------------------------------------------------------------
(* CancelledError at the await the call is in *)

Cancel ==
    /\ outcome' = "cancelled"
    /\ \/ gpc = "provider" /\ gpc' = "record" /\ UNCHANGED <<invocations, usage, unsure>>
       \/ gpc = "backoff" /\ gpc' = "usage" /\ UNCHANGED <<invocations, usage, unsure>>
       \/ /\ gpc = "record" /\ gpc' = IF kind = "stream" THEN "returned" ELSE "usage"
          /\ MaybeApplied(invocations, Outcome) /\ unsure' = unsure + 1
          /\ UNCHANGED usage
       \/ /\ gpc = "usage" /\ gpc' = "returned"
          /\ MaybeApplied(usage, outcome = "ok")
          /\ UNCHANGED <<invocations, unsure>>
    /\ UNCHANGED <<kind, attempt, answered, faults>>

Busy == gpc \in {"provider", "backoff", "record", "usage"}

GatewayTypeOK ==
    /\ gpc \in {"idle", "provider", "backoff", "record", "usage", "yielded", "returned"}
    /\ kind \in {"complete", "stream"}
    /\ attempt \in 0..(MaxRetries + 1)
    /\ outcome \in {"none", "ok", "raw", "cancelled", "closed"} \cup LLMErrors
    /\ invocations \in Seq({"success", "failure", "cancelled"})
    /\ usage \in Seq(BOOLEAN)
    /\ answered \in BOOLEAN /\ unsure \in Nat /\ faults \in 0..MaxFaults

\* When a call returns, each attempt is on record exactly once, but for those
\* whose write failed or was cancelled, and there is at most one usage record;
\* a caller that gets a result finds both saying success, and no call the
\* provider has answered is tried again (the records follow the try block of
\* _invoke_once and the retry loop around it).
AttemptsAccounted ==
    gpc = "returned" =>
        /\ outcome # "configuration" =>
              /\ attempt <= Len(invocations) + unsure /\ Len(invocations) <= attempt
        /\ Len(usage) <= 1
        /\ outcome = "ok" => /\ usage = <<TRUE>>
                             /\ Len(invocations) = attempt
                             /\ invocations[attempt] = "success"
        /\ \A i \in 1..Len(invocations) : invocations[i] = "success" => i = Len(invocations)
=============================================================================
