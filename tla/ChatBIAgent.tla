----------------------------- MODULE ChatBIAgent ------------------------------
(***************************************************************************)
(* Questions to registered data sources: ChatBIAgentService.ask with the   *)
(* eligibility gate, NL2SQL, SQLExecutionService and its PostgreSQL        *)
(* adapter, behind the MCP server's bound on calls in flight.  Meanwhile   *)
(* the data source is edited and the schema of the database changes.       *)
(***************************************************************************)
EXTENDS Integers, Sequences, FiniteSets, SequencesExt

CONSTANTS
    Requests,
    MaxInFlight,    \* mcp_max_in_flight
    MaxSqlAttempts, MaxRepairAttempts, MaxSteps, MaxLlmCalls, \* ChatBIAgentLimits
    MaxRows,        \* QueryPolicy.max_rows
    MaxChanges,     \* bound: edits of the data source and changes of the schema
    MaxCancels      \* bound: requests that are cancelled

ASSUME ChatBIAssumption ==
    /\ {MaxInFlight, MaxSqlAttempts, MaxSteps, MaxLlmCalls, MaxRows} \subseteq Nat \ {0}
    /\ {MaxRepairAttempts, MaxChanges, MaxCancels} \subseteq Nat

VARIABLES
    source,    \* the row of the data source: "enabled", "disabled" or "deleted"
    schema,    \* the version of the schema of its database
    changes, cancels,
    queue,     \* requests that wait for a place, the first one first
    pc,
    stage,     \* [r -> what its trusted context is for: "assess", "generate" or "validate"]
    row,       \* [r -> the row it looked up last]
    snapshot,  \* [r -> the version of the schema it discovered last]
    candidate, \* [r -> its last SQL candidate]
    audit,     \* [r -> the state of the last audit record]
    outcome,   \* [r -> result of the execution service]
    used,      \* [r -> steps, sql_attempts, repair_attempts and llm_calls of its budget]
    called,    \* [r -> calls made to the gateway]
    result     \* [r -> ChatBIResult]

world == <<source, schema, changes>>
trusted == <<stage, row, snapshot>>
vars == <<world, cancels, queue, pc, trusted, candidate, audit, outcome, used, called, result>>

NoLimit == 0
NoSchema == -1
NoCandidate == [seen |-> NoSchema, sql |-> "none", limit |-> NoLimit]
NoOutcome == [state |-> "none", error |-> "none", rows |-> 0, total |-> 0, truncated |-> FALSE]
NoResult == [status |-> "none", error |-> "none", answered |-> FALSE, sql |-> FALSE, rows |-> 0]

Init ==
    /\ source = "enabled" /\ schema = 0
    /\ changes = 0 /\ cancels = 0 /\ queue = <<>>
    /\ pc = [r \in Requests |-> "start"] /\ stage = [r \in Requests |-> "assess"]
    /\ row = [r \in Requests |-> "deleted"] /\ snapshot = [r \in Requests |-> NoSchema]
    /\ candidate = [r \in Requests |-> NoCandidate]
    /\ audit = [r \in Requests |-> "none"] /\ outcome = [r \in Requests |-> NoOutcome]
    /\ used = [r \in Requests |-> [steps |-> 0, sql |-> 0, repairs |-> 0, calls |-> 0]]
    /\ called = [r \in Requests |-> 0] /\ result = [r \in Requests |-> NoResult]

Goto(r, l) == pc' = [pc EXCEPT ![r] = l]
Audit(r, s) == audit' = [audit EXCEPT ![r] = s]

-----------------------------------------------------------------------------
(* The world: PATCH and DELETE of the data source, and DDL of its database *)

Change ==
    /\ changes < MaxChanges /\ changes' = changes + 1
    /\ \/ source # "deleted" /\ source' \in {"enabled", "disabled", "deleted"} /\ UNCHANGED schema
       \/ schema' = schema + 1 /\ UNCHANGED source
    /\ UNCHANGED <<cancels, queue, pc, trusted, candidate, audit, outcome, used, called, result>>

-----------------------------------------------------------------------------
(* run_bounded: a semaphore that serves its waiters in turn *)

Running == {r \in Requests : pc[r] \notin {"start", "waiting", "done", "cancelled"}}

Arrive(r) ==
    /\ pc[r] = "start" /\ Goto(r, "waiting") /\ queue' = Append(queue, r)
    /\ UNCHANGED <<world, cancels, trusted, candidate, audit, outcome, used, called, result>>

\* Mutant: the bound is tested before the place is taken.
BoundPassed == Cardinality(Running) <= MaxInFlight
HasPlace == Cardinality(Running) < MaxInFlight

-----------------------------------------------------------------------------
(* ask *)

\* _build_result
Result(r, error, out, cand) ==
    LET status == IF out.state # "none" THEN out.state ELSE "failed"
    IN [status |-> status, error |-> IF error # "none" THEN error ELSE out.error,
        answered |-> FALSE, sql |-> cand.sql # "none", rows |-> out.rows]
Finish(r, res) == result' = [result EXCEPT ![r] = res] /\ Goto(r, "done")
LimitResult(r) == Result(r, "limit", outcome[r], candidate[r])

StepLeft(r) == used[r].steps < MaxSteps

\* The eligibility check is the first step.
Start(r) ==
    /\ pc[r] = "waiting" /\ queue # <<>> /\ Head(queue) = r /\ HasPlace
    /\ queue' = Tail(queue)
    /\ used' = [used EXCEPT ![r].steps = 1] /\ Goto(r, "lookup")
    /\ UNCHANGED <<world, cancels, trusted, candidate, audit, outcome, called, result>>

\* What follows an error of the trusted context: the end of the request, or of
\* the statement.
Rejections == {"disabled", "malformed", "unknown", "unsafe", "policy"}
StatementEnds(r, state, error) ==
    /\ outcome' = [outcome EXCEPT ![r] = [NoOutcome EXCEPT !.state = state, !.error = error]]
    /\ Audit(r, state) /\ Goto(r, "executed") /\ UNCHANGED <<candidate, result>>
ContextFails(r, error) ==
    IF stage[r] = "validate"
    THEN StatementEnds(r, IF error \in Rejections THEN "rejected" ELSE "failed", error)
    ELSE /\ Finish(r, Result(r, error, outcome[r], candidate[r]))
         /\ UNCHANGED <<candidate, audit, outcome>>

\* _get_registered_data_source
Lookup(r) ==
    /\ pc[r] = "lookup"
    /\ row' = [row EXCEPT ![r] = source]
    /\ \/ source # "deleted" /\ Goto(r, "discover") /\ UNCHANGED <<candidate, audit, outcome, result>>
       \/ ContextFails(r, "not_found") \* or the registry cannot be read
    /\ UNCHANGED <<world, cancels, queue, stage, snapshot, used, called>>

\* _SQLSafetyValidator: the first check that fails names the error.
\* Mutant: the snapshot a candidate was written for is not compared.
AcceptAnySnapshot(r, snap) == IF candidate[r].sql = "fine" THEN "none" ELSE candidate[r].sql
Verdict(r, snap) ==
    IF candidate[r].seen # snap THEN "policy"
    ELSE IF candidate[r].sql = "fine" THEN "none" ELSE candidate[r].sql

\* _run: validated, credentials, executing.
Validated(r, snap) ==
    IF Verdict(r, snap) # "none" THEN StatementEnds(r, "rejected", Verdict(r, snap))
    ELSE \/ StatementEnds(r, "failed", "credentials")
         \/ Audit(r, "executing") /\ Goto(r, "executing") /\ UNCHANGED <<candidate, outcome, result>>

\* discover: a disabled source, an unreachable database, or a snapshot of its
\* schema; a call of the gateway follows, or validation.
Discover(r) ==
    /\ pc[r] = "discover"
    /\ \/ row[r] = "disabled" /\ ContextFails(r, "disabled") /\ UNCHANGED <<snapshot, called>>
       \/ row[r] = "enabled" /\ ContextFails(r, "discovery") /\ UNCHANGED <<snapshot, called>>
       \/ /\ row[r] = "enabled"
          /\ snapshot' = [snapshot EXCEPT ![r] = schema]
          /\ IF stage[r] = "validate" THEN Validated(r, schema) /\ UNCHANGED called
             ELSE /\ called' = [called EXCEPT ![r] = @ + 1] /\ Goto(r, "model")
                  /\ UNCHANGED <<candidate, audit, outcome, result>>
    /\ UNCHANGED <<world, cancels, queue, stage, row, used>>

\* Mutant: an unavailable gate is reported without an error.
SilentlyUnavailable(r) == Finish(r, [NoResult EXCEPT !.status = "unavailable"])
Unavailable(r) == Finish(r, [NoResult EXCEPT !.status = "unavailable", !.error = "unavailable"])

\* assess_for_registered_data_source without the model: a request to write, or
\* a prompt that cannot be built.
RefuseWrite(r) ==
    /\ pc[r] = "discover" /\ stage[r] = "assess" /\ row[r] = "enabled"
    /\ \/ Finish(r, [NoResult EXCEPT !.status = "refuse", !.answered = TRUE])
       \/ Unavailable(r)
    /\ UNCHANGED <<world, cancels, queue, trusted, candidate, audit, outcome, used, called>>

\* The classifier answers or fails: the call counts.
\* Mutant: the call of the gate is not counted.
GateFree(r) == UNCHANGED used
CountGate(r) == used' = [used EXCEPT ![r].calls = @ + 1]
Assessed(r) ==
    /\ pc[r] = "model" /\ stage[r] = "assess"
    /\ CountGate(r)
    /\ \/ Goto(r, "loop") /\ UNCHANGED result
       \/ \E d \in {"clarify", "refuse"} :
            Finish(r, [NoResult EXCEPT !.status = d, !.answered = TRUE])
       \/ Unavailable(r)
    /\ UNCHANGED <<world, cancels, queue, trusted, candidate, audit, outcome, called>>

\* The head of the loop.
Attempt(r) ==
    /\ pc[r] = "loop"
    /\ IF used[r].sql < MaxSqlAttempts /\ used[r].calls < MaxLlmCalls /\ StepLeft(r)
       THEN /\ used' = [used EXCEPT ![r].steps = @ + 1, ![r].sql = @ + 1, ![r].calls = @ + 1]
            /\ outcome' = [outcome EXCEPT ![r] = NoOutcome]
            /\ stage' = [stage EXCEPT ![r] = "generate"] /\ Goto(r, "lookup") /\ UNCHANGED result
       ELSE Finish(r, LimitResult(r)) /\ UNCHANGED <<used, outcome, stage>>
    /\ UNCHANGED <<world, cancels, queue, row, snapshot, candidate, audit, called>>

Repairable == {"malformed", "unknown"}
MayRepair(r, error) ==
    /\ error \in Repairable
    /\ used[r].repairs < MaxRepairAttempts /\ used[r].sql < MaxSqlAttempts
RepairOrFinish(r, error, res) ==
    IF MayRepair(r, error)
    THEN used' = [used EXCEPT ![r].repairs = @ + 1] /\ Goto(r, "loop") /\ UNCHANGED result
    ELSE Finish(r, res) /\ UNCHANGED used

\* A candidate, and the step and the audit record of its execution.
Generated(r) ==
    /\ pc[r] = "model" /\ stage[r] = "generate"
    /\ \E q \in {"fine", "unknown", "unsafe"}, l \in {NoLimit} \cup 1..(MaxRows + 1) :
         LET c == [seen |-> snapshot[r], sql |-> q, limit |-> l] IN
         /\ candidate' = [candidate EXCEPT ![r] = c]
         /\ IF StepLeft(r)
            THEN /\ used' = [used EXCEPT ![r].steps = @ + 1]
                 /\ Audit(r, "created") /\ stage' = [stage EXCEPT ![r] = "validate"]
                 /\ Goto(r, "lookup") /\ UNCHANGED result
            ELSE /\ Finish(r, Result(r, "limit", outcome[r], c))
                 /\ UNCHANGED <<used, audit, stage>>
    /\ UNCHANGED <<world, cancels, queue, row, snapshot, outcome, called>>

\* The provider fails, or answers what cannot be parsed.
NotGenerated(r) ==
    /\ pc[r] = "model" /\ stage[r] = "generate"
    /\ \E e \in {"generation", "malformed"} :
         RepairOrFinish(r, e, Result(r, e, outcome[r], candidate[r]))
    /\ UNCHANGED <<world, cancels, queue, trusted, candidate, audit, outcome, called>>

\* The validator's LIMIT.
EffectiveLimit(c) == IF c.limit = NoLimit \/ c.limit > MaxRows THEN MaxRows ELSE c.limit
Least(a, b) == IF a < b THEN a ELSE b

\* _execute_validated: the statement would select n rows; the cursor stops at
\* max_rows or, on any row, at the bound on the bytes.
Rows(r, n) ==
    LET total == IF candidate[r].limit = NoLimit THEN n ELSE Least(n, candidate[r].limit)
        fetched == Least(n, EffectiveLimit(candidate[r]))
        kept == Least(fetched, MaxRows)
    IN {[state |-> "succeeded", error |-> "none", rows |-> k, total |-> total,
         truncated |-> k < fetched] : k \in 0..kept}

Executed(r) ==
    /\ pc[r] = "executing"
    /\ \/ \E n \in 0..(MaxRows + 1) : \E o \in Rows(r, n) :
            /\ outcome' = [outcome EXCEPT ![r] = o]
            /\ Audit(r, "succeeded") /\ Goto(r, "executed") /\ UNCHANGED <<candidate, result>>
       \/ StatementEnds(r, "failed", "execution")
    /\ UNCHANGED <<world, cancels, queue, trusted, used, called>>

\* What ask makes of a statement's outcome; the analysis is a step and a call.
\* Mutant: the calls left are not looked at.
AnalysisIfStep(r) == StepLeft(r)
AnalysisAllowed(r) == StepLeft(r) /\ used[r].calls < MaxLlmCalls
Conclude(r) ==
    /\ pc[r] = "executed"
    /\ IF outcome[r].state # "succeeded"
       THEN /\ RepairOrFinish(r, IF outcome[r].state = "rejected" THEN outcome[r].error ELSE "none",
                              Result(r, "none", outcome[r], candidate[r]))
            /\ UNCHANGED called
       ELSE IF AnalysisAllowed(r)
       THEN /\ used' = [used EXCEPT ![r].steps = @ + 1, ![r].calls = @ + 1]
            /\ called' = [called EXCEPT ![r] = @ + 1]
            /\ Goto(r, "analysis") /\ UNCHANGED result
       ELSE Finish(r, LimitResult(r)) /\ UNCHANGED <<used, called>>
    /\ UNCHANGED <<world, cancels, queue, trusted, candidate, audit, outcome>>

\* An answer, or a controlled failure that keeps the rows.
Analysed(r) ==
    /\ pc[r] = "analysis"
    /\ LET res == Result(r, "none", outcome[r], candidate[r]) IN
       \/ Finish(r, [res EXCEPT !.answered = TRUE])
       \/ Finish(r, [res EXCEPT !.error = "analysis"])
    /\ UNCHANGED <<world, cancels, queue, trusted, candidate, audit, outcome, used, called>>

\* CancelledError at an await: a statement that is open gets its last record.
\* Mutant: it does not.
CancelUnaudited(r) == UNCHANGED audit
CloseAudit(r) ==
    IF audit[r] \in {"created", "executing"} THEN Audit(r, "cancelled") ELSE UNCHANGED audit
\* Mutant: the semaphore keeps a waiter that was cancelled.
KeepQueued(r) == queue
Unqueued(r) ==
    IF r \in ToSet(queue) THEN RemoveAt(queue, CHOOSE i \in 1..Len(queue) : queue[i] = r) ELSE queue
Cancel(r) ==
    /\ cancels < MaxCancels /\ cancels' = cancels + 1
    /\ pc[r] \in {"waiting", "lookup", "discover", "model", "executing", "analysis"}
    /\ CloseAudit(r) /\ Goto(r, "cancelled")
    /\ queue' = Unqueued(r)
    /\ UNCHANGED <<world, trusted, candidate, outcome, used, called, result>>

-----------------------------------------------------------------------------

Steps(r) ==
    \/ Arrive(r) \/ Start(r) \/ Lookup(r) \/ Discover(r) \/ RefuseWrite(r) \/ Assessed(r)
    \/ Attempt(r) \/ Generated(r) \/ NotGenerated(r) \/ Executed(r) \/ Conclude(r) \/ Analysed(r)
Next == Change \/ \E r \in Requests : Steps(r) \/ Cancel(r)

\* The loop runs every task, and what it awaits answers or times out: the
\* registry, the connection (chatbi_schema_connection_timeout_seconds), the
\* statement (statement_timeout) and the gateway (its deadline per attempt).
Fairness == \A r \in Requests : WF_vars(Steps(r))
Spec == Init /\ [][Next]_vars /\ Fairness

-----------------------------------------------------------------------------

TypeOK ==
    /\ pc \in [Requests -> {"start", "waiting", "lookup", "discover", "model", "loop",
                            "executing", "executed", "analysis", "done", "cancelled"}]
    /\ stage \in [Requests -> {"assess", "generate", "validate"}]
    /\ ToSet(queue) \subseteq Requests /\ changes \in 0..MaxChanges /\ cancels \in 0..MaxCancels
    /\ \A r \in Requests :
         /\ used[r].steps \in 0..MaxSteps /\ used[r].sql \in 0..MaxSqlAttempts
         /\ used[r].repairs \in 0..MaxRepairAttempts /\ used[r].calls \in 0..MaxLlmCalls

\* No more than the configured number of requests is at work, and no request
\* makes a call of a model that its usage summary leaves out, on any path through
\* gate, generation, repair and analysis (run_bounded, record_llm_call).
WorkIsBounded ==
    /\ Cardinality(Running) <= MaxInFlight
    /\ \A r \in Requests : pc[r] = "done" => called[r] <= used[r].calls

\* SQL runs only if it is safe and was written for the very schema it was
\* validated against, of a source that its last lookup found enabled: whatever
\* was edited between generation, validation and execution
\* (_validate_registered_candidate, context_fingerprint).
ExecutedIsChecked ==
    \A r \in Requests : pc[r] = "executing" =>
        candidate[r].sql = "fine" /\ candidate[r].seen = snapshot[r] /\ row[r] = "enabled"

\* Every result that ask builds passes the validators of ChatBIResult and of
\* QueryExecutionResult, which would turn it into an internal error
\* (validate_consistency).
ResultsConsistent ==
    \A r \in Requests :
        /\ outcome[r].rows <= MaxRows /\ (outcome[r].state # "succeeded" => outcome[r].rows = 0)
        /\ outcome[r].truncated => outcome[r].rows < outcome[r].total
        /\ pc[r] = "done" =>
             LET res == result[r] IN
             /\ res.status \in {"succeeded", "rejected", "failed", "clarify", "refuse", "unavailable"}
             /\ res.status \in {"clarify", "refuse"} => res.answered /\ res.error = "none"
             /\ res.status \in {"rejected", "failed", "unavailable"} =>
                    ~res.answered /\ res.error # "none" /\ res.rows = 0
             /\ res.status \in {"clarify", "refuse", "unavailable"} => ~res.sql /\ used[r].sql = 0
             /\ used[r].repairs <= used[r].sql

\* The audit records of every request follow the life cycle of a query; a
\* statement is executed at most once and never left open, cancelled or not
\* (_run, QueryLifecycle).
QL == INSTANCE QueryLifecycle WITH over <- {r \in Requests : pc[r] \in {"done", "cancelled"}}
ImplementsQueryLifecycle == QL!Spec

\* Every request that arrives is answered or cancelled: the repairs end, and a
\* place in the semaphore is returned on every path (ask, run_bounded).
RequestsEnd == \A r \in Requests : <>(pc[r] \in {"done", "cancelled"})
=============================================================================
