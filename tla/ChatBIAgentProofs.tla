-------------------------- MODULE ChatBIAgentProofs --------------------------
(***************************************************************************)
(* Theorems about ChatBIAgent, for any requests and any limits: the bound  *)
(* on requests at work and on calls of models, the checks that SQL passes  *)
(* before it runs, the consistency of results, and the audit of statements *)
(* as an implementation of QueryLifecycle.                                 *)
(***************************************************************************)
EXTENDS ChatBIAgent, FiniteSetTheorems, SequenceTheorems, TLAPS

Places == {"start", "waiting", "lookup", "discover", "model", "loop",
           "executing", "executed", "analysis", "done", "cancelled"}
\* Where a request prepares a statement, or has one.
Attempting == {"lookup", "discover", "model", "executing", "executed", "analysis"}
SQLs == {"none", "fine", "unknown", "unsafe"}
Errors == {"none", "not_found", "disabled", "discovery", "policy", "unknown", "unsafe",
           "credentials", "execution"}

\* The counters stay within their limits.
Budgets == [steps : 0..MaxSteps, sql : 0..MaxSqlAttempts,
            repairs : 0..MaxRepairAttempts, calls : 0..MaxLlmCalls]
Outcomes == [state : {"none", "rejected", "failed", "succeeded"}, error : Errors,
             rows : 0..MaxRows, total : Nat, truncated : BOOLEAN]
Candidates == [seen : Int, sql : SQLs, limit : Nat]

TypeInv ==
    /\ source \in {"enabled", "disabled", "deleted"} /\ schema \in Nat
    /\ changes \in 0..MaxChanges /\ cancels \in 0..MaxCancels /\ queue \in Seq(Requests)
    /\ pc \in [Requests -> Places] /\ stage \in [Requests -> {"assess", "generate", "validate"}]
    /\ row \in [Requests -> {"enabled", "disabled", "deleted"}] /\ snapshot \in [Requests -> Int]
    /\ candidate \in [Requests -> Candidates] /\ outcome \in [Requests -> Outcomes]
    /\ DOMAIN audit = Requests /\ DOMAIN result = Requests
    /\ used \in [Requests -> Budgets] /\ called \in [Requests -> Nat]

\* Where each stage may be: before the gate has answered there is no attempt.
StageInv(r) ==
    /\ pc[r] \in {"start", "waiting"} => stage[r] = "assess"
    /\ pc[r] = "model" => stage[r] # "validate"
    /\ pc[r] \in {"executing", "executed", "analysis"} => stage[r] = "validate"
    /\ stage[r] = "validate" => candidate[r].sql # "none"

\* A call of the gateway is counted before it is made, but for that of the gate, which is
\* counted when it has answered.
BudgetInv(r) ==
    /\ used[r].repairs <= used[r].sql
    /\ stage[r] # "assess" /\ pc[r] \in Attempting => used[r].repairs < used[r].sql
    /\ stage[r] = "assess" => used[r].sql = 0
    /\ stage[r] = "assess" /\ pc[r] \in {"start", "waiting", "lookup", "discover", "model"} =>
         used[r].calls = 0 /\ called[r] = IF pc[r] = "model" THEN 1 ELSE 0
    /\ stage[r] = "generate" /\ pc[r] \in {"lookup", "discover"} => called[r] + 1 <= used[r].calls
    /\ stage[r] # "assess" \/ pc[r] \in {"loop", "done"} => called[r] <= used[r].calls

\* The last audit record names what has become of the statement.
AuditInv(r) ==
    /\ stage[r] = "assess" => audit[r] = "none" /\ outcome[r].state = "none"
    /\ stage[r] = "generate" \/ pc[r] = "loop" => audit[r] \in {"none", "rejected"}
    /\ stage[r] = "validate" /\ pc[r] \in {"lookup", "discover"} => audit[r] = "created"
    /\ pc[r] = "executing" => audit[r] = "executing"
    /\ pc[r] = "executed" => outcome[r].state # "none" /\ audit[r] = outcome[r].state
    /\ pc[r] = "analysis" => audit[r] = "succeeded" /\ outcome[r].state = "succeeded"
    /\ pc[r] \in {"done", "cancelled"} => audit[r] \in QL!Terminal \cup {"none"}

\* What runs has passed the validator against the schema just discovered.
CheckedInv(r) ==
    pc[r] = "executing" =>
        candidate[r].sql = "fine" /\ candidate[r].seen = snapshot[r] /\ row[r] = "enabled"

\* An outcome that is no success has no rows and an error.
OutcomeInv(r) ==
    /\ outcome[r].state # "succeeded" => outcome[r].rows = 0 /\ ~outcome[r].truncated
    /\ outcome[r].state \in {"rejected", "failed"} => outcome[r].error # "none"
    /\ outcome[r].truncated => outcome[r].rows < outcome[r].total

Consistent(res, sql) ==
    /\ res.status \in {"succeeded", "rejected", "failed", "clarify", "refuse", "unavailable"}
    /\ res.status \in {"clarify", "refuse"} => res.answered /\ res.error = "none"
    /\ res.status \in {"rejected", "failed", "unavailable"} =>
           ~res.answered /\ res.error # "none" /\ res.rows = 0
    /\ res.status \in {"clarify", "refuse", "unavailable"} => ~res.sql /\ sql = 0
ResultInv(r) == pc[r] = "done" => Consistent(result[r], used[r].sql)

\* What holds of each request, whatever the others do.
LocalInv(r) ==
    /\ StageInv(r) /\ BudgetInv(r) /\ AuditInv(r) /\ CheckedInv(r) /\ OutcomeInv(r) /\ ResultInv(r)

PlacesInv == IsFiniteSet(Running) /\ Cardinality(Running) <= MaxInFlight

Inv == TypeInv /\ PlacesInv /\ \A r \in Requests : LocalInv(r)
-----------------------------------------------------------------------------
(* Parts of the actions *)

\* A step of one request leaves the others as they are.
Apart(r) ==
    \A s \in Requests : s # r =>
        /\ pc'[s] = pc[s] /\ stage'[s] = stage[s] /\ row'[s] = row[s] /\ snapshot'[s] = snapshot[s]
        /\ candidate'[s] = candidate[s] /\ audit'[s] = audit[s] /\ outcome'[s] = outcome[s]
        /\ used'[s] = used[s] /\ called'[s] = called[s] /\ result'[s] = result[s]

\* A request that the others leave as it is keeps its invariant.
LEMMA Unmoved ==
    ASSUME NEW s \in Requests, LocalInv(s),
           pc'[s] = pc[s], stage'[s] = stage[s], row'[s] = row[s], snapshot'[s] = snapshot[s],
           candidate'[s] = candidate[s], audit'[s] = audit[s], outcome'[s] = outcome[s],
           used'[s] = used[s], called'[s] = called[s], result'[s] = result[s]
    PROVE  LocalInv(s)'
<1>1. StageInv(s)' /\ BudgetInv(s)' /\ OutcomeInv(s)'
  BY DEF LocalInv, StageInv, BudgetInv, OutcomeInv
<1>2. AuditInv(s)' /\ CheckedInv(s)'
  BY DEF LocalInv, AuditInv, CheckedInv
<1>3. ResultInv(s)'
  BY DEF LocalInv, ResultInv, Consistent
<1> QED BY <1>1, <1>2, <1>3 DEF LocalInv

\* The limits as numbers, one by one.
LEMMA Limits ==
    /\ MaxInFlight \in Nat \ {0} /\ MaxSqlAttempts \in Nat \ {0} /\ MaxSteps \in Nat \ {0}
    /\ MaxLlmCalls \in Nat \ {0} /\ MaxRows \in Nat \ {0}
    /\ MaxRepairAttempts \in Nat /\ MaxChanges \in Nat /\ MaxCancels \in Nat
  BY ChatBIAssumption

\* A step to another place moves one request.
LEMMA GotoMoves ==
    ASSUME TypeInv, NEW r \in Requests, NEW l \in Places, Goto(r, l)
    PROVE  pc' \in [Requests -> Places] /\ pc'[r] = l /\ \A s \in Requests : s # r => pc'[s] = pc[s]
  BY DEF TypeInv, Goto

\* An audit record of one request leaves those of the others.
LEMMA AuditMoves ==
    ASSUME TypeInv, NEW r \in Requests, NEW a, Audit(r, a)
    PROVE  DOMAIN audit' = Requests /\ audit'[r] = a /\ \A s \in Requests : s # r => audit'[s] = audit[s]
  BY DEF TypeInv, Audit

\* A failure has no rows, no answer and an error.
LEMMA Failure ==
    ASSUME NEW r, NEW error, NEW out \in Outcomes, NEW cand, NEW sql,
           out.state # "succeeded" => out.rows = 0,
           error # "none" \/ out.error # "none"
    PROVE  Consistent(Result(r, error, out, cand), sql)
  BY DEF Result, Consistent, Outcomes

\* A request that finishes with a consistent result keeps its invariant.
LEMMA Finishes ==
    ASSUME TypeInv, NEW r \in Requests, LocalInv(r), NEW res, Finish(r, res),
           stage' = stage, audit' = audit, outcome' = outcome,
           audit[r] \in QL!Terminal \cup {"none"},
           stage[r] # "validate" \/ candidate'[r] = candidate[r],
           used'[r].sql = used[r].sql, used'[r].repairs = used[r].repairs,
           called'[r] <= used'[r].calls,
           Consistent(res, used[r].sql)
    PROVE  /\ pc' \in [Requests -> Places] /\ DOMAIN result' = Requests /\ pc'[r] = "done"
           /\ \A s \in Requests : s # r => pc'[s] = pc[s] /\ result'[s] = result[s]
           /\ LocalInv(r)'
<1>1. /\ pc' \in [Requests -> Places] /\ pc'[r] = "done"
      /\ \A s \in Requests : s # r => pc'[s] = pc[s]
  BY GotoMoves DEF Finish, Places
<1>2. DOMAIN result' = Requests /\ result'[r] = res /\ \A s \in Requests : s # r => result'[s] = result[s]
  BY DEF Finish, TypeInv
<1>3. StageInv(r)' /\ BudgetInv(r)' /\ OutcomeInv(r)'
  BY <1>1 DEF LocalInv, StageInv, BudgetInv, OutcomeInv, Attempting
<1>4. AuditInv(r)' /\ CheckedInv(r)'
  BY <1>1 DEF LocalInv, AuditInv, CheckedInv
<1>5. ResultInv(r)'
  BY <1>2 DEF ResultInv, Consistent
<1> QED BY <1>1, <1>2, <1>3, <1>4, <1>5 DEF LocalInv

\* A statement that ends without success gets an outcome and its last record.
LEMMA StatementFails ==
    ASSUME TypeInv, NEW r \in Requests, LocalInv(r), stage[r] = "validate", pc[r] \in Attempting,
           NEW state \in {"rejected", "failed"}, NEW error \in Errors \ {"none"}, StatementEnds(r, state, error),
           UNCHANGED <<stage, used, called>>
    PROVE  /\ pc' \in [Requests -> Places] /\ outcome' \in [Requests -> Outcomes] /\ DOMAIN audit' = Requests
           /\ UNCHANGED <<candidate, result>> /\ pc'[r] = "executed" /\ audit'[r] = state
           /\ \A s \in Requests : s # r => /\ pc'[s] = pc[s] /\ audit'[s] = audit[s]
                                           /\ outcome'[s] = outcome[s]
           /\ LocalInv(r)'
<1>1. /\ pc' \in [Requests -> Places] /\ pc'[r] = "executed"
      /\ \A s \in Requests : s # r => pc'[s] = pc[s]
  BY GotoMoves DEF StatementEnds, Places
<1>2. DOMAIN audit' = Requests /\ audit'[r] = state /\ \A s \in Requests : s # r => audit'[s] = audit[s]
  BY AuditMoves DEF StatementEnds
<1> DEFINE o == [NoOutcome EXCEPT !.state = state, !.error = error]
<1>3. NoOutcome \in Outcomes /\ NoOutcome.rows = 0 /\ ~NoOutcome.truncated
  BY ChatBIAssumption DEF Outcomes, NoOutcome, Errors
<1>4. o \in Outcomes
  BY <1>3 DEF Outcomes
<1>5. o.state = state /\ o.error = error /\ o.rows = 0 /\ ~o.truncated
  BY <1>3 DEF Outcomes
<1>11. outcome' = [outcome EXCEPT ![r] = o]
  BY DEF StatementEnds
<1> HIDE DEF o
<1>6. outcome' \in [Requests -> Outcomes] /\ outcome'[r] = o /\ \A s \in Requests : s # r => outcome'[s] = outcome[s]
  BY <1>4, <1>11 DEF TypeInv
<1>7. /\ outcome'[r].state = state /\ outcome'[r].error = error /\ outcome'[r].rows = 0 /\ ~outcome'[r].truncated
  BY <1>5, <1>6
<1>8. UNCHANGED <<candidate, result>>
  BY DEF StatementEnds
<1>9. StageInv(r)' /\ BudgetInv(r)' /\ OutcomeInv(r)'
  BY <1>1, <1>7, <1>8 DEF LocalInv, StageInv, BudgetInv, OutcomeInv, Attempting
<1>10. AuditInv(r)' /\ CheckedInv(r)' /\ ResultInv(r)'
  BY <1>1, <1>2, <1>7, <1>8 DEF LocalInv, AuditInv, CheckedInv, ResultInv
<1> QED BY <1>1, <1>2, <1>6, <1>8, <1>9, <1>10 DEF LocalInv

\* An error of the trusted context ends the statement, or the request.
LEMMA ContextFailed ==
    ASSUME TypeInv, NEW r \in Requests, LocalInv(r), pc[r] \in {"lookup", "discover"},
           NEW error \in Errors \ {"none"}, ContextFails(r, error), UNCHANGED <<stage, used, called>>
    PROVE  /\ pc' \in [Requests -> Places] /\ outcome' \in [Requests -> Outcomes]
           /\ DOMAIN audit' = Requests /\ DOMAIN result' = Requests /\ candidate' = candidate
           /\ \A s \in Requests : s # r => /\ pc'[s] = pc[s] /\ audit'[s] = audit[s]
                                           /\ outcome'[s] = outcome[s] /\ result'[s] = result[s]
           /\ \/ stage[r] = "validate" /\ pc'[r] = "executed" /\ audit'[r] \in {"rejected", "failed"}
                 /\ \E a \in {"rejected", "failed"} : Audit(r, a)
              \/ stage[r] # "validate" /\ pc'[r] = "done" /\ audit' = audit
           /\ LocalInv(r)'
<1>1. CASE stage[r] = "validate"
  <2>1. PICK state \in {"rejected", "failed"} : StatementEnds(r, state, error)
    BY <1>1 DEF ContextFails
  <2>2. Audit(r, state)
    BY <2>1 DEF StatementEnds
  <2> QED BY <1>1, <2>1, <2>2, StatementFails DEF TypeInv, Attempting
<1>2. CASE stage[r] # "validate"
  <2>1. Finish(r, Result(r, error, outcome[r], candidate[r])) /\ UNCHANGED <<candidate, audit, outcome>>
    BY <1>2 DEF ContextFails
  <2>2. outcome[r] \in Outcomes /\ (outcome[r].state # "succeeded" => outcome[r].rows = 0)
    BY DEF TypeInv, LocalInv, OutcomeInv
  <2>3. Consistent(Result(r, error, outcome[r], candidate[r]), used[r].sql)
    BY <2>2, Failure
  <2>4. audit[r] \in QL!Terminal \cup {"none"}
    BY <1>2 DEF LocalInv, AuditInv, TypeInv, QL!Terminal
  <2>5. called[r] <= used[r].calls
    BY <1>2 DEF LocalInv, BudgetInv, TypeInv, Budgets
  <2> QED BY <1>2, <2>1, <2>3, <2>4, <2>5, Finishes DEF TypeInv
<1> QED BY <1>1, <1>2
-----------------------------------------------------------------------------
(* What each action keeps *)

Post(r) == TypeInv' /\ Apart(r) /\ LocalInv(r)'

\* A request that arrives waits for a place, with nothing done.
LEMMA ArriveKeeps ==
    ASSUME TypeInv, NEW r \in Requests, LocalInv(r), Arrive(r) PROVE Post(r)
<1>1. pc[r] = "start" /\ UNCHANGED <<world, cancels, trusted, candidate, audit, outcome, used, called, result>>
  BY DEF Arrive
<1>2. /\ pc' \in [Requests -> Places] /\ pc'[r] = "waiting"
      /\ \A s \in Requests : s # r => pc'[s] = pc[s]
  BY GotoMoves DEF Arrive, Places
<1>3. queue' \in Seq(Requests)
  BY DEF Arrive, TypeInv
<1>4. StageInv(r)' /\ BudgetInv(r)' /\ OutcomeInv(r)'
  BY <1>1, <1>2 DEF trusted, LocalInv, StageInv, BudgetInv, OutcomeInv, Attempting
<1>5. AuditInv(r)' /\ CheckedInv(r)' /\ ResultInv(r)'
  BY <1>1, <1>2 DEF trusted, LocalInv, StageInv, AuditInv, CheckedInv, ResultInv
<1> QED BY <1>1, <1>2, <1>3, <1>4, <1>5 DEF Post, Apart, TypeInv, LocalInv, world, trusted

\* A request that gets a place starts with its budget untouched.
LEMMA StartKeeps ==
    ASSUME TypeInv, NEW r \in Requests, LocalInv(r), Start(r) PROVE Post(r)
<1>1. pc[r] = "waiting" /\ UNCHANGED <<world, cancels, trusted, candidate, audit, outcome, called, result>>
  BY DEF Start
<1>2. /\ pc' \in [Requests -> Places] /\ pc'[r] = "lookup"
      /\ \A s \in Requests : s # r => pc'[s] = pc[s]
  BY GotoMoves DEF Start, Places
<1>3. queue' \in Seq(Requests)
  BY DEF Start, TypeInv
<1>4. /\ used' \in [Requests -> Budgets] /\ \A s \in Requests : s # r => used'[s] = used[s]
      /\ used'[r].sql = used[r].sql /\ used'[r].repairs = used[r].repairs /\ used'[r].calls = used[r].calls
  <2>1. 1 \in 0..MaxSteps
    BY Limits
  <2>2. used' = [used EXCEPT ![r].steps = 1] /\ used \in [Requests -> Budgets]
    BY DEF Start, TypeInv
  <2> QED BY <2>1, <2>2 DEF Budgets
<1>5. StageInv(r)' /\ BudgetInv(r)' /\ OutcomeInv(r)'
  BY <1>1, <1>2, <1>4 DEF trusted, LocalInv, StageInv, BudgetInv, OutcomeInv, Attempting
<1>6. AuditInv(r)' /\ CheckedInv(r)' /\ ResultInv(r)'
  BY <1>1, <1>2 DEF trusted, LocalInv, StageInv, AuditInv, CheckedInv, ResultInv
<1> QED BY <1>1, <1>2, <1>3, <1>4, <1>5, <1>6 DEF Post, Apart, TypeInv, LocalInv, world, trusted

\* The row of the source is read, or the trusted context fails.
LEMMA LookupKeeps ==
    ASSUME TypeInv, NEW r \in Requests, LocalInv(r), Lookup(r) PROVE Post(r)
<1>1. pc[r] = "lookup" /\ UNCHANGED <<world, cancels, queue, stage, snapshot, used, called>>
  BY DEF Lookup
<1>2. row' \in [Requests -> {"enabled", "disabled", "deleted"}] /\ \A s \in Requests : s # r => row'[s] = row[s]
  BY DEF Lookup, TypeInv
<1>3. CASE Goto(r, "discover") /\ UNCHANGED <<candidate, audit, outcome, result>>
  <2>1. /\ pc' \in [Requests -> Places] /\ pc'[r] = "discover"
        /\ \A s \in Requests : s # r => pc'[s] = pc[s]
    BY <1>3, GotoMoves DEF Places
  <2>2. StageInv(r)' /\ BudgetInv(r)' /\ OutcomeInv(r)'
    BY <1>1, <1>3, <2>1 DEF LocalInv, StageInv, BudgetInv, OutcomeInv, Attempting
  <2>3. AuditInv(r)' /\ CheckedInv(r)' /\ ResultInv(r)'
    BY <1>1, <1>3, <2>1 DEF LocalInv, StageInv, AuditInv, CheckedInv, ResultInv
  <2> QED BY <1>1, <1>2, <1>3, <2>1, <2>2, <2>3 DEF Post, Apart, TypeInv, LocalInv, world
<1>4. CASE ContextFails(r, "not_found")
  <2>1. "not_found" \in Errors \ {"none"}
    BY DEF Errors
  <2>2. /\ pc' \in [Requests -> Places] /\ outcome' \in [Requests -> Outcomes]
        /\ DOMAIN audit' = Requests /\ DOMAIN result' = Requests /\ candidate' = candidate
        /\ \A s \in Requests : s # r => /\ pc'[s] = pc[s] /\ audit'[s] = audit[s]
                                        /\ outcome'[s] = outcome[s] /\ result'[s] = result[s]
        /\ LocalInv(r)'
    BY <1>1, <1>4, <2>1, ContextFailed
  <2> QED BY <1>1, <1>2, <2>2 DEF Post, Apart, TypeInv, world
<1> QED BY <1>3, <1>4 DEF Lookup

\* The trusted context fails, the gateway is called, or the validator decides.
LEMMA DiscoverKeeps ==
    ASSUME TypeInv, NEW r \in Requests, LocalInv(r), Discover(r) PROVE Post(r)
<1>1. pc[r] = "discover" /\ UNCHANGED <<world, cancels, queue, stage, row, used>>
  BY DEF Discover
<1>2. ASSUME NEW e \in {"disabled", "discovery"}, ContextFails(r, e), UNCHANGED <<snapshot, called>>
      PROVE  Post(r)
  <2>1. e \in Errors \ {"none"}
    BY DEF Errors
  <2>2. /\ pc' \in [Requests -> Places] /\ outcome' \in [Requests -> Outcomes]
        /\ DOMAIN audit' = Requests /\ DOMAIN result' = Requests /\ candidate' = candidate
        /\ \A s \in Requests : s # r => /\ pc'[s] = pc[s] /\ audit'[s] = audit[s]
                                        /\ outcome'[s] = outcome[s] /\ result'[s] = result[s]
        /\ LocalInv(r)'
    BY <1>1, <1>2, <2>1, ContextFailed
  <2> QED BY <1>1, <1>2, <2>2 DEF Post, Apart, TypeInv, world
<1>3. ASSUME row[r] = "enabled", snapshot' = [snapshot EXCEPT ![r] = schema]
      PROVE  /\ snapshot' \in [Requests -> Int] /\ snapshot'[r] = schema
             /\ \A s \in Requests : s # r => snapshot'[s] = snapshot[s]
  BY <1>3 DEF TypeInv
<1>4. ASSUME row[r] = "enabled", snapshot' = [snapshot EXCEPT ![r] = schema], stage[r] = "validate",
             Validated(r, schema), UNCHANGED called
      PROVE  Post(r)
  <2>1. CASE /\ Verdict(r, schema) = "none" /\ Audit(r, "executing") /\ Goto(r, "executing")
             /\ UNCHANGED <<candidate, outcome, result>>
    <3>1. /\ pc' \in [Requests -> Places] /\ pc'[r] = "executing"
          /\ \A s \in Requests : s # r => pc'[s] = pc[s]
      BY <2>1, GotoMoves DEF Places
    <3>2. /\ DOMAIN audit' = Requests /\ audit'[r] = "executing"
          /\ \A s \in Requests : s # r => audit'[s] = audit[s]
      BY <2>1, AuditMoves
    <3>3. candidate[r].sql = "fine" /\ candidate[r].seen = schema
      BY <1>4, <2>1 DEF Verdict, LocalInv, StageInv
    <3>4. StageInv(r)' /\ BudgetInv(r)' /\ OutcomeInv(r)'
      BY <1>1, <1>4, <2>1, <3>1 DEF LocalInv, StageInv, BudgetInv, OutcomeInv, Attempting
    <3>5. AuditInv(r)' /\ CheckedInv(r)' /\ ResultInv(r)'
      BY <1>1, <1>3, <1>4, <2>1, <3>1, <3>2, <3>3 DEF LocalInv, StageInv, AuditInv, CheckedInv, ResultInv
    <3> QED BY <1>1, <1>3, <1>4, <2>1, <3>1, <3>2, <3>4, <3>5 DEF Post, Apart, TypeInv, LocalInv, world
  <2>2. ASSUME NEW state \in {"rejected", "failed"}, NEW e \in Errors \ {"none"}, StatementEnds(r, state, e)
        PROVE  Post(r)
    <3>1. /\ pc' \in [Requests -> Places] /\ outcome' \in [Requests -> Outcomes] /\ DOMAIN audit' = Requests
          /\ UNCHANGED <<candidate, result>>
          /\ \A s \in Requests : s # r => /\ pc'[s] = pc[s] /\ audit'[s] = audit[s]
                                          /\ outcome'[s] = outcome[s]
          /\ LocalInv(r)'
      BY <1>1, <1>4, <2>2, StatementFails DEF Attempting
    <3> QED BY <1>1, <1>3, <1>4, <3>1 DEF Post, Apart, TypeInv, world
  <2>3. Verdict(r, schema) \in Errors /\ "credentials" \in Errors \ {"none"}
    BY DEF Verdict, TypeInv, Candidates, SQLs, Errors
  <2> QED BY <1>4, <2>1, <2>2, <2>3 DEF Validated
<1>5. ASSUME row[r] = "enabled", snapshot' = [snapshot EXCEPT ![r] = schema], stage[r] # "validate",
             called' = [called EXCEPT ![r] = @ + 1], Goto(r, "model"),
             UNCHANGED <<candidate, audit, outcome, result>>
      PROVE  Post(r)
  <2>1. /\ pc' \in [Requests -> Places] /\ pc'[r] = "model"
        /\ \A s \in Requests : s # r => pc'[s] = pc[s]
    BY <1>5, GotoMoves DEF Places
  <2>2. /\ called' \in [Requests -> Nat] /\ called'[r] = called[r] + 1
        /\ \A s \in Requests : s # r => called'[s] = called[s]
    BY <1>5 DEF TypeInv
  <2>3. StageInv(r)' /\ OutcomeInv(r)'
    BY <1>1, <1>5, <2>1 DEF LocalInv, StageInv, OutcomeInv
  <2>4. BudgetInv(r)'
    BY <1>1, <1>5, <2>1, <2>2 DEF LocalInv, BudgetInv, Attempting, TypeInv, Budgets
  <2>5. AuditInv(r)' /\ CheckedInv(r)' /\ ResultInv(r)'
    BY <1>1, <1>5, <2>1 DEF LocalInv, StageInv, AuditInv, CheckedInv, ResultInv
  <2> QED BY <1>1, <1>3, <1>5, <2>1, <2>2, <2>3, <2>4, <2>5 DEF Post, Apart, TypeInv, LocalInv, world
<1> QED BY <1>2, <1>4, <1>5 DEF Discover

\* A request that finishes with what it has.
LEMMA FinishKeeps ==
    ASSUME TypeInv, NEW r \in Requests, LocalInv(r), NEW res, Finish(r, res),
           UNCHANGED <<world, cancels, queue, trusted, candidate, audit, outcome, used, called>>,
           audit[r] \in QL!Terminal \cup {"none"}, called[r] <= used[r].calls,
           Consistent(res, used[r].sql)
    PROVE  Post(r)
<1>1. /\ pc' \in [Requests -> Places] /\ DOMAIN result' = Requests
      /\ \A s \in Requests : s # r => pc'[s] = pc[s] /\ result'[s] = result[s]
      /\ LocalInv(r)'
  BY Finishes DEF trusted
<1> QED BY <1>1 DEF Post, Apart, TypeInv, world, trusted

\* A question that asks for a change is refused before any model is called.
LEMMA RefuseWriteKeeps ==
    ASSUME TypeInv, NEW r \in Requests, LocalInv(r), RefuseWrite(r) PROVE Post(r)
<1>1. /\ pc[r] = "discover" /\ stage[r] = "assess"
      /\ UNCHANGED <<world, cancels, queue, trusted, candidate, audit, outcome, used, called>>
  BY DEF RefuseWrite
<1>2. audit[r] \in QL!Terminal \cup {"none"} /\ called[r] <= used[r].calls /\ used[r].sql = 0
  BY <1>1 DEF LocalInv, AuditInv, BudgetInv
<1>3. Consistent([NoResult EXCEPT !.status = "refuse", !.answered = TRUE], 0)
  BY DEF Consistent, NoResult
<1>4. Consistent([NoResult EXCEPT !.status = "unavailable", !.error = "unavailable"], 0)
  BY DEF Consistent, NoResult
<1> QED BY <1>1, <1>2, <1>3, <1>4, FinishKeeps DEF RefuseWrite, Unavailable

\* The first answer of the model: the request goes on, or it ends without a statement.
LEMMA AssessedKeeps ==
    ASSUME TypeInv, NEW r \in Requests, LocalInv(r), Assessed(r) PROVE Post(r)
<1>1. /\ pc[r] = "model" /\ stage[r] = "assess"
      /\ UNCHANGED <<world, cancels, queue, trusted, candidate, audit, outcome, called>>
  BY DEF Assessed
<1>2. /\ used[r].calls = 0 /\ called[r] = 1 /\ used[r].sql = 0 /\ audit[r] = "none"
      /\ used \in [Requests -> Budgets] /\ used' = [used EXCEPT ![r].calls = @ + 1]
  BY <1>1 DEF LocalInv, BudgetInv, AuditInv, TypeInv, Assessed, CountGate
<1>3. /\ used' \in [Requests -> Budgets] /\ \A s \in Requests : s # r => used'[s] = used[s]
      /\ used'[r].sql = used[r].sql /\ used'[r].repairs = used[r].repairs /\ used'[r].calls = 1
  BY <1>2, Limits DEF Budgets
<1>4. CASE Goto(r, "loop") /\ UNCHANGED result
  <2>1. /\ pc' \in [Requests -> Places] /\ pc'[r] = "loop"
        /\ \A s \in Requests : s # r => pc'[s] = pc[s]
    BY <1>4, GotoMoves DEF Places
  <2>2. StageInv(r)' /\ OutcomeInv(r)' /\ BudgetInv(r)'
    BY <1>1, <1>2, <1>3, <2>1 DEF LocalInv, StageInv, OutcomeInv, BudgetInv, Attempting, trusted
  <2>3. AuditInv(r)' /\ CheckedInv(r)' /\ ResultInv(r)'
    BY <1>1, <1>2, <1>4, <2>1 DEF LocalInv, AuditInv, CheckedInv, ResultInv, trusted
  <2> QED BY <1>1, <1>3, <1>4, <2>1, <2>2, <2>3 DEF Post, Apart, TypeInv, LocalInv, world, trusted
<1>5. ASSUME NEW res, Finish(r, res), Consistent(res, 0) PROVE Post(r)
  <2>1. /\ pc' \in [Requests -> Places] /\ DOMAIN result' = Requests
        /\ \A s \in Requests : s # r => pc'[s] = pc[s] /\ result'[s] = result[s]
        /\ LocalInv(r)'
    BY <1>1, <1>2, <1>3, <1>5, Finishes DEF trusted
  <2> QED BY <1>1, <1>3, <2>1 DEF Post, Apart, TypeInv, world, trusted
<1>6. ASSUME NEW d \in {"clarify", "refuse"}
      PROVE  Consistent([NoResult EXCEPT !.status = d, !.answered = TRUE], 0)
  BY DEF Consistent, NoResult
<1>7. Consistent([NoResult EXCEPT !.status = "unavailable", !.error = "unavailable"], 0)
  BY DEF Consistent, NoResult
<1> QED BY <1>4, <1>5, <1>6, <1>7 DEF Assessed, Unavailable

\* What the result says of an outcome that is no success, or of a limit.
LEMMA OwnFailure ==
    ASSUME TypeInv, NEW r \in Requests, LocalInv(r), NEW error,
           error # "none" \/ outcome[r].state \in {"rejected", "failed"}
    PROVE  Consistent(Result(r, error, outcome[r], candidate[r]), used[r].sql)
<1>1. /\ outcome[r] \in Outcomes /\ (outcome[r].state # "succeeded" => outcome[r].rows = 0)
      /\ error # "none" \/ outcome[r].error # "none"
  BY DEF TypeInv, LocalInv, OutcomeInv
<1> QED BY <1>1, Failure

\* At the head of the loop nothing is open and everything is counted.
LEMMA AttemptKeeps ==
    ASSUME TypeInv, NEW r \in Requests, LocalInv(r), Attempt(r) PROVE Post(r)
<1>1. pc[r] = "loop" /\ UNCHANGED <<world, cancels, queue, row, snapshot, candidate, audit, called>>
  BY DEF Attempt
<1>2. /\ audit[r] \in {"none", "rejected"} /\ called[r] <= used[r].calls /\ called[r] \in Nat
      /\ used[r].repairs <= used[r].sql /\ used \in [Requests -> Budgets]
  BY <1>1 DEF LocalInv, AuditInv, BudgetInv, TypeInv
<1>3. CASE used[r].sql < MaxSqlAttempts /\ used[r].calls < MaxLlmCalls /\ StepLeft(r)
  <2>1. /\ used' = [used EXCEPT ![r].steps = @ + 1, ![r].sql = @ + 1, ![r].calls = @ + 1]
        /\ outcome' = [outcome EXCEPT ![r] = NoOutcome]
        /\ stage' = [stage EXCEPT ![r] = "generate"] /\ Goto(r, "lookup") /\ UNCHANGED result
    BY <1>3 DEF Attempt
  <2>2. /\ pc' \in [Requests -> Places] /\ pc'[r] = "lookup"
        /\ \A s \in Requests : s # r => pc'[s] = pc[s]
    BY <2>1, GotoMoves DEF Places
  <2>3. /\ used' \in [Requests -> Budgets] /\ \A s \in Requests : s # r => used'[s] = used[s]
        /\ used'[r].sql = used[r].sql + 1 /\ used'[r].repairs = used[r].repairs
        /\ used'[r].calls = used[r].calls + 1
    BY <1>2, <1>3, <2>1, Limits DEF StepLeft, Budgets
  <2>4. NoOutcome \in Outcomes /\ NoOutcome.state = "none" /\ NoOutcome.rows = 0 /\ ~NoOutcome.truncated
    BY Limits DEF Outcomes, NoOutcome, Errors
  <2>5. /\ outcome' \in [Requests -> Outcomes] /\ outcome'[r] = NoOutcome
        /\ \A s \in Requests : s # r => outcome'[s] = outcome[s]
    BY <2>1, <2>4 DEF TypeInv
  <2>6. /\ stage' \in [Requests -> {"assess", "generate", "validate"}] /\ stage'[r] = "generate"
        /\ \A s \in Requests : s # r => stage'[s] = stage[s]
    BY <2>1 DEF TypeInv
  <2>7. StageInv(r)' /\ OutcomeInv(r)'
    BY <2>2, <2>4, <2>5, <2>6 DEF StageInv, OutcomeInv
  <2>8. BudgetInv(r)'
    BY <1>1, <1>2, <2>2, <2>3, <2>6 DEF BudgetInv, Budgets
  <2>9. AuditInv(r)' /\ CheckedInv(r)' /\ ResultInv(r)'
    BY <1>1, <1>2, <2>2, <2>6 DEF AuditInv, CheckedInv, ResultInv
  <2> QED BY <1>1, <2>1, <2>2, <2>3, <2>5, <2>6, <2>7, <2>8, <2>9 DEF Post, Apart, TypeInv, LocalInv, world
<1>4. CASE Finish(r, LimitResult(r)) /\ UNCHANGED <<used, outcome, stage>>
  <2>1. Consistent(LimitResult(r), used[r].sql)
    BY OwnFailure DEF LimitResult
  <2> QED BY <1>1, <1>2, <1>4, <2>1, FinishKeeps DEF QL!Terminal, trusted
<1> QED BY <1>3, <1>4 DEF Attempt

\* A statement is repaired, or the request finishes.
LEMMA RepairKeeps ==
    ASSUME TypeInv, NEW r \in Requests, LocalInv(r), NEW error, NEW res, RepairOrFinish(r, error, res),
           UNCHANGED <<world, cancels, queue, trusted, candidate, audit, outcome, called>>,
           stage[r] # "assess", pc[r] \in {"model", "executed"},
           audit[r] \in QL!Terminal \cup {"none"},
           error \in Repairable => audit[r] \in {"none", "rejected"},
           Consistent(res, used[r].sql)
    PROVE  Post(r)
<1>1. called[r] <= used[r].calls /\ used[r].repairs < used[r].sql /\ used \in [Requests -> Budgets] /\ called[r] \in Nat
  BY DEF LocalInv, BudgetInv, TypeInv, Attempting
<1>2. CASE MayRepair(r, error)
  <2>1. used' = [used EXCEPT ![r].repairs = @ + 1] /\ Goto(r, "loop") /\ UNCHANGED result
    BY <1>2 DEF RepairOrFinish
  <2>2. /\ pc' \in [Requests -> Places] /\ pc'[r] = "loop"
        /\ \A s \in Requests : s # r => pc'[s] = pc[s]
    BY <2>1, GotoMoves DEF Places
  <2>3. /\ used' \in [Requests -> Budgets] /\ \A s \in Requests : s # r => used'[s] = used[s]
        /\ used'[r].sql = used[r].sql /\ used'[r].repairs = used[r].repairs + 1
        /\ used'[r].calls = used[r].calls
    BY <1>1, <1>2, <2>1, Limits DEF MayRepair, Budgets
  <2>4. StageInv(r)' /\ OutcomeInv(r)'
    BY <2>2 DEF LocalInv, StageInv, OutcomeInv, trusted
  <2>5. BudgetInv(r)'
    BY <1>1, <2>2, <2>3 DEF BudgetInv, Budgets, Attempting, trusted
  <2>6. AuditInv(r)' /\ CheckedInv(r)' /\ ResultInv(r)'
    BY <1>2, <2>2 DEF LocalInv, AuditInv, CheckedInv, ResultInv, MayRepair, trusted
  <2> QED BY <2>1, <2>2, <2>3, <2>4, <2>5, <2>6 DEF Post, Apart, TypeInv, LocalInv, world, trusted
<1>3. CASE Finish(r, res) /\ UNCHANGED used
  BY <1>1, <1>3, FinishKeeps
<1> QED BY <1>2, <1>3 DEF RepairOrFinish

\* A call without a candidate is repaired, or the request ends.
LEMMA NotGeneratedKeeps ==
    ASSUME TypeInv, NEW r \in Requests, LocalInv(r), NotGenerated(r) PROVE Post(r)
<1>1. /\ pc[r] = "model" /\ stage[r] = "generate"
      /\ UNCHANGED <<world, cancels, queue, trusted, candidate, audit, outcome, called>>
  BY DEF NotGenerated
<1>2. PICK e \in {"generation", "malformed"} : RepairOrFinish(r, e, Result(r, e, outcome[r], candidate[r]))
  BY DEF NotGenerated
<1>3. Consistent(Result(r, e, outcome[r], candidate[r]), used[r].sql)
  BY <1>2, OwnFailure
<1>4. audit[r] \in {"none", "rejected"}
  BY <1>1 DEF LocalInv, AuditInv
<1> QED BY <1>1, <1>2, <1>3, <1>4, RepairKeeps DEF QL!Terminal

\* A candidate is kept for its execution, if a step is left for it.
LEMMA GeneratedKeeps ==
    ASSUME TypeInv, NEW r \in Requests, LocalInv(r), Generated(r) PROVE Post(r)
<1>1. /\ pc[r] = "model" /\ stage[r] = "generate"
      /\ UNCHANGED <<world, cancels, queue, row, snapshot, outcome, called>>
  BY DEF Generated
<1>2. PICK q \in {"fine", "unknown", "unsafe"}, l \in {NoLimit} \cup 1..(MaxRows + 1) :
        LET c == [seen |-> snapshot[r], sql |-> q, limit |-> l] IN
        /\ candidate' = [candidate EXCEPT ![r] = c]
        /\ IF StepLeft(r)
           THEN /\ used' = [used EXCEPT ![r].steps = @ + 1]
                /\ Audit(r, "created") /\ stage' = [stage EXCEPT ![r] = "validate"]
                /\ Goto(r, "lookup") /\ UNCHANGED result
           ELSE /\ Finish(r, Result(r, "limit", outcome[r], c))
                /\ UNCHANGED <<used, audit, stage>>
  BY DEF Generated
<1> DEFINE c == [seen |-> snapshot[r], sql |-> q, limit |-> l]
<1>3. c \in Candidates /\ c.sql # "none"
  BY Limits DEF TypeInv, Candidates, SQLs, NoLimit
<1>4. /\ candidate' = [candidate EXCEPT ![r] = c]
      /\ IF StepLeft(r)
         THEN /\ used' = [used EXCEPT ![r].steps = @ + 1]
              /\ Audit(r, "created") /\ stage' = [stage EXCEPT ![r] = "validate"]
              /\ Goto(r, "lookup") /\ UNCHANGED result
         ELSE /\ Finish(r, Result(r, "limit", outcome[r], c))
              /\ UNCHANGED <<used, audit, stage>>
  BY <1>2
<1> HIDE DEF c
<1>5. /\ candidate' \in [Requests -> Candidates] /\ candidate'[r] = c
      /\ \A s \in Requests : s # r => candidate'[s] = candidate[s]
  BY <1>3, <1>4 DEF TypeInv
<1>6. /\ audit[r] \in {"none", "rejected"} /\ called[r] <= used[r].calls /\ called[r] \in Nat
      /\ used[r].repairs < used[r].sql /\ used \in [Requests -> Budgets]
  BY <1>1 DEF LocalInv, AuditInv, BudgetInv, TypeInv, Attempting
<1>7. CASE StepLeft(r)
  <2>1. /\ pc' \in [Requests -> Places] /\ pc'[r] = "lookup"
        /\ \A s \in Requests : s # r => pc'[s] = pc[s]
    BY <1>4, <1>7, GotoMoves DEF Places
  <2>2. /\ used' \in [Requests -> Budgets] /\ \A s \in Requests : s # r => used'[s] = used[s]
        /\ used'[r].sql = used[r].sql /\ used'[r].repairs = used[r].repairs
        /\ used'[r].calls = used[r].calls
    BY <1>4, <1>6, <1>7, Limits DEF StepLeft, Budgets
  <2>3. DOMAIN audit' = Requests /\ audit'[r] = "created" /\ \A s \in Requests : s # r => audit'[s] = audit[s]
    BY <1>4, <1>7, AuditMoves
  <2>4. /\ stage' \in [Requests -> {"assess", "generate", "validate"}] /\ stage'[r] = "validate"
        /\ \A s \in Requests : s # r => stage'[s] = stage[s]
    BY <1>4, <1>7 DEF TypeInv
  <2>5. StageInv(r)' /\ OutcomeInv(r)'
    BY <1>1, <1>3, <1>5, <2>1, <2>4 DEF LocalInv, StageInv, OutcomeInv
  <2>6. BudgetInv(r)'
    BY <1>1, <1>6, <2>1, <2>2, <2>4 DEF BudgetInv, Budgets
  <2>7. AuditInv(r)' /\ CheckedInv(r)' /\ ResultInv(r)'
    BY <2>1, <2>3, <2>4 DEF AuditInv, CheckedInv, ResultInv
  <2> QED BY <1>1, <1>4, <1>5, <1>7, <2>1, <2>2, <2>3, <2>4, <2>5, <2>6, <2>7 DEF Post, Apart, TypeInv, LocalInv, world
<1>8. CASE ~StepLeft(r)
  <2>1. outcome[r] \in Outcomes /\ (outcome[r].state # "succeeded" => outcome[r].rows = 0)
    BY DEF TypeInv, LocalInv, OutcomeInv
  <2>2. Consistent(Result(r, "limit", outcome[r], c), used[r].sql)
    BY <2>1, Failure
  <2>3. /\ pc' \in [Requests -> Places] /\ DOMAIN result' = Requests
        /\ \A s \in Requests : s # r => pc'[s] = pc[s] /\ result'[s] = result[s]
        /\ LocalInv(r)'
    BY <1>1, <1>4, <1>6, <1>8, <2>2, Finishes DEF QL!Terminal
  <2> QED BY <1>1, <1>4, <1>5, <1>8, <2>3 DEF Post, Apart, TypeInv, world
<1> QED BY <1>7, <1>8

\* What the cursor keeps of a statement is at most what it fetched, and that at most what
\* the statement would have returned.
LEMMA RowsFit ==
    ASSUME TypeInv, NEW r \in Requests, NEW n \in 0..(MaxRows + 1), NEW o \in Rows(r, n)
    PROVE  /\ o \in Outcomes /\ o.state = "succeeded" /\ o.error = "none"
           /\ o.truncated => o.rows < o.total
<1> DEFINE total == IF candidate[r].limit = NoLimit THEN n ELSE Least(n, candidate[r].limit)
           fetched == Least(n, EffectiveLimit(candidate[r]))
           kept == Least(fetched, MaxRows)
<1>1. candidate[r].limit \in Nat /\ MaxRows \in Nat /\ n \in Nat
  BY Limits DEF TypeInv, Candidates
<1>2. EffectiveLimit(candidate[r]) \in Nat
      /\ (candidate[r].limit # NoLimit => EffectiveLimit(candidate[r]) <= candidate[r].limit)
  BY <1>1 DEF EffectiveLimit, NoLimit
<1>3. fetched \in Nat /\ total \in Nat /\ fetched <= total /\ kept \in 0..MaxRows
  BY <1>1, <1>2 DEF Least
<1>4. PICK k \in 0..kept : o = [state |-> "succeeded", error |-> "none", rows |-> k, total |-> total,
                                truncated |-> k < fetched]
  BY DEF Rows
<1> HIDE DEF total, fetched, kept
<1>5. k \in 0..MaxRows /\ (k < fetched => k < total)
  BY <1>1, <1>3
<1>6. CASE k < fetched
  <2>1. o = [state |-> "succeeded", error |-> "none", rows |-> k, total |-> total, truncated |-> TRUE]
    BY <1>4, <1>6
  <2> QED BY <1>3, <1>5, <1>6, <2>1 DEF Outcomes, Errors
<1>7. CASE ~(k < fetched)
  <2>1. o = [state |-> "succeeded", error |-> "none", rows |-> k, total |-> total, truncated |-> FALSE]
    <3>1. (k < fetched) = FALSE
      BY <1>7
    <3> QED BY <1>4, <3>1, Zenon
  <2> QED BY <1>3, <1>5, <2>1 DEF Outcomes, Errors
<1> QED BY <1>6, <1>7

\* An execution returns rows or fails, and its audit record says which.
LEMMA ExecutedKeeps ==
    ASSUME TypeInv, NEW r \in Requests, LocalInv(r), Executed(r) PROVE Post(r)
<1>1. pc[r] = "executing" /\ stage[r] = "validate" /\ UNCHANGED <<world, cancels, queue, trusted, used, called>>
  BY DEF Executed, LocalInv, StageInv
<1>2. CASE StatementEnds(r, "failed", "execution")
  <2>1. "execution" \in Errors \ {"none"}
    BY DEF Errors
  <2>2. /\ pc' \in [Requests -> Places] /\ outcome' \in [Requests -> Outcomes] /\ DOMAIN audit' = Requests
        /\ UNCHANGED <<candidate, result>>
        /\ \A s \in Requests : s # r => /\ pc'[s] = pc[s] /\ audit'[s] = audit[s]
                                        /\ outcome'[s] = outcome[s]
        /\ LocalInv(r)'
    BY <1>1, <1>2, <2>1, StatementFails DEF Attempting, trusted
  <2> QED BY <1>1, <2>2 DEF Post, Apart, TypeInv, world, trusted
<1>3. ASSUME NEW n \in 0..(MaxRows + 1), NEW o \in Rows(r, n), outcome' = [outcome EXCEPT ![r] = o],
             Audit(r, "succeeded"), Goto(r, "executed"), UNCHANGED <<candidate, result>>
      PROVE  Post(r)
  <2>1. /\ pc' \in [Requests -> Places] /\ pc'[r] = "executed"
        /\ \A s \in Requests : s # r => pc'[s] = pc[s]
    BY <1>3, GotoMoves DEF Places
  <2>2. DOMAIN audit' = Requests /\ audit'[r] = "succeeded" /\ \A s \in Requests : s # r => audit'[s] = audit[s]
    BY <1>3, AuditMoves
  <2>3. o \in Outcomes /\ o.state = "succeeded" /\ (o.truncated => o.rows < o.total)
    BY RowsFit
  <2>4. /\ outcome' \in [Requests -> Outcomes] /\ outcome'[r] = o
        /\ \A s \in Requests : s # r => outcome'[s] = outcome[s]
    BY <1>3, <2>3 DEF TypeInv
  <2>5. StageInv(r)' /\ OutcomeInv(r)' /\ BudgetInv(r)'
    BY <1>1, <1>3, <2>1, <2>3, <2>4 DEF LocalInv, StageInv, OutcomeInv, BudgetInv, Attempting, trusted
  <2>6. AuditInv(r)' /\ CheckedInv(r)' /\ ResultInv(r)'
    BY <1>1, <2>1, <2>2, <2>3, <2>4 DEF AuditInv, CheckedInv, ResultInv, trusted
  <2> QED BY <1>1, <1>3, <2>1, <2>2, <2>4, <2>5, <2>6 DEF Post, Apart, TypeInv, LocalInv, world, trusted
<1> QED BY <1>2, <1>3 DEF Executed

\* A statement that has ended is analysed or repaired, or the request ends with what it has.
LEMMA ConcludeKeeps ==
    ASSUME TypeInv, NEW r \in Requests, LocalInv(r), Conclude(r) PROVE Post(r)
<1>1. /\ pc[r] = "executed" /\ stage[r] = "validate"
      /\ UNCHANGED <<world, cancels, queue, trusted, candidate, audit, outcome>>
  BY DEF Conclude, LocalInv, StageInv
<1>2. /\ outcome[r].state \in {"rejected", "failed", "succeeded"} /\ audit[r] = outcome[r].state
      /\ called[r] <= used[r].calls /\ called[r] \in Nat /\ used[r].repairs < used[r].sql
      /\ used \in [Requests -> Budgets]
  BY <1>1 DEF LocalInv, AuditInv, BudgetInv, TypeInv, Outcomes, Attempting
<1>3. CASE outcome[r].state # "succeeded"
  <2>1. RepairOrFinish(r, IF outcome[r].state = "rejected" THEN outcome[r].error ELSE "none",
                       Result(r, "none", outcome[r], candidate[r])) /\ UNCHANGED called
    BY <1>3 DEF Conclude
  <2>2. Consistent(Result(r, "none", outcome[r], candidate[r]), used[r].sql)
    BY <1>2, <1>3, OwnFailure
  <2>3. (IF outcome[r].state = "rejected" THEN outcome[r].error ELSE "none") \in Repairable => audit[r] \in {"none", "rejected"}
    BY <1>2 DEF Repairable
  <2> QED BY <1>1, <1>2, <2>1, <2>2, <2>3, RepairKeeps DEF QL!Terminal
<1>4. CASE outcome[r].state = "succeeded" /\ AnalysisAllowed(r)
  <2>1. /\ used' = [used EXCEPT ![r].steps = @ + 1, ![r].calls = @ + 1]
        /\ called' = [called EXCEPT ![r] = @ + 1]
        /\ Goto(r, "analysis") /\ UNCHANGED result
    BY <1>4 DEF Conclude
  <2>2. /\ pc' \in [Requests -> Places] /\ pc'[r] = "analysis"
        /\ \A s \in Requests : s # r => pc'[s] = pc[s]
    BY <2>1, GotoMoves DEF Places
  <2>3. /\ used' \in [Requests -> Budgets] /\ \A s \in Requests : s # r => used'[s] = used[s]
        /\ used'[r].sql = used[r].sql /\ used'[r].repairs = used[r].repairs
        /\ used'[r].calls = used[r].calls + 1
    BY <1>2, <1>4, <2>1, Limits DEF AnalysisAllowed, StepLeft, Budgets
  <2>4. /\ called' \in [Requests -> Nat] /\ called'[r] = called[r] + 1
        /\ \A s \in Requests : s # r => called'[s] = called[s]
    BY <2>1 DEF TypeInv
  <2>5. StageInv(r)' /\ OutcomeInv(r)'
    BY <1>1, <2>2 DEF LocalInv, StageInv, OutcomeInv, trusted
  <2>6. BudgetInv(r)'
    BY <1>1, <1>2, <2>2, <2>3, <2>4 DEF BudgetInv, Budgets, trusted
  <2>7. AuditInv(r)' /\ CheckedInv(r)' /\ ResultInv(r)'
    BY <1>1, <1>2, <1>4, <2>2 DEF AuditInv, CheckedInv, ResultInv, trusted
  <2> QED BY <1>1, <2>1, <2>2, <2>3, <2>4, <2>5, <2>6, <2>7 DEF Post, Apart, TypeInv, LocalInv, world, trusted
<1>5. CASE outcome[r].state = "succeeded" /\ ~AnalysisAllowed(r)
  <2>1. Finish(r, LimitResult(r)) /\ UNCHANGED <<used, called>>
    BY <1>5 DEF Conclude
  <2>2. Consistent(LimitResult(r), used[r].sql)
    BY OwnFailure DEF LimitResult
  <2> QED BY <1>1, <1>2, <1>5, <2>1, <2>2, FinishKeeps DEF QL!Terminal
<1> QED BY <1>3, <1>4, <1>5

\* The analysis is added to a result that is there already.
LEMMA AnalysedKeeps ==
    ASSUME TypeInv, NEW r \in Requests, LocalInv(r), Analysed(r) PROVE Post(r)
<1>1. /\ pc[r] = "analysis" /\ stage[r] = "validate"
      /\ UNCHANGED <<world, cancels, queue, trusted, candidate, audit, outcome, used, called>>
  BY DEF Analysed, LocalInv, StageInv
<1>2. audit[r] = "succeeded" /\ outcome[r].state = "succeeded" /\ called[r] <= used[r].calls
  BY <1>1 DEF LocalInv, AuditInv, BudgetInv
<1> DEFINE res == Result(r, "none", outcome[r], candidate[r])
<1>3. PICK b \in {[res EXCEPT !.answered = TRUE], [res EXCEPT !.error = "analysis"]} : Finish(r, b)
  BY DEF Analysed
<1>4. res.status = "succeeded"
  BY <1>2 DEF Result
<1>5. b.status = "succeeded"
  BY <1>4 DEF Result
<1>6. Consistent(b, used[r].sql)
  BY <1>5 DEF Consistent
<1> QED BY <1>1, <1>2, <1>3, <1>6, FinishKeeps DEF QL!Terminal

\* A request that leaves the queue leaves a queue of requests.
LEMMA UnqueuedType ==
    ASSUME queue \in Seq(Requests), NEW r PROVE Unqueued(r) \in Seq(Requests)
<1>1. CASE r \in ToSet(queue)
  <2>1. \E i \in 1..Len(queue) : queue[i] = r
    BY <1>1 DEF ToSet
  <2> DEFINE i == CHOOSE i \in 1..Len(queue) : queue[i] = r
  <2>2. i \in 1..Len(queue) /\ Len(queue) \in Nat
    BY <2>1, LenProperties
  <2>3. SubSeq(queue, 1, i - 1) \in Seq(Requests) /\ SubSeq(queue, i + 1, Len(queue)) \in Seq(Requests)
    <3> HIDE DEF i
    <3>1. \A j \in 1..Len(queue) : queue[j] \in Requests
      BY ElementOfSeq
    <3>2. (\A j \in 1..(i - 1) : j \in 1..Len(queue)) /\ (\A j \in (i + 1)..Len(queue) : j \in 1..Len(queue))
      BY <2>2
    <3> QED BY <2>2, <3>1, <3>2, SubSeqProperties
  <2>4. RemoveAt(queue, i) \in Seq(Requests)
    BY <2>3, ConcatProperties DEF RemoveAt
  <2> QED BY <1>1, <2>4 DEF Unqueued
<1>2. CASE r \notin ToSet(queue)
  BY <1>2 DEF Unqueued
<1> QED BY <1>1, <1>2

\* A cancellation closes what is open.
LEMMA CancelKeeps ==
    ASSUME TypeInv, NEW r \in Requests, LocalInv(r), Cancel(r) PROVE Post(r)
<1>1. /\ cancels < MaxCancels /\ cancels' = cancels + 1
      /\ pc[r] \in {"waiting", "lookup", "discover", "model", "executing", "analysis"}
      /\ CloseAudit(r) /\ Goto(r, "cancelled") /\ queue' = Unqueued(r)
      /\ UNCHANGED <<world, trusted, candidate, outcome, used, called, result>>
  BY DEF Cancel
<1>2. /\ pc' \in [Requests -> Places] /\ pc'[r] = "cancelled"
      /\ \A s \in Requests : s # r => pc'[s] = pc[s]
  BY <1>1, GotoMoves DEF Places
<1>3. queue' \in Seq(Requests) /\ cancels' \in 0..MaxCancels
  BY <1>1, UnqueuedType, Limits DEF TypeInv
<1>4. /\ DOMAIN audit' = Requests /\ \A s \in Requests : s # r => audit'[s] = audit[s]
      /\ audit'[r] = IF audit[r] \in {"created", "executing"} THEN "cancelled" ELSE audit[r]
  BY <1>1, AuditMoves DEF CloseAudit, TypeInv
<1>5. audit[r] \in {"none", "created", "executing", "rejected", "succeeded"}
  BY <1>1 DEF LocalInv, StageInv, AuditInv, TypeInv
<1>6. StageInv(r)' /\ OutcomeInv(r)' /\ BudgetInv(r)'
  BY <1>1, <1>2 DEF LocalInv, StageInv, OutcomeInv, BudgetInv, Attempting, trusted
<1>7. AuditInv(r)' /\ CheckedInv(r)' /\ ResultInv(r)'
  BY <1>1, <1>2, <1>4, <1>5 DEF LocalInv, AuditInv, CheckedInv, ResultInv, QL!Terminal, trusted
<1> QED BY <1>1, <1>2, <1>3, <1>4, <1>6, <1>7 DEF Post, Apart, TypeInv, LocalInv, world, trusted
-----------------------------------------------------------------------------
(* The invariant *)

\* The actions of a request keep what it needs.
LEMMA RequestKeeps ==
    ASSUME TypeInv, NEW r \in Requests, LocalInv(r), Steps(r) \/ Cancel(r) PROVE Post(r)
  BY ArriveKeeps, StartKeeps, LookupKeeps, DiscoverKeeps, RefuseWriteKeeps, AssessedKeeps, AttemptKeeps,
     GeneratedKeeps, NotGeneratedKeeps, ExecutedKeeps, ConcludeKeeps, AnalysedKeeps, CancelKeeps DEF Steps

\* Only Start puts a request to work, and it needs a place.
LEMMA PlacesStep ==
    ASSUME PlacesInv, NEW r \in Requests, Apart(r), TypeInv, TypeInv', Steps(r) \/ Cancel(r)
    PROVE  PlacesInv'
<1>1. MaxInFlight \in Nat /\ Cardinality(Running) \in Nat /\ IsFiniteSet(Running)
  BY Limits, FS_CardinalityType DEF PlacesInv
<1>2. CASE Start(r)
  <2>1. pc[r] = "waiting" /\ pc'[r] = "lookup"
    BY <1>2 DEF Start, Goto, TypeInv
  <2>2. Cardinality(Running) < MaxInFlight
    BY <1>2 DEF Start, HasPlace
  <2>3. Running' = Running \cup {r} /\ r \notin Running
    BY <2>1 DEF Running, Apart
  <2>4. IsFiniteSet(Running') /\ Cardinality(Running') = Cardinality(Running) + 1
    BY <1>1, <2>3, FS_AddElement
  <2> QED BY <1>1, <2>2, <2>4 DEF PlacesInv
<1>3. CASE r \in Running \/ r \notin Running'
  <2>1. Running' \subseteq Running
    BY <1>3 DEF Running, Apart
  <2>2. IsFiniteSet(Running') /\ Cardinality(Running') <= Cardinality(Running) /\ Cardinality(Running') \in Nat
    BY <1>1, <2>1, FS_Subset, FS_CardinalityType
  <2> QED BY <1>1, <2>2 DEF PlacesInv
<1>4. CASE Arrive(r)
  <2>1. pc'[r] = "waiting"
    BY <1>4, GotoMoves DEF Arrive, Places
  <2> QED BY <1>3, <2>1 DEF Running
<1>5. CASE Cancel(r)
  <2>1. pc'[r] = "cancelled"
    BY <1>5, GotoMoves DEF Cancel, Places
  <2> QED BY <1>3, <2>1 DEF Running
<1>6. ASSUME ~Start(r), ~Arrive(r), ~Cancel(r) PROVE pc[r] \in {"lookup", "discover", "model", "loop", "executing", "executed", "analysis"}
  BY <1>6 DEF Steps, Lookup, Discover, RefuseWrite, Assessed, Attempt, Generated, NotGenerated,
              Executed, Conclude, Analysed
<1>7. CASE ~Start(r) /\ ~Arrive(r) /\ ~Cancel(r)
  BY <1>3, <1>6, <1>7 DEF Running
<1> QED BY <1>2, <1>4, <1>5, <1>7

\* The world changes without the requests.
LEMMA ChangeKeeps ==
    ASSUME Inv, Change PROVE Inv' /\ UNCHANGED <<audit, pc>>
<1>1. UNCHANGED <<cancels, queue, pc, trusted, candidate, audit, outcome, used, called, result>>
  BY DEF Change
<1>2. changes' \in 0..MaxChanges
  BY Limits DEF Change, Inv, TypeInv
<1>3. source' \in {"enabled", "disabled", "deleted"} /\ schema' \in Nat
  BY DEF Change, Inv, TypeInv
<1>4. TypeInv'
  BY <1>1, <1>2, <1>3 DEF Inv, TypeInv, trusted
<1>5. ASSUME NEW r \in Requests PROVE LocalInv(r)'
  BY <1>1, Unmoved DEF Inv, trusted
<1>6. PlacesInv'
  BY <1>1 DEF Inv, PlacesInv, Running
<1> QED BY <1>1, <1>4, <1>5, <1>6 DEF Inv

\* A request that has not arrived has done and shown nothing.
LEMMA InitInv == Init => Inv
<1> SUFFICES ASSUME Init PROVE Inv
  OBVIOUS
<1>1. NoOutcome \in Outcomes /\ NoOutcome.state = "none" /\ NoOutcome.rows = 0 /\ ~NoOutcome.truncated
  BY Limits DEF Outcomes, NoOutcome, Errors
<1>2. NoCandidate \in Candidates
  BY DEF Candidates, NoCandidate, SQLs, NoSchema, NoLimit
<1> DEFINE b == [steps |-> 0, sql |-> 0, repairs |-> 0, calls |-> 0]
<1>3. b \in Budgets /\ b.sql = 0 /\ b.repairs = 0 /\ b.calls = 0
  BY Limits DEF Budgets
<1>4. used = [r \in Requests |-> b]
  BY DEF Init
<1> HIDE DEF b
<1>5. changes \in 0..MaxChanges /\ cancels \in 0..MaxCancels /\ <<>> \in Seq(Requests)
  BY Limits, EmptySeq DEF Init
<1>6. TypeInv
  BY <1>1, <1>2, <1>3, <1>4, <1>5 DEF Init, TypeInv, Places, NoSchema
<1>7. ASSUME NEW r \in Requests PROVE LocalInv(r)
  <2>1. /\ pc[r] = "start" /\ stage[r] = "assess" /\ audit[r] = "none" /\ outcome[r] = NoOutcome
        /\ used[r] = b /\ called[r] = 0
    BY <1>4 DEF Init
  <2>2. StageInv(r) /\ OutcomeInv(r) /\ BudgetInv(r)
    BY <1>1, <1>3, <2>1 DEF StageInv, OutcomeInv, BudgetInv, Attempting
  <2>3. AuditInv(r) /\ CheckedInv(r) /\ ResultInv(r)
    BY <1>1, <2>1 DEF AuditInv, CheckedInv, ResultInv
  <2> QED BY <2>2, <2>3 DEF LocalInv
<1>8. PlacesInv
  <2>1. Running = {}
    BY DEF Init, Running
  <2> QED BY <2>1, FS_EmptySet, Limits DEF PlacesInv
<1> QED BY <1>6, <1>7, <1>8 DEF Inv

\* One request moves, or the source and the schema change; the others keep theirs.
LEMMA StepInv == Inv /\ [Next]_vars => Inv'
<1> SUFFICES ASSUME Inv, [Next]_vars PROVE Inv'
  OBVIOUS
<1>1. CASE UNCHANGED vars
  <2>1. TypeInv'
    BY <1>1 DEF vars, world, trusted, Inv, TypeInv
  <2>2. PlacesInv'
    BY <1>1 DEF vars, Inv, PlacesInv, Running
  <2>3. ASSUME NEW r \in Requests PROVE LocalInv(r)'
    BY <1>1, Unmoved DEF vars, trusted, Inv
  <2> QED BY <2>1, <2>2, <2>3 DEF Inv
<1>2. CASE Change
  BY <1>2, ChangeKeeps
<1>3. ASSUME NEW r \in Requests, Steps(r) \/ Cancel(r) PROVE Inv'
  <2>1. TypeInv' /\ Apart(r) /\ LocalInv(r)'
    BY <1>3, RequestKeeps DEF Inv, Post
  <2>2. PlacesInv'
    BY <1>3, <2>1, PlacesStep DEF Inv
  <2>3. ASSUME NEW s \in Requests, s # r PROVE LocalInv(s)'
    BY <2>1, <2>3, Unmoved DEF Apart, Inv
  <2> QED BY <2>1, <2>2, <2>3 DEF Inv
<1> QED BY <1>1, <1>2, <1>3 DEF Next
-----------------------------------------------------------------------------
(* The life cycle of the statements *)

Over == {r \in Requests : pc[r] \in {"done", "cancelled"}}

\* A step without a record goes on with the request, or ends it.
LEMMA QuietStep ==
    ASSUME NEW r \in Requests, Post(r), pc[r] \notin {"done", "cancelled"}, audit' = audit
    PROVE  QL!End(r) \/ UNCHANGED <<audit, Over>>
<1>1. CASE pc'[r] \in {"done", "cancelled"}
  <2>1. Over' = Over \cup {r} /\ r \notin Over
    BY <1>1 DEF Over, Post, Apart
  <2>2. audit'[r] \in QL!Terminal \cup {"none"}
    BY <1>1 DEF Post, LocalInv, AuditInv
  <2> QED BY <2>1, <2>2 DEF QL!End, Over
<1>2. CASE pc'[r] \notin {"done", "cancelled"}
  BY <1>2 DEF Over, Post, Apart
<1> QED BY <1>1, <1>2

\* A record follows the life cycle.
LEMMA RecordStep ==
    ASSUME NEW r \in Requests, Post(r), pc[r] \notin {"done", "cancelled"}, pc'[r] \notin {"done", "cancelled"},
           NEW a, Audit(r, a),
           \/ audit[r] = "created" /\ a \in {"rejected", "failed", "executing"}
           \/ audit[r] = "executing" /\ a \in {"succeeded", "failed"}
           \/ audit[r] \in {"none", "rejected"} /\ a = "created"
    PROVE  QL!Next
<1>1. Over' = Over /\ r \notin Over
  BY DEF Over, Post, Apart
<1>2. audit' = [audit EXCEPT ![r] = a]
  BY DEF Audit
<1> QED BY <1>1, <1>2 DEF Over, QL!Next, QL!Statement, QL!Execute, QL!Reject, QL!Succeed, QL!Fail, QL!Move

\* What a step of a request does to its audit record is one of the moves of a statement.
LEMMA RequestRefines ==
    ASSUME Inv, NEW r \in Requests, Steps(r) \/ Cancel(r)
    PROVE  QL!Next \/ UNCHANGED <<audit, Over>>
<1>0. Post(r) /\ LocalInv(r) /\ TypeInv
  BY RequestKeeps DEF Inv
<1>1. pc[r] \notin {"done", "cancelled"}
  BY DEF Steps, Arrive, Start, Lookup, Discover, RefuseWrite, Assessed, Attempt, Generated, NotGenerated,
         Executed, Conclude, Analysed, Cancel
<1>2. ASSUME audit' = audit PROVE QL!Next \/ UNCHANGED <<audit, Over>>
  BY <1>0, <1>1, <1>2, QuietStep DEF QL!Next
<1>3. ASSUME NEW e \in Errors \ {"none"}, ContextFails(r, e), pc[r] \in {"lookup", "discover"},
             UNCHANGED <<stage, used, called>>
      PROVE  QL!Next \/ UNCHANGED <<audit, Over>>
  <2>1. \/ stage[r] = "validate" /\ pc'[r] = "executed" /\ \E a \in {"rejected", "failed"} : Audit(r, a)
        \/ audit' = audit
    BY <1>0, <1>3, ContextFailed
  <2>2. stage[r] = "validate" => audit[r] = "created"
    BY <1>0, <1>3 DEF LocalInv, AuditInv
  <2> QED BY <1>0, <1>1, <1>2, <2>1, <2>2, RecordStep
<1>4. CASE \/ Arrive(r) \/ Start(r) \/ RefuseWrite(r) \/ Assessed(r) \/ Attempt(r) \/ NotGenerated(r)
           \/ Conclude(r) \/ Analysed(r)
  BY <1>2, <1>4 DEF Arrive, Start, RefuseWrite, Assessed, Attempt, NotGenerated, Conclude, Analysed
<1>5. CASE Lookup(r)
  <2>1. "not_found" \in Errors \ {"none"}
    BY DEF Errors
  <2> QED BY <1>2, <1>3, <1>5, <2>1 DEF Lookup
<1>6. CASE Discover(r)
  <2>1. "disabled" \in Errors \ {"none"} /\ "discovery" \in Errors \ {"none"}
    BY DEF Errors
  <2>2. ASSUME stage[r] = "validate", Validated(r, schema) PROVE QL!Next
    <3>1. audit[r] = "created"
      BY <1>0, <1>6, <2>2 DEF LocalInv, AuditInv, Discover
    <3>2. PICK a \in {"rejected", "failed", "executing"}, l \in {"executing", "executed"} : Audit(r, a) /\ Goto(r, l)
      BY <2>2 DEF Validated, StatementEnds
    <3>3. pc'[r] = l
      BY <1>0, <3>2, GotoMoves DEF Places
    <3> QED BY <1>0, <1>1, <3>1, <3>2, <3>3, RecordStep
  <2> QED BY <1>2, <1>3, <1>6, <2>1, <2>2 DEF Discover
<1>7. CASE Generated(r)
  <2>1. audit[r] \in {"none", "rejected"}
    BY <1>0, <1>7 DEF LocalInv, AuditInv, Generated
  <2>2. CASE Audit(r, "created") /\ Goto(r, "lookup")
    <3>1. pc'[r] = "lookup"
      BY <1>0, <2>2, GotoMoves DEF Places
    <3> QED BY <1>0, <1>1, <2>1, <2>2, <3>1, RecordStep
  <2> QED BY <1>2, <1>7, <2>2 DEF Generated
<1>8. CASE Executed(r)
  <2>1. audit[r] = "executing"
    BY <1>0, <1>8 DEF LocalInv, AuditInv, Executed
  <2>2. PICK a \in {"succeeded", "failed"} : Audit(r, a) /\ Goto(r, "executed")
    BY <1>8 DEF Executed, StatementEnds
  <2>3. pc'[r] = "executed"
    BY <1>0, <2>2, GotoMoves DEF Places
  <2> QED BY <1>0, <1>1, <2>1, <2>2, <2>3, RecordStep
<1>9. CASE Cancel(r)
  <2>1. CASE audit[r] \in {"created", "executing"}
    <3>1. audit' = [audit EXCEPT ![r] = "cancelled"] /\ Goto(r, "cancelled")
      BY <1>9, <2>1 DEF Cancel, CloseAudit, Audit
    <3>2. pc'[r] = "cancelled" /\ audit'[r] = "cancelled"
      BY <1>0, <3>1, GotoMoves DEF Places, TypeInv
    <3>3. Over' = Over \cup {r} /\ r \notin Over
      BY <1>0, <1>1, <3>2 DEF Over, Post, Apart
    <3>4. QL!End(r)
      BY <2>1, <3>1, <3>2, <3>3 DEF QL!End, QL!Terminal, Over
    <3> QED BY <3>4 DEF QL!Next
  <2>2. CASE audit[r] \notin {"created", "executing"}
    BY <1>2, <1>9, <2>2 DEF Cancel, CloseAudit
  <2> QED BY <2>1, <2>2
<1> QED BY <1>4, <1>5, <1>6, <1>7, <1>8, <1>9 DEF Steps
-----------------------------------------------------------------------------
(* Theorems *)

\* The invariant of the places and of every request holds.
THEOREM Invariance == Spec => []Inv
<1> QED BY InitInv, StepInv, PTL DEF Spec

\* The state keeps its types and the budget of every request its limits (ChatBIAgentLimits).
THEOREM TypeCorrect == Spec => []TypeOK
<1>1. Inv => TypeOK
  <2> SUFFICES ASSUME Inv PROVE TypeOK
    OBVIOUS
  <2>1. ToSet(queue) \subseteq Requests
    <3>1. queue \in [1..Len(queue) -> Requests] /\ DOMAIN queue = 1..Len(queue)
      BY LenProperties DEF Inv, TypeInv
    <3> QED BY <3>1 DEF ToSet
  <2>2. \A r \in Requests : used[r] \in Budgets
    BY DEF Inv, TypeInv
  <2> QED BY <2>1, <2>2 DEF Inv, TypeInv, TypeOK, Places, Budgets
<1> QED BY <1>1, Invariance, PTL

\* No more requests are at work than configured, and no call of a model is missing from the
\* usage summary of its request (run_bounded, record_llm_call).
THEOREM BoundedWork == Spec => []WorkIsBounded
<1>1. Inv => WorkIsBounded
  BY DEF Inv, PlacesInv, LocalInv, BudgetInv, WorkIsBounded
<1> QED BY <1>1, Invariance, PTL

\* SQL runs only if it is safe and was written for the schema it was validated against, of an
\* enabled source, whatever is edited meanwhile (_validate_registered_candidate).
THEOREM OnlyCheckedRuns == Spec => []ExecutedIsChecked
<1>1. Inv => ExecutedIsChecked
  BY DEF Inv, LocalInv, CheckedInv, ExecutedIsChecked
<1> QED BY <1>1, Invariance, PTL

\* Every result passes the validators of ChatBIResult and of QueryExecutionResult, whatever
\* fails, on any path through gate, generation, repair and analysis (validate_consistency).
THEOREM ConsistentResults == Spec => []ResultsConsistent
<1>1. ASSUME Inv, NEW r \in Requests
      PROVE  /\ outcome[r].rows <= MaxRows /\ (outcome[r].state # "succeeded" => outcome[r].rows = 0)
             /\ outcome[r].truncated => outcome[r].rows < outcome[r].total
             /\ used[r].repairs <= used[r].sql
             /\ pc[r] = "done" => Consistent(result[r], used[r].sql)
  <2>1. outcome[r] \in Outcomes /\ LocalInv(r)
    BY <1>1 DEF Inv, TypeInv
  <2> QED BY <2>1, Limits DEF Outcomes, LocalInv, OutcomeInv, BudgetInv, ResultInv
<1>2. Inv => ResultsConsistent
  BY <1>1 DEF ResultsConsistent, Consistent
<1> QED BY <1>2, Invariance, PTL

\* The audit records of every request follow the life cycle of a query: a statement runs at
\* most once and is never left open, whoever is cancelled and wherever (_run).
THEOREM Implementation == Spec => ImplementsQueryLifecycle
<1>1. Init => QL!Init
  BY DEF Init, QL!Init
<1>2. Inv /\ [Next]_vars => QL!Next \/ UNCHANGED <<audit, Over>>
  <2> SUFFICES ASSUME Inv, [Next]_vars PROVE QL!Next \/ UNCHANGED <<audit, Over>>
    OBVIOUS
  <2>1. CASE UNCHANGED vars
    BY <2>1 DEF vars, Over
  <2>2. CASE Change
    BY <2>2, ChangeKeeps DEF Over
  <2>3. ASSUME NEW r \in Requests, Steps(r) \/ Cancel(r) PROVE QL!Next \/ UNCHANGED <<audit, Over>>
    BY <2>3, RequestRefines
  <2> QED BY <2>1, <2>2, <2>3 DEF Next
<1>3. Inv /\ [Next]_vars => [QL!Next]_<<audit, {r \in Requests : pc[r] \in {"done", "cancelled"}}>>
  BY <1>2 DEF Over
<1> QED BY <1>1, <1>3, Invariance, PTL DEF Spec, ImplementsQueryLifecycle, QL!Spec
=============================================================================
