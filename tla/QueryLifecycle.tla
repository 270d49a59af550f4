--------------------------- MODULE QueryLifecycle ----------------------------
(***************************************************************************)
(* What the audit of a ChatBI request promises                             *)
(* (docs/architecture/chatbi-sql-execution.md): the statements of one      *)
(* request are audited one after the other, each from "created" through    *)
(* "validated" and "executing" to one terminal state; only a rejected      *)
(* statement is followed by another one, so that a request reads the       *)
(* database at most once; and a request ends with nothing left open.       *)
(***************************************************************************)
CONSTANT Requests
VARIABLES
    audit, \* [r -> the state its last audit record names]
    over   \* the requests that have ended

Terminal == {"rejected", "succeeded", "failed", "cancelled"}

Init == audit = [r \in Requests |-> "none"] /\ over = {}

Move(r, from, to) == audit[r] \in from /\ audit' = [audit EXCEPT ![r] = to] /\ UNCHANGED over
Statement(r) == r \notin over /\ Move(r, {"none", "rejected"}, "created")
Validate(r) == Move(r, {"created"}, "validated")
Execute(r) == Move(r, {"created", "validated"}, "executing")
Reject(r) == Move(r, {"created"}, "rejected")
Succeed(r) == Move(r, {"executing"}, "succeeded")
Fail(r) == Move(r, {"created", "validated", "executing"}, "failed")
Cancel(r) == Move(r, {"created", "executing"}, "cancelled")
\* The record and the end of the request may be one step.
End(r) ==
    /\ r \notin over /\ over' = over \cup {r}
    /\ audit'[r] \in Terminal \cup {"none"}
    /\ \/ UNCHANGED audit
       \/ /\ audit[r] \in {"created", "validated", "executing"}
          /\ \E s \in Terminal : audit' = [audit EXCEPT ![r] = s]
          /\ audit'[r] = "succeeded" => audit[r] = "executing"
          /\ audit'[r] = "rejected" => audit[r] = "created"

Next == \E r \in Requests :
    \/ Statement(r) \/ Validate(r) \/ Execute(r) \/ Reject(r) \/ Succeed(r) \/ Fail(r)
    \/ Cancel(r) \/ End(r)
Spec == Init /\ [][Next]_<<audit, over>>
=============================================================================
