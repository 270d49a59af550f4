----------------------------- MODULE EventStream -----------------------------
(***************************************************************************)
(* What a client of POST /rag/query may rely on (rag/schemas.py): text,    *)
(* one list of citations and one "complete" that comes last; an "error" is *)
(* followed by nothing but a "complete" of status "error".  A stream may   *)
(* break off at any moment.                                                *)
(***************************************************************************)
EXTENDS Sequences, Naturals

CONSTANTS
    Streams,
    CitationsLast \* TRUE: no text follows the citations

VARIABLES
    events, \* [s -> the kinds of events its client has received, repetitions joined]
    over    \* the streams that have ended

Received(s, k) == \E i \in 1..Len(events[s]) : events[s][i] = k

Init == events = [s \in Streams |-> <<>>] /\ over = {}

Deliver(s, k) ==
    /\ s \notin over
    /\ events' = [events EXCEPT ![s] =
                    IF @ # <<>> /\ @[Len(@)] = k THEN @ ELSE Append(@, k)]

Text(s) ==
    /\ ~Received(s, "error") /\ (CitationsLast => ~Received(s, "citations"))
    /\ Deliver(s, "text") /\ UNCHANGED over
Cite(s) ==
    /\ ~Received(s, "error") /\ ~Received(s, "citations")
    /\ Deliver(s, "citations") /\ UNCHANGED over
Fail(s) ==
    /\ ~Received(s, "error") /\ ~Received(s, "citations")
    /\ Deliver(s, "error") /\ UNCHANGED over
\* An answer that completed has text.
Complete(s) ==
    /\ \/ ~Received(s, "error") /\ Received(s, "text") /\ Deliver(s, "completed")
       \/ Received(s, "error") /\ Deliver(s, "failed")
    /\ over' = over \cup {s}
Break(s) == s \notin over /\ over' = over \cup {s} /\ UNCHANGED events

Next == \E s \in Streams : Text(s) \/ Cite(s) \/ Fail(s) \/ Complete(s) \/ Break(s)
Spec == Init /\ [][Next]_<<events, over>>
=============================================================================
