------------------------- MODULE MCReportWorkspace -------------------------
(* A small instance of ReportWorkspace for TLC. *)
EXTENDS ReportWorkspace, TLC

\* Requests that meet: in the order of the sections, at the sources and the scope of the
\* report, at the ledger, and in the conversation.
MCMixes == {[kinds |-> {"create", "update", "delete"}, requests |-> 3],
            [kinds |-> {"insert", "update"}, requests |-> 3],
            [kinds |-> {"insert", "withdraw", "rescope", "delete"}, requests |-> 4],
            [kinds |-> {"turn", "answer", "rescope", "rebind"}, requests |-> 4],
            [kinds |-> {"append", "rebind"}, requests |-> 4]}

\* Turns without an image, with one and its gate, and with one that fell back to RAG.
MCSafety == {[gate |-> "none", image |-> FALSE], [gate |-> "visual_unverified", image |-> TRUE],
             [gate |-> "none", image |-> TRUE]}

\* Processes are interchangeable, and so are knowledge bases.
MCSymmetry == Permutations(Procs) \cup Permutations(KBs)
=============================================================================
