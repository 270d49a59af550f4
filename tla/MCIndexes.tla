------------------------------ MODULE MCIndexes ------------------------------
(* The visual and the sparse index in one model: they share nothing, and a   *)
(* behaviour exercises one `part` of it.                                     *)
EXTENDS MCSparseIndex, VisualIndex

VARIABLE part

MCVars == <<part, vars, visualVars>>

\* Among the readers of the sparse index: two writes of one version, with one fault.
MCVersion == CHOOSE v \in Versions : TRUE
MCOneVersion(corpus) == \A d \in Docs : corpus[d] \in {MCVersion, Absent}
MCFewWrites ==
    /\ writes <= 2 /\ faults <= 1
    /\ \A w \in Writers :
         /\ doing[w].kind = "replace" => doing[w].version = MCVersion
         /\ doing[w].kind = "build" => MCOneVersion(doing[w].corpus)
    /\ \A r \in Readers : asked[r].kind = "audit" => MCOneVersion(asked[r].expected)

MCInit == part \in {"writers", "readers", "visual"} /\ Init /\ VisualInit
MCNext ==
    /\ UNCHANGED part
    /\ \/ part = "writers" /\ Next /\ reads' = 0 /\ UNCHANGED visualVars
       \/ part = "readers" /\ Next /\ MCFewWrites' /\ UNCHANGED visualVars
       \/ part = "visual" /\ VisualNext /\ UNCHANGED vars
MCSpec == MCInit /\ [][MCNext]_MCVars
=============================================================================
