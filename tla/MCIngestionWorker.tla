------------------------- MODULE MCIngestionWorker -------------------------
(* Small instances of IngestionWorker for TLC. *)
EXTENDS IngestionWorker

\* Every parse result is split into the same number of chunks.
MCChunkCount == [v \in Versions |-> 2]

\* Behaviours about one document, up to the bounds, or about all of them, with one death,
\* two requests and no failing write.  The steps the bounds leave out are of no fairness.
VARIABLE part
MCDocument == CHOOSE d \in Docs : TRUE
MCInit == Init /\ part \in {"one", "all"}
MCNext ==
    /\ Next /\ UNCHANGED part
    /\ part = "one" => call' = NoCall \/ call'.doc = MCDocument
    /\ part = "all" => crashes' <= 1 /\ requests' <= 2 /\ faults' = 0
MCFairSpec == MCInit /\ [][MCNext]_<<vars, part>>
              /\ WF_vars(WorkerLoop) /\ WF_vars(FacadeWrite) /\ WF_vars(Recovery)
=============================================================================
