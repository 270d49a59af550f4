---------------------------- MODULE MCSparseIndex ----------------------------
(* Connections for the runs of SparseIndex. *)
EXTENDS SparseIndex, TLC

\* The one connection all searches of the API share.
MCOneConnection == [r \in Readers |-> "application"]

MCSymmetry == Permutations(Docs) \cup Permutations(Writers) \cup Permutations(Readers)
=============================================================================
