------------------------ MODULE MCDocumentLifecycle ------------------------
(* Symmetry and a view for the runs of DocumentLifecycle. *)
EXTENDS DocumentLifecycle, TLC

MCSymmetry == Permutations(Procs)

\* What an idle process remembers is overwritten by its next Start, and the state
\* before an operation matters only to one that nothing overlaps.
Remembered(p) ==
    IF todo[p] = <<>> THEN <<>>
    ELSE <<op[p], outcome[p], made[p], trash[p], backup[p], had[p], kept[p], alone[p],
           IF alone[p] THEN before[p] ELSE <<>>>>
MCView == <<database, place, lastVersion, index, others, todo, faults, intact, overlapped,
            started, crashes, [p \in Procs |-> Remembered(p)]>>
=============================================================================
