--------------------------- MODULE GenerationIndex ---------------------------
(***************************************************************************)
(* What an index that is replaced by generations promises its readers, for *)
(* one document: a replacement makes the new generation visible in one     *)
(* step, whole, or leaves the visible one alone; nothing becomes invisible *)
(* but by a removal that was asked for, unless a call of the store has     *)
(* failed, after which an operation may lose the visible generation or     *)
(* bring back one that is stored whole.                                    *)
(***************************************************************************)
EXTENDS Naturals

CONSTANT MaxGenerations

VARIABLES
    visible,    \* the generation readers see, 0: none
    asked,      \* the operation in progress: "none", "replace" or "remove"
    failed      \* a call of the store has failed

None == 0
Generations == 1..MaxGenerations

GInit == visible = None /\ asked = "none" /\ failed = FALSE

Ask == /\ asked = "none"
       /\ asked' \in {"replace", "remove"}
       /\ UNCHANGED <<visible, failed>>

\* The one step in which readers move from a generation to another.
Publish == /\ asked = "replace"
           /\ visible' \in Generations \ {visible}
           /\ UNCHANGED <<asked, failed>>

Remove == /\ asked = "remove"
          /\ visible' = None
          /\ asked' \in {asked, "none"}
          /\ UNCHANGED failed

\* The operation is over: finished, failed or dead with its process.
Finish == /\ asked # "none"
          /\ asked' = "none"
          /\ UNCHANGED <<visible, failed>>

\* A call fails, applied or not, and what follows compensates or recovers.
Falter == /\ asked # "none"
          /\ failed' = TRUE
          /\ visible' \in {visible, None} \cup Generations
          /\ asked' \in {asked, "none"}

GNext == Ask \/ Publish \/ Remove \/ Finish \/ Falter
GSpec == GInit /\ [][GNext]_<<visible, asked, failed>>
=============================================================================
