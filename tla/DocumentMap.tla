----------------------------- MODULE DocumentMap -----------------------------
(***************************************************************************)
(* What an index of many documents promises the processes that write it:   *)
(* every operation takes effect in one step, on the entries it names and   *)
(* on no other, or not at all.                                             *)
(***************************************************************************)
CONSTANTS Docs, Versions, Writers, Absent

VARIABLES
    map,    \* what is indexed of each document
    doing   \* the operation each writer has begun

Maps == [Docs -> Versions \cup {Absent}]
Idle == [kind |-> "none"]
Operations == [kind : {"replace"}, doc : Docs, version : Versions]
                \cup [kind : {"delete"}, doc : Docs]
                \cup [kind : {"build"}, corpus : Maps]

Effect(o) == CASE o.kind = "replace" -> [map EXCEPT ![o.doc] = o.version]
               [] o.kind = "delete"  -> [map EXCEPT ![o.doc] = Absent]
               [] o.kind = "build"   -> o.corpus
               [] OTHER              -> map

DInit == map = [d \in Docs |-> Absent] /\ doing = [w \in Writers |-> Idle]

Begin(w) == /\ doing[w] = Idle
            /\ \E o \in Operations : doing' = [doing EXCEPT ![w] = o]
            /\ UNCHANGED map

TakeEffect(w) == map' = Effect(doing[w]) /\ UNCHANGED doing

End(w) == /\ doing' = [doing EXCEPT ![w] = Idle]
          /\ UNCHANGED map

DNext == \E w \in Writers : Begin(w) \/ TakeEffect(w) \/ End(w)
DSpec == DInit /\ [][DNext]_<<map, doing>>
=============================================================================
