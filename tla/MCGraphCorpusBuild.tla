------------------------ MODULE MCGraphCorpusBuild ------------------------
(* Linking windows: of two documents and of one. *)
EXTENDS GraphCorpusBuild
MCWindows == <<<<"d1", "d2">>, <<"d3">>>>
MCChunksOf == [d1 |-> <<"a", "b">>, d2 |-> <<"c">>, d3 |-> <<"e">>]
=============================================================================
