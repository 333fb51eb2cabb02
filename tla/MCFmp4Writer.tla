----------------------------- MODULE MCFmp4Writer -----------------------------
(***************************************************************************)
(* An instance of Fmp4Writer: who uses the writer.                         *)
(***************************************************************************)
EXTENDS Fmp4Writer

\* An adaptation set of the server has one track.  Any allocation of the writer may
\* fail, and its buffer may be too small or not grow.
Server == [tracks |-> <<"video">>, segment |-> TRUE, maxsize |-> 14,
           limits |-> {1, 8, 14}, alloc |-> BOOLEAN, sizes |-> {1, 3},
           samples |-> 5, saves |-> 3]

\* The library without MOV_FLAG_SEGMENT: a file of two tracks, any key frames.
Film == [tracks |-> <<"video", "audio">>, segment |-> FALSE, maxsize |-> 60,
         limits |-> {60}, alloc |-> {TRUE}, sizes |-> {2}, samples |-> 6, saves |-> 2]

\* The same when memory is short.
ShortFilm == [Film EXCEPT !.limits = {18, 60}, !.alloc = BOOLEAN, !.samples = 3]

AllCallers == {Server, Film, ShortFilm}
==============================================================================
