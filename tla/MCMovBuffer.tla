----------------------------- MODULE MCMovBuffer -----------------------------
(***************************************************************************)
(* An instance of MovBuffer: what is written, which a configuration cannot *)
(* write down as sequences.                                                *)
(***************************************************************************)
EXTENDS MovBuffer

SmallChunks == {<<1>>, <<2, 0, 1>>}
==============================================================================
