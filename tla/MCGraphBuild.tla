---------------------------- MODULE MCGraphBuild ----------------------------
(***************************************************************************)
(* A pool of three threads, or of one; arrays of none to seven elements;   *)
(* chunks of the three kinds, INT_MAX small enough to matter.  A graph of  *)
(* three tasks and three dependencies is built twice, the first time in an *)
(* array of one entry that is doubled twice: the call with index 2 can be  *)
(* pending while the array has one entry, and has to double it itself.     *)
(***************************************************************************)
EXTENDS GraphBuild, TLC

MCChunks == {auto_chunk_size, uniform_chunk_size, 2}

MCAdds == (0 :> <<2, 0>>) @@ (1 :> <<2, 1>>) @@ (2 :> <<0, 1>>)
=============================================================================
