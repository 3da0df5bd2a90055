---------------------------- MODULE MCQueueHeap ----------------------------
(***************************************************************************)
(* One thread, which owns a queue of six tasks: enough for the last entry  *)
(* of the heap to be larger than the parent of an entry that is removed in *)
(* the other branch, and for refused entries of like weight to change      *)
(* places.  MCQueueRing has the threads.                                   *)
(***************************************************************************)
EXTENDS QueueHeap, TLC

CONSTANTS t1, t2, t3, t4, t5, t6

MCTask == {t1, t2, t3, t4, t5, t6}

MCWeight ==
  (t1 :> 4) @@ (t2 :> 1) @@ (t3 :> 3) @@ (t4 :> 0) @@ (t5 :> 1) @@ (t6 :> 2)
=============================================================================
