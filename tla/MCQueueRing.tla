---------------------------- MODULE MCQueueRing ----------------------------
(***************************************************************************)
(* Three threads and more tasks than the ring has slots, so that inserters *)
(* meet full slots; the counters wrap at a number the ring's size does not *)
(* divide, as 10240 does not divide 2^32.                                  *)
(***************************************************************************)
EXTENDS QueueRing, TLC
=============================================================================
