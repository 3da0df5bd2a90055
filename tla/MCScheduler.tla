---------------------------- MODULE MCScheduler ----------------------------
(***************************************************************************)
(* a and b conflict (say, two self tasks of one cell) and both come before *)
(* the implicit task g, which comes before z; z also waits for a itself.   *)
(* The launches are one of all the tasks, one of a and z without g, whose  *)
(* wait is then left over, and one of b and g without the z that g would   *)
(* release.                                                                *)
(* Three runners, each with its queue, are the fewest with which two       *)
(* refuse each other a task for a moment while the third is about to sleep *)
(* as well, so that the launches that do not end are among the behaviours. *)
(***************************************************************************)
EXTENDS Scheduler, TLC

CONSTANTS a, b, g, z, r1, r2, r3

MCTask == {a, b, g, z}

MCUnlocks == (a :> <<g, z>>) @@ (b :> <<g>>) @@ (g :> <<z>>) @@ (z :> <<>>)

MCConflicts == {<<a, b>>, <<b, a>>}

MCActivations == {{a, b, g, z}, {a, z}, {b, g}}

MCQueueOf == (r1 :> 1) @@ (r2 :> 2) @@ (r3 :> 3)
=============================================================================
