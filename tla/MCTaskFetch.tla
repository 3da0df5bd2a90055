---------------------------- MODULE MCTaskFetch ----------------------------
(***************************************************************************)
(* A cell with three children c1, c2 and c3, and two pair tasks that share *)
(* a cell: x on c2 and c3, y on c1 and c2.  Each runner has a queue of its *)
(* own; x is in that of r1, y in that of r2, and that of r3 is empty.      *)
(***************************************************************************)
EXTENDS TaskFetch, TLC

CONSTANTS top, c1, c2, c3, x, y, r1, r2, r3

MCCell == {top, c1, c2, c3}

MCPath ==
  (top :> <<top>>) @@ (c1 :> <<c1, top>>) @@ (c2 :> <<c2, top>>)
    @@ (c3 :> <<c3, top>>)

MCLocker == Runner \X {1, 2}

MCCi == [t \in Task |-> IF t = x THEN c2 ELSE c1]

MCCj == [t \in Task |-> IF t = x THEN c3 ELSE c2]

MCQueueOf == [r \in Runner |-> CASE r = r1 -> 1 [] r = r2 -> 2 [] OTHER -> 3]

MCFirstIn == [q \in Queue |-> CASE q = 1 -> {x} [] q = 2 -> {y} [] OTHER -> {}]

(***************************************************************************)
(* Where the run with stealing looks: behaviours in which no task has run  *)
(* yet, and r3, whose own queue is empty, comes when the other two are     *)
(* about to sleep.                                                         *)
(***************************************************************************)
ThiefIsLate ==
  /\ \A r \in Runner : rpc[r] \notin {"run", "unlock1", "unlock2"}
  /\ rpc[r3] # "look" =>
       \A r \in {r1, r2} :
         rpc[r] \in {"final", "block", "nap", "sleep"} \/ mode[r] = "final"
=============================================================================
