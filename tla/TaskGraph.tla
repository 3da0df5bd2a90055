----------------------------- MODULE TaskGraph -----------------------------
(***************************************************************************)
(* What the scheduler promises to the engine.  engine_launch runs a set of *)
(* active tasks: each of them once, after the active tasks it depends on,  *)
(* never beside a task it conflicts with, and the launch is over when all  *)
(* of them are done.  Implicit tasks only carry dependencies: they are     *)
(* done without being run.                                                 *)
(***************************************************************************)
EXTENDS Naturals

CONSTANTS
  Task,
  Implicit,    \* the tasks with t->implicit
  Unlocks,     \* Unlocks[t]: the tasks that depend on t
  Conflicts    \* the pairs of tasks that must not run together

VARIABLES
  active,      \* the tasks of the current launch
  running,     \* the tasks being run
  done,        \* the tasks of this launch that are done
  launched     \* the runners are out

Ready(t) ==
  /\ t \in active \ (running \cup done)
  /\ \A u \in active : t \in Unlocks[u] => u \in done

Init ==
  /\ active = {}
  /\ running = {}
  /\ done = {}
  /\ launched = FALSE

Launch(A) ==
  /\ ~ launched
  /\ active' = A
  /\ done' = {}
  /\ launched' = TRUE
  /\ UNCHANGED running

Start(t) ==
  /\ launched
  /\ t \notin Implicit
  /\ Ready(t)
  /\ \A u \in running : <<t, u>> \notin Conflicts
  /\ running' = running \cup {t}
  /\ UNCHANGED <<active, done, launched>>

Finish(t) ==
  /\ t \in running
  /\ running' = running \ {t}
  /\ done' = done \cup {t}
  /\ UNCHANGED <<active, launched>>

Pass(t) ==
  /\ launched
  /\ t \in Implicit
  /\ Ready(t)
  /\ done' = done \cup {t}
  /\ UNCHANGED <<active, running, launched>>

Return ==
  /\ launched
  /\ done = active
  /\ launched' = FALSE
  /\ UNCHANGED <<active, running, done>>

Next ==
  \/ \E A \in SUBSET Task : Launch(A)
  \/ \E t \in Task : Start(t) \/ Finish(t) \/ Pass(t)
  \/ Return

Spec == Init /\ [][Next]_<<active, running, done, launched>>
=============================================================================
