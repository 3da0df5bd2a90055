------------------------------ MODULE TreeLock ------------------------------
(***************************************************************************)
(* What the cell locks of cell_lock.c promise to the tasks that take them: *)
(* a grant on a cell is exclusive for the whole branch of the tree through *)
(* that cell, its ancestors and its descendants.  A request may always be  *)
(* refused (the tasks go back to their queue and are tried again later),   *)
(* so refusing is not an action here.                                      *)
(***************************************************************************)
EXTENDS Naturals, Sequences

CONSTANTS
  Cell,      \* the cells of the tree
  Path,      \* Path[c] is <<c, parent of c, ..., top-level cell>>
  Locker,    \* the calls of cell_*locktree that may be outstanding
  NoCell     \* "nothing granted"

VARIABLE granted   \* granted[p]: the cell p has exclusive access to

(***************************************************************************)
(* c and d lie on one branch: one is the other or an ancestor of it.       *)
(***************************************************************************)
OnPath(a, c) == \E i \in 1..Len(Path[c]) : Path[c][i] = a

Related(c, d) == OnPath(c, d) \/ OnPath(d, c)

Init == granted = [p \in Locker |-> NoCell]

Grant(p, c) ==
  /\ granted[p] = NoCell
  /\ \A q \in Locker \ {p} : granted[q] # NoCell => ~ Related(c, granted[q])
  /\ granted' = [granted EXCEPT ![p] = c]

Release(p) ==
  /\ granted[p] # NoCell
  /\ granted' = [granted EXCEPT ![p] = NoCell]

Next == \E p \in Locker : Release(p) \/ \E c \in Cell : Grant(p, c)

Spec == Init /\ [][Next]_granted
=============================================================================
