-------------------------------- MODULE Fof --------------------------------
(***************************************************************************)
(* The friends-of-friends search (fof.c): tasks link the particles that    *)
(* are closer than the linking length, in a union-find forest that all     *)
(* threads share.  group_index[k] is the parent of particle k; a root is   *)
(* its own parent.                                                         *)
(*                                                                         *)
(* A task locks the particles of its one or two cells, so tasks that run   *)
(* together have different particles.  The roots these lead to may lie     *)
(* anywhere, and are read and written without a lock: each read of         *)
(* group_index and each compare-and-swap is a step here.                   *)
(***************************************************************************)
EXTENDS Integers, Sequences

CONSTANTS
  Particle,     \* the indices of the gparts
  Thread,
  Task,         \* the self and pair tasks of the search
  Cells,        \* Cells[t]: the cells task t locks
  Rows,         \* Rows[t]: for each particle i of the task's outer loop, in
                \* order, the particles js of its inner loop
  Linked,       \* the pairs <<i, j>> closer than the linking length
  NoTask

min_length == 2           \* FOF_COMPRESS_PATHS_MIN_LENGTH

ASSUME ParticleAssumption == Particle \subseteq Nat /\ Particle # {}

ASSUME RowsAssumption ==
  /\ NoTask \notin Task
  /\ Rows \in [Task -> Seq([i : Particle, js : Seq(Particle)])]

VARIABLES
  group_index,
  todo,     \* the tasks nobody has taken yet
  task,     \* task[p]: the task p runs, or NoTask
  pc,       \* where p is in the search, in fof_find or in fof_union
  ret,      \* ret[p]: which root fof_find was called for
  local,    \* local[p]: the local variables of these functions
  raced     \* some root had got a parent between its find and its update

vars == <<group_index, todo, task, pc, ret, local, raced>>

(***************************************************************************)
(* row and col: the place in the two loops; root_i, root_j: the caller's   *)
(* roots; new_i, new_j: fof_union's.  arg and root: fof_find's argument    *)
(* and where it is, depth: how far it has come, as far as it matters;      *)
(* seen: the value a compare-and-swap expects.                             *)
(***************************************************************************)
Local ==
  [row : Nat, col : Nat,
   root_i : Particle, root_j : Particle, new_i : Particle, new_j : Particle,
   arg : Particle, root : Particle, depth : 0..min_length, seen : Particle]

Fresh ==
  LET any == CHOOSE k \in Particle : TRUE
  IN [row |-> 0, col |-> 0, root_i |-> any, root_j |-> any, new_i |-> any,
      new_j |-> any, arg |-> any, root |-> any, depth |-> 0, seen |-> any]

TypeOK ==
  /\ group_index \in [Particle -> Particle]
  /\ todo \subseteq Task
  /\ task \in [Thread -> Task \cup {NoTask}]
  /\ pc \in [Thread -> {"idle", "row", "col", "walk", "compress", "swap",
                        "found", "update", "link"}]
  /\ ret \in [Thread -> {"i", "j", "union_i", "union_j"}]
  /\ local \in [Thread -> Local]
  /\ raced \in BOOLEAN

(* fof_set_initial_group_index_mapper: each particle is its own root. *)
Init ==
  /\ group_index = [k \in Particle |-> k]
  /\ todo = Task
  /\ task = [p \in Thread |-> NoTask]
  /\ pc = [p \in Thread |-> "idle"]
  /\ ret = [p \in Thread |-> "i"]
  /\ local = [p \in Thread |-> Fresh]
  /\ raced = FALSE

Goto(p, label) == pc' = [pc EXCEPT ![p] = label]

-----------------------------------------------------------------------------
(***************************************************************************)
(* The task and its loops                                                  *)
(***************************************************************************)
(* task_lock: the cells of the task are not locked for another one. *)
Start(p, t) ==
  /\ pc[p] = "idle"
  /\ t \in todo
  /\ \A q \in Thread : task[q] # NoTask => Cells[task[q]] \cap Cells[t] = {}
  /\ todo' = todo \ {t}
  /\ task' = [task EXCEPT ![p] = t]
  /\ Goto(p, "row")
  /\ UNCHANGED <<group_index, ret, local, raced>>

(* Call fof_find on particle k. *)
Find(p, l, k, caller) ==
  /\ local' = [local EXCEPT ![p] = [l EXCEPT !.arg = k, !.root = k, !.depth = 0]]
  /\ ret' = [ret EXCEPT ![p] = caller]
  /\ Goto(p, "walk")

(* The next particle i, if there is one; the search starts from its parent. *)
NextRow(p) ==
  /\ pc[p] = "row"
  /\ LET l == [local[p] EXCEPT !.row = @ + 1, !.col = 0]
         rows == Rows[task[p]]
     IN \/ /\ l.row <= Len(rows)
           /\ Find(p, l, group_index[rows[l.row].i], "i")
           /\ UNCHANGED task
        \/ /\ l.row > Len(rows)
           /\ Goto(p, "idle")
           /\ task' = [task EXCEPT ![p] = NoTask]
           /\ local' = [local EXCEPT ![p] = Fresh]
           /\ ret' = [ret EXCEPT ![p] = "i"]
  /\ UNCHANGED <<group_index, todo, raced>>

(* The next particle j of the row. *)
NextCol(p) ==
  /\ pc[p] = "col"
  /\ LET l == [local[p] EXCEPT !.col = @ + 1]
         js == Rows[task[p]][l.row].js
     IN \/ /\ l.col <= Len(js)
           /\ Find(p, l, group_index[js[l.col]], "j")
        \/ /\ l.col > Len(js)
           /\ Goto(p, "row")
           /\ UNCHANGED <<local, ret>>
  /\ UNCHANGED <<group_index, todo, task, raced>>

-----------------------------------------------------------------------------
(***************************************************************************)
(* fof_find                                                                *)
(***************************************************************************)
(* One round of the loop, or its end. *)
Walk(p) ==
  LET l == local[p]
      parent == group_index[l.root]
  IN /\ pc[p] = "walk"
     /\ \/ /\ parent # l.root
           /\ local' = [local EXCEPT ![p].root = parent,
                                     ![p].depth = IF @ < min_length THEN @ + 1 ELSE @]
           /\ UNCHANGED pc
        \/ /\ parent = l.root
           /\ Goto(p, IF l.depth >= min_length THEN "compress" ELSE "found")
           /\ UNCHANGED local
     /\ UNCHANGED <<group_index, todo, task, ret, raced>>

(* The second argument of atomic_cas is read first. *)
Compress(p) ==
  /\ pc[p] = "compress"
  /\ local' = [local EXCEPT ![p].seen = group_index[local[p].arg]]
  /\ Goto(p, "swap")
  /\ UNCHANGED <<group_index, todo, task, ret, raced>>

Swap(p) ==
  LET l == local[p]
  IN /\ pc[p] = "swap"
     /\ group_index' = [group_index EXCEPT ![l.arg] = IF @ = l.seen THEN l.root ELSE @]
     /\ Goto(p, "found")
     /\ UNCHANGED <<todo, task, ret, local, raced>>

-----------------------------------------------------------------------------
(***************************************************************************)
(* The returns of fof_find                                                 *)
(***************************************************************************)
FoundI(p) ==
  /\ pc[p] = "found" /\ ret[p] = "i"
  /\ local' = [local EXCEPT ![p].root_i = local[p].root]
  /\ Goto(p, "col")
  /\ UNCHANGED <<group_index, todo, task, ret, raced>>

(* Mutant: the distance is not looked at. *)
FoundJAnyway(p) ==
  LET l == [local[p] EXCEPT !.root_j = local[p].root]
  IN /\ pc[p] = "found" /\ ret[p] = "j"
     /\ \/ /\ l.root_i # l.root_j
           /\ Find(p, l, l.root_i, "union_i")
        \/ /\ l.root_i = l.root_j
           /\ local' = [local EXCEPT ![p] = l]
           /\ Goto(p, "col")
           /\ UNCHANGED ret
     /\ UNCHANGED <<group_index, todo, task, raced>>

(* Skip particles in the same group, and those too far away. *)
FoundJ(p) ==
  LET l == [local[p] EXCEPT !.root_j = local[p].root]
      r == Rows[task[p]][l.row]
      hit == <<r.i, r.js[l.col]>> \in Linked
  IN /\ pc[p] = "found" /\ ret[p] = "j"
     /\ \/ /\ l.root_i # l.root_j /\ hit
           /\ Find(p, l, l.root_i, "union_i")
        \/ /\ l.root_i = l.root_j \/ ~hit
           /\ local' = [local EXCEPT ![p] = l]
           /\ Goto(p, "col")
           /\ UNCHANGED ret
     /\ UNCHANGED <<group_index, todo, task, raced>>

-----------------------------------------------------------------------------
(***************************************************************************)
(* fof_union                                                               *)
(***************************************************************************)
FoundUnionI(p) ==
  /\ pc[p] = "found" /\ ret[p] = "union_i"
  /\ Find(p, [local[p] EXCEPT !.new_i = local[p].root], local[p].root_j, "union_j")
  /\ UNCHANGED <<group_index, todo, task, raced>>

FoundUnionJ(p) ==
  LET l == [local[p] EXCEPT !.new_j = local[p].root]
  IN /\ pc[p] = "found" /\ ret[p] = "union_j"
     /\ local' = [local EXCEPT ![p] = l]
     /\ Goto(p, IF l.new_i = l.new_j THEN "col" ELSE "update")
     /\ UNCHANGED <<group_index, todo, task, ret, raced>>

(* The larger of the two roots gets the smaller as its parent. *)
Larger(l) == IF l.new_j < l.new_i THEN l.new_i ELSE l.new_j
Smaller(l) == IF l.new_j < l.new_i THEN l.new_j ELSE l.new_i

(* atomic_update_root reads the value it will ask the swap to find. *)
Update(p) ==
  /\ pc[p] = "update"
  /\ local' = [local EXCEPT ![p].seen = group_index[Larger(local[p])]]
  /\ Goto(p, "link")
  /\ UNCHANGED <<group_index, todo, task, ret, raced>>

(* Mutant: the particle's own entry is updated and not its root's. *)
LinkParticle(p) ==
  LET l == local[p]
      i == Rows[task[p]][l.row].i
  IN /\ pc[p] = "link"
     /\ group_index' = [group_index EXCEPT ![i] = IF l.new_j < @ THEN l.new_j ELSE @]
     /\ local' = [local EXCEPT ![p].root_i = Smaller(l)]
     /\ Goto(p, "col")
     /\ UNCHANGED <<todo, task, ret, raced>>

(* Mutant: whichever root is larger, j's becomes the parent of i's. *)
LinkUnordered(p) ==
  LET l == local[p]
  IN /\ pc[p] = "link"
     /\ group_index' = [group_index EXCEPT ![l.new_i] = l.new_j]
     /\ local' = [local EXCEPT ![p].root_i = l.new_j]
     /\ Goto(p, "col")
     /\ UNCHANGED <<todo, task, ret, raced>>

(* Mutant: a swap that failed is tried again as it is. *)
LinkSpin(p) ==
  LET l == local[p]
      done == group_index[Larger(l)] = l.seen
  IN /\ pc[p] = "link"
     /\ raced' = (raced \/ group_index[Larger(l)] # Larger(l))
     /\ \/ /\ done
           /\ group_index' = [group_index EXCEPT ![Larger(l)] = Smaller(l)]
           /\ local' = [local EXCEPT ![p].root_i = Smaller(l)]
           /\ Goto(p, "col")
        \/ /\ ~done
           /\ UNCHANGED <<group_index, local, pc>>
     /\ UNCHANGED <<todo, task, ret>>

(***************************************************************************)
(* The swap; whether it succeeds or not, root_i becomes the smaller root.  *)
(* Unless it succeeds, start over.                                         *)
(***************************************************************************)
Link(p) ==
  LET l == local[p]
      done == group_index[Larger(l)] = l.seen
      after == [l EXCEPT !.root_i = Smaller(l)]
  IN /\ pc[p] = "link"
     /\ raced' = (raced \/ group_index[Larger(l)] # Larger(l))
     /\ \/ /\ done
           /\ group_index' = [group_index EXCEPT ![Larger(l)] = Smaller(l)]
           /\ local' = [local EXCEPT ![p] = after]
           /\ Goto(p, "col")
           /\ UNCHANGED ret
        \/ /\ ~done
           /\ Find(p, after, after.root_i, "union_i")
           /\ UNCHANGED group_index
     /\ UNCHANGED <<todo, task>>

-----------------------------------------------------------------------------
Step(p) ==
  \/ NextRow(p) \/ NextCol(p)
  \/ Walk(p) \/ Compress(p) \/ Swap(p)
  \/ FoundI(p) \/ FoundJ(p) \/ FoundUnionI(p) \/ FoundUnionJ(p)
  \/ Update(p) \/ Link(p)

Done == todo = {} /\ \A p \in Thread : pc[p] = "idle"

Finished == Done /\ UNCHANGED vars

Next ==
  \/ \E p \in Thread : Step(p) \/ \E t \in Task : Start(p, t)
  \/ Finished

Spec == Init /\ [][Next]_vars

(* The runners are scheduled and fetch the tasks there are. *)
FairSpec ==
  Spec /\ \A p \in Thread : WF_vars(Step(p) \/ \E t \in Task : Start(p, t))

-----------------------------------------------------------------------------
(***************************************************************************)
(* A parent never has a larger index than its child, whatever two threads  *)
(* write over each other: there are no cycles, and fof_find ends.          *)
(***************************************************************************)
LinksDescend == \A k \in Particle : group_index[k] <= k

(***************************************************************************)
(* Groups are not too large: a set of particles that no two close          *)
(* particles straddle is never left by way of group_index.                 *)
(***************************************************************************)
Closed(S) == \A e \in Linked : e[1] \in S <=> e[2] \in S

OnlyFriends ==
  \A S \in SUBSET Particle :
    Closed(S) => \A k \in S : group_index[k] \in S

(* The root of a particle's group. *)
Root[k \in Particle] == IF group_index[k] = k THEN k ELSE Root[group_index[k]]

(***************************************************************************)
(* Groups are not too small: when the search is over, two particles closer *)
(* than the linking length are in one group.                               *)
(***************************************************************************)
UnionsKept ==
  Done => \A t \in Task : \A r \in 1..Len(Rows[t]) : \A c \in 1..Len(Rows[t][r].js) :
            LET i == Rows[t][r].i
                j == Rows[t][r].js[c]
            IN <<i, j>> \in Linked => Root[i] = Root[j]

(***************************************************************************)
(* They are not, as long as no thread updates a root that another thread   *)
(* has given a parent since it was found.                                  *)
(***************************************************************************)
UnionsKeptUnlessRaced == ~raced => UnionsKept

(***************************************************************************)
(* The search ends: finds, swaps that fail and unions that start over.     *)
(***************************************************************************)
SearchEnds == <>Done
=============================================================================
