----------------------------- MODULE GraphBuild -----------------------------
(***************************************************************************)
(* How engine_maketasks turns dependencies into a task graph: the threads  *)
(* of the threadpool call scheduler_addunlock from a mapper function, in   *)
(* any order; scheduler_set_unlocks then sorts the dependencies by the     *)
(* task that unlocks, with two more maps; scheduler_ranktasks ranks the    *)
(* tasks.  The pool also serves maps that have nothing to do with the      *)
(* graph (phase "plain"), of any size and kind of chunk.                   *)
(***************************************************************************)
EXTENDS Threadpool

CONSTANTS
  NrTasks,        \* the tasks are 0 .. NrTasks - 1
  Adds,           \* Adds[e]: the dependency <<ta, tb>> the mapper adds for e
  Nothing,        \* an entry that was not written
  InitSize,       \* scheduler_init_nr_unlocks
  MaxBuilds       \* bound: how often the graph is built

VARIABLES
  nr_unlocks, size_unlocks, completed_unlock_writes, unlocks, version, fresh,
  upc, ind, dep, ptr,       \* see UnlockBuffer; upc: where a thread is in it
  phase,                    \* what the caller of the pool is doing
  builds,
  done,                     \* done[p]: the elements of p's chunk it has treated
  counts, offsets, sorted,  \* the temporary arrays of scheduler_set_unlocks
  nr_unlock_tasks, unlock_tasks,  \* the tasks' fields; the latter an index
  wait, rank

Buffer == INSTANCE UnlockBuffer WITH pc <- upc

buffer == <<nr_unlocks, size_unlocks, completed_unlock_writes, unlocks, version,
            fresh, upc, ind, dep, ptr>>
fields == <<nr_unlock_tasks, unlock_tasks, wait, rank>>
buildVars == <<buffer, phase, builds, done, counts, offsets, sorted, fields>>
allVars == <<vars, buildVars>>

Tasks == 0..(NrTasks - 1)
NrAdds == Cardinality(DOMAIN Adds)

ASSUME GraphAssumption ==
  /\ NrTasks \in Nat /\ MaxBuilds \in Nat /\ InitSize \in Nat \ {0}
  /\ Adds \in [0..(NrAdds - 1) -> Tasks \X Tasks]
  /\ NrAdds \in Sizes
  /\ \A t, u \in Tasks : <<t, u>> # Nothing

Zeroes == [t \in Tasks |-> 0]
Blank(n) == [k \in 0..(n - 1) |-> Nothing]

BuildInit ==
  /\ Init
  /\ Buffer!Init
  /\ phase \in {"plain", "reset"}
  /\ phase = "reset" => num_threads > 1 /\ posix
  /\ builds = 0
  /\ done = [p \in Thread |-> 0]
  /\ counts = Zeroes /\ offsets = Zeroes
  /\ sorted = <<>>
  /\ nr_unlock_tasks = Zeroes /\ unlock_tasks = Zeroes
  /\ wait = Zeroes /\ rank = Zeroes

-----------------------------------------------------------------------------
(***************************************************************************)
(* The caller.  A new graph: scheduler_reset, and scheduler_addtask makes  *)
(* the tasks without dependencies, before the mapper is run.               *)
(***************************************************************************)
StartAdds ==
  /\ phase \in {"reset", "built"}
  /\ builds < MaxBuilds
  /\ Buffer!Reset
  /\ Map(NrAdds, auto_chunk_size)
  /\ phase' = "adds"
  /\ builds' = builds + 1
  /\ nr_unlock_tasks' = Zeroes /\ wait' = Zeroes /\ rank' = Zeroes
  /\ UNCHANGED <<done, counts, offsets, sorted, unlock_tasks>>

(* scheduler_set_unlocks: store the counts for each task. *)
StartCounts ==
  /\ phase = "adds"
  /\ Map(nr_unlocks, auto_chunk_size)
  /\ phase' = "counts"
  /\ counts' = Zeroes
  /\ UNCHANGED <<buffer, builds, done, offsets, sorted, fields>>

(* Compute the offset for each unlock block. *)
Offsets == LET sum[t \in Tasks] == IF t = 0 THEN 0 ELSE sum[t - 1] + counts[t - 1]
           IN  sum

StartSorts ==
  /\ phase = "counts"
  /\ Map(nr_unlocks, auto_chunk_size)
  /\ phase' = "sorts"
  /\ offsets' = Offsets
  /\ sorted' = Blank(size_unlocks)
  /\ UNCHANGED <<buffer, builds, done, counts, fields>>

(* The temporary arrays are given back. *)
Freed == counts' = Zeroes /\ offsets' = Zeroes /\ sorted' = <<>>

(* Mutant: the offsets are not re-set after the sort has moved them. *)
SetUnlocksMoved ==
  /\ phase = "sorts"
  /\ pc[Main] = "idle"
  /\ unlocks' = [k \in DOMAIN unlocks |->
       IF unlocks[k] = Nothing THEN Nothing ELSE <<unlocks[k][1], sorted[k]>>]
  /\ version' = version + 1
  /\ nr_unlock_tasks' = counts
  /\ unlock_tasks' = offsets
  /\ phase' = "rank"
  /\ Freed
  /\ UNCHANGED <<vars, nr_unlocks, size_unlocks, completed_unlock_writes, fresh,
                 upc, ind, dep, ptr, builds, done, wait, rank>>

(* Swap the unlocks, re-set the offsets and set the unlocks in the tasks.  *)
(* unlock_ind stays as it was.                                             *)
SetUnlocks ==
  /\ phase = "sorts"
  /\ pc[Main] = "idle"
  /\ unlocks' = [k \in DOMAIN unlocks |->
       IF unlocks[k] = Nothing THEN Nothing ELSE <<unlocks[k][1], sorted[k]>>]
  /\ version' = version + 1
  /\ nr_unlock_tasks' = counts
  /\ unlock_tasks' = Offsets
  /\ phase' = "rank"
  /\ Freed
  /\ UNCHANGED <<vars, nr_unlocks, size_unlocks, completed_unlock_writes, fresh,
                 upc, ind, dep, ptr, builds, done, wait, rank>>

(* How often task t has u among its unlock_tasks. *)
Unlocks(t, u) ==
  Cardinality({k \in 0..(nr_unlock_tasks[t] - 1) :
    unlock_tasks[t] + k \in DOMAIN unlocks /\ unlocks[unlock_tasks[t] + k] # Nothing
      /\ unlocks[unlock_tasks[t] + k][2] = u})

(* The number of unlocks of u by the tasks of S. *)
UnlocksBy(S, u) ==
  Cardinality(UNION {{t} \X (1..Unlocks(t, u)) : t \in S})

(* Mutant: a task is loaded when the first of its waits is over. *)
WaitsHasty ==
  LET W[r \in 0..NrTasks] ==
        IF r = 0 THEN [u \in Tasks |-> UnlocksBy(Tasks, u)]
        ELSE LET layer == {t \in Tasks : /\ W[r - 1][t] = 0
                                         /\ r > 1 => W[r - 2][t] > 0}
             IN  [u \in Tasks |-> IF UnlocksBy(layer, u) > 0 THEN 0 ELSE W[r - 1][u]]
  IN  W

(* The waits before each round of scheduler_ranktasks: the tasks without   *)
(* waits are ranked, and the waits of those they unlock counted down.      *)
Waits ==
  LET W[r \in 0..NrTasks] ==
        IF r = 0 THEN [u \in Tasks |-> UnlocksBy(Tasks, u)]
        ELSE LET layer == {t \in Tasks : /\ W[r - 1][t] = 0
                                         /\ r > 1 => W[r - 2][t] > 0}
             IN  [u \in Tasks |-> W[r - 1][u] - UnlocksBy(layer, u)]
  IN  W

(* The loop ends when every task was loaded; "unsatisfiable dependencies"  *)
(* stop the program before that.                                           *)
RankTasks ==
  /\ phase = "rank"
  /\ \E W \in {Waits} :
       /\ \A t \in Tasks : \E r \in 0..NrTasks : W[r][t] = 0
       /\ rank' = [t \in Tasks |-> Cardinality({r \in 0..NrTasks : W[r][t] > 0})]
       /\ wait' = W[NrTasks]
  /\ phase' = "built"
  /\ UNCHANGED <<vars, buffer, builds, done, counts, offsets, sorted,
                 nr_unlock_tasks, unlock_tasks>>

-----------------------------------------------------------------------------
(***************************************************************************)
(* The mapper functions, one element of the chunk at a time.               *)
(***************************************************************************)
AtElement(p, ph) ==
  /\ pc[p] = "call" /\ phase = ph
  /\ done[p] < AsInt(chunk_size[p])

Current(p) == task_ind[p] + done[p]

Treated(p) == done' = [done EXCEPT ![p] = @ + 1]

(* A mapper that calls scheduler_addunlock. *)
AddUnlock(p) ==
  /\ AtElement(p, "adds")
  /\ Buffer!Add(p, Adds[Current(p)])
  /\ Treated(p)
  /\ UNCHANGED <<vars, phase, builds, counts, offsets, sorted, fields>>

InAddUnlock(p) ==
  /\ Buffer!Step(p)
  /\ UNCHANGED <<vars, phase, builds, done, counts, offsets, sorted, fields>>

(* scheduler_set_unlock_counts_mapper *)
CountUnlock(p) ==
  /\ AtElement(p, "counts")
  /\ counts' = [counts EXCEPT ![unlocks[Current(p)][1]] = @ + 1]
  /\ Treated(p)
  /\ UNCHANGED <<vars, buffer, phase, builds, offsets, sorted, fields>>

(* scheduler_set_unlock_sorts_mapper: atomic_inc(&offsets[ind]) *)
SortUnlock(p) ==
  /\ AtElement(p, "sorts")
  /\ LET ta == unlocks[Current(p)][1]
     IN  /\ sorted' = [sorted EXCEPT ![offsets[ta]] = unlocks[Current(p)][2]]
         /\ offsets' = [offsets EXCEPT ![ta] = @ + 1]
  /\ Treated(p)
  /\ UNCHANGED <<vars, buffer, phase, builds, counts, fields>>

(* The mapper returns when it has treated its chunk. *)
Return(p) ==
  /\ phase # "plain" => done[p] >= AsInt(chunk_size[p]) /\ upc[p] = "idle"
  /\ Call(p)
  /\ done' = [done EXCEPT ![p] = 0]
  /\ UNCHANGED <<buffer, phase, builds, counts, offsets, sorted, fields>>

-----------------------------------------------------------------------------
Pool(A) == A /\ UNCHANGED buildVars

MapperStep(p) ==
  \/ AddUnlock(p) \/ InAddUnlock(p) \/ CountUnlock(p) \/ SortUnlock(p)
  \/ Return(p)

Caller == StartAdds \/ StartCounts \/ StartSorts \/ SetUnlocks \/ RankTasks

BuildNext ==
  \/ phase = "plain" /\ Pool(Begin)
  \/ phase = "built" /\ Pool(Clean)
  \/ Pool(Open("wait")) \/ Pool(Open("run")) \/ Pool(CallAlone) \/ Pool(Join)
  \/ Pool(Gone)
  \/ Caller
  \/ \E p \in Thread : Pool(PoolStep(p)) \/ MapperStep(p)

(***************************************************************************)
(* The threads are scheduled, also inside mapper functions, and the        *)
(* barriers open.  pthread_cond_wait returns once it was signalled; that   *)
(* it may return without a signal as well is left out.                     *)
(***************************************************************************)
BuildSpec ==
  /\ BuildInit /\ [][BuildNext]_allVars
  /\ WF_allVars(Pool(Open("wait"))) /\ WF_allVars(Pool(Open("run")))
  /\ WF_allVars(Pool(CallAlone)) /\ WF_allVars(Pool(Join))
  /\ \A p \in Thread : WF_allVars(Pool(PoolStep(p)) \/ MapperStep(p))

-----------------------------------------------------------------------------
(***************************************************************************)
(* No dependency is written through a pointer to an array that was freed,  *)
(* nor past the end of the array, however many calls of                    *)
(* scheduler_addunlock are pending while it is replaced.                   *)
(***************************************************************************)
WritesLand == \A p \in Thread : upc[p] = "store" => Buffer!Lands(p)

(***************************************************************************)
(* After scheduler_set_unlocks each task unlocks exactly the tasks that    *)
(* were added for it, whoever added, counted and sorted them and whatever  *)
(* copies of the array were made meanwhile.                                *)
(***************************************************************************)
UnlocksAsAdded ==
  phase \in {"rank", "built"} =>
    \A t, u \in Tasks :
      Unlocks(t, u) = Cardinality({e \in DOMAIN Adds : Adds[e] = <<t, u>>})

(***************************************************************************)
(* scheduler_ranktasks ranks a task before all it unlocks, and the waits   *)
(* it counts with are back at zero, where scheduler_rewait expects them.   *)
(***************************************************************************)
RanksRespectUnlocks ==
  phase = "built" =>
    /\ \A e \in DOMAIN Adds : rank[Adds[e][1]] < rank[Adds[e][2]]
    /\ \A t \in Tasks : wait[t] = 0
=============================================================================
