---------------------------- MODULE UnlockBuffer ----------------------------
(***************************************************************************)
(* The growing array of dependencies (scheduler.c): scheduler_addunlock    *)
(* called by many threads at once while the task graph is built.  A thread *)
(* draws an index from nr_unlocks; the one whose index is the size of the  *)
(* array doubles it (scheduler_extend_unlocks), after waiting for all the  *)
(* writes below to be complete; those with larger indices spin until there *)
(* is room, and may then find that it is their turn to double.             *)
(*                                                                         *)
(* The two arrays unlocks and unlock_ind are handled together: an entry is *)
(* the pair (tb, ta) of one call.  The array is replaced, not changed in   *)
(* place, so a thread that has read the pointer s->unlocks and not yet     *)
(* written may hold the pointer of an array that was freed.                *)
(*                                                                         *)
(* GraphBuild runs these calls inside the maps of a threadpool.            *)
(***************************************************************************)
EXTENDS Naturals

CONSTANTS
  Thread,
  Nothing,        \* an entry that was not written
  InitSize        \* scheduler_init_nr_unlocks

VARIABLES
  nr_unlocks, size_unlocks, completed_unlock_writes,
  unlocks,        \* the entries of the current array
  version,        \* which array s->unlocks points to
  fresh,          \* the new array from its copying to its installation
  pc, ind,
  dep,            \* the arguments of the call
  ptr             \* the value of s->unlocks the thread has read

vars == <<nr_unlocks, size_unlocks, completed_unlock_writes, unlocks, version,
          fresh, pc, ind, dep, ptr>>

Init ==
  /\ nr_unlocks = 0
  /\ size_unlocks = InitSize
  /\ completed_unlock_writes = 0
  /\ unlocks = [k \in 0..(InitSize - 1) |-> Nothing]
  /\ version = 0
  /\ fresh = Nothing
  /\ pc = [p \in Thread |-> "idle"]
  /\ ind = [p \in Thread |-> 0]
  /\ dep = [p \in Thread |-> Nothing]
  /\ ptr = [p \in Thread |-> 0]

Goto(p, label) == pc' = [pc EXCEPT ![p] = label]

-----------------------------------------------------------------------------
(***************************************************************************)
(* scheduler_addunlock                                                     *)
(***************************************************************************)
(* Get an index at which to store this unlock. *)
Add(p, d) ==
  /\ pc[p] = "idle"
  /\ ind' = [ind EXCEPT ![p] = nr_unlocks]
  /\ dep' = [dep EXCEPT ![p] = d]
  /\ nr_unlocks' = nr_unlocks + 1
  /\ Goto(p, "check")
  /\ UNCHANGED <<size_unlocks, completed_unlock_writes, unlocks, version, fresh,
                 ptr>>

(* Does the buffer need to be grown? *)
Check(p) ==
  /\ pc[p] = "check"
  /\ Goto(p, IF ind[p] = size_unlocks THEN "grow" ELSE "spin")
  /\ UNCHANGED <<nr_unlocks, size_unlocks, completed_unlock_writes, unlocks,
                 version, fresh, ind, dep, ptr>>

(* Wait for there to actually be space at my index.  Both waits are busy:  *)
(* a thread that waits goes round its loop.                                *)
Spin(p) ==
  /\ pc[p] = "spin"
  /\ \/ ind[p] > size_unlocks /\ UNCHANGED pc
     \/ ind[p] <= size_unlocks /\ Goto(p, "guard")
  /\ UNCHANGED <<nr_unlocks, size_unlocks, completed_unlock_writes, unlocks,
                 version, fresh, ind, dep, ptr>>

(* Mutant: no guard. *)
GuardMissing(p) ==
  /\ pc[p] = "guard"
  /\ Goto(p, "load")
  /\ UNCHANGED <<nr_unlocks, size_unlocks, completed_unlock_writes, unlocks,
                 version, fresh, ind, dep, ptr>>

(* Guard against the case when more than (old) s->size_unlocks unlocks are *)
(* now pending.                                                            *)
Guard(p) ==
  /\ pc[p] = "guard"
  /\ Goto(p, IF ind[p] = size_unlocks THEN "grow2" ELSE "load")
  /\ UNCHANGED <<nr_unlocks, size_unlocks, completed_unlock_writes, unlocks,
                 version, fresh, ind, dep, ptr>>

Load(p) ==
  /\ pc[p] = "load"
  /\ ptr' = [ptr EXCEPT ![p] = version]
  /\ Goto(p, "store")
  /\ UNCHANGED <<nr_unlocks, size_unlocks, completed_unlock_writes, unlocks,
                 version, fresh, ind, dep>>

(* The thread is about to write to the current array, within its bounds. *)
Lands(p) == ptr[p] = version /\ ind[p] \in DOMAIN unlocks

(* A write that does not land is lost in freed or foreign memory. *)
Store(p) ==
  /\ pc[p] = "store"
  /\ unlocks' = IF Lands(p) THEN [unlocks EXCEPT ![ind[p]] = dep[p]] ELSE unlocks
  /\ Goto(p, "complete")
  /\ UNCHANGED <<nr_unlocks, size_unlocks, completed_unlock_writes, version,
                 fresh, ind, dep, ptr>>

Complete(p) ==
  /\ pc[p] = "complete"
  /\ completed_unlock_writes' = completed_unlock_writes + 1
  /\ ind' = [ind EXCEPT ![p] = 0]
  /\ dep' = [dep EXCEPT ![p] = Nothing]
  /\ ptr' = [ptr EXCEPT ![p] = 0]
  /\ Goto(p, "idle")
  /\ UNCHANGED <<nr_unlocks, size_unlocks, unlocks, version, fresh>>

-----------------------------------------------------------------------------
(***************************************************************************)
(* scheduler_extend_unlocks, called from one of two places: after the      *)
(* first call the thread goes on to "spin", after the second to "load".    *)
(***************************************************************************)
Doubled ==
  [k \in 0..(2 * size_unlocks - 1) |->
     IF k < size_unlocks THEN unlocks[k] ELSE Nothing]

(* Mutant: the thread that grows the array waits for its own write, too. *)
CopyStuck(p) ==
  /\ pc[p] \in {"grow", "grow2"}
  /\ \/ completed_unlock_writes <= size_unlocks /\ UNCHANGED <<fresh, pc>>
     \/ /\ completed_unlock_writes > size_unlocks
        /\ fresh' = Doubled
        /\ Goto(p, IF pc[p] = "grow" THEN "swap" ELSE "swap2")
  /\ UNCHANGED <<nr_unlocks, size_unlocks, completed_unlock_writes, unlocks,
                 version, ind, dep, ptr>>

(* Wait for all writes to the old buffer to complete; copy it. *)
Copy(p) ==
  /\ pc[p] \in {"grow", "grow2"}
  /\ \/ completed_unlock_writes < size_unlocks /\ UNCHANGED <<fresh, pc>>
     \/ /\ completed_unlock_writes >= size_unlocks
        /\ fresh' = Doubled
        /\ Goto(p, IF pc[p] = "grow" THEN "swap" ELSE "swap2")
  /\ UNCHANGED <<nr_unlocks, size_unlocks, completed_unlock_writes, unlocks,
                 version, ind, dep, ptr>>

(* Free the old buffer and install the new one. *)
Swap(p) ==
  /\ pc[p] \in {"swap", "swap2"}
  /\ unlocks' = fresh
  /\ fresh' = Nothing
  /\ version' = version + 1
  /\ Goto(p, IF pc[p] = "swap" THEN "publish" ELSE "publish2")
  /\ UNCHANGED <<nr_unlocks, size_unlocks, completed_unlock_writes, ind, dep, ptr>>

(* Publish the new buffer size. *)
Publish(p) ==
  /\ pc[p] \in {"publish", "publish2"}
  /\ size_unlocks' = 2 * size_unlocks
  /\ Goto(p, IF pc[p] = "publish" THEN "spin" ELSE "load")
  /\ UNCHANGED <<nr_unlocks, completed_unlock_writes, unlocks, version, fresh,
                 ind, dep, ptr>>

-----------------------------------------------------------------------------
(* scheduler_reset, before a new task graph is built: the array stays. *)
Reset ==
  /\ \A p \in Thread : pc[p] = "idle"
  /\ nr_unlocks' = 0
  /\ completed_unlock_writes' = 0
  /\ UNCHANGED <<size_unlocks, unlocks, version, fresh, pc, ind, dep, ptr>>

Step(p) ==
  \/ Check(p) \/ Spin(p) \/ Guard(p) \/ Load(p) \/ Store(p) \/ Complete(p)
  \/ Copy(p) \/ Swap(p) \/ Publish(p)

=============================================================================
