----------------------------- MODULE QueueHeap -----------------------------
(***************************************************************************)
(* The task queue of queue.c with its binary heap: QueueRing's actions,    *)
(* each together with what it does to q->entries, and the scan of          *)
(* queue_gettask, which tries the entries from the top, halves the weight  *)
(* of each one that cannot be locked and sends it down the heap.           *)
(*                                                                         *)
(* A weight is a float; the halving ends in 0 because floats underflow.    *)
(* Weights are therefore counted in units of the smallest float, where     *)
(* halving rounds to the nearest even unit.  Entries are numbered from 1:  *)
(* the parent of k is k \div 2, its children are 2k and 2k + 1.            *)
(***************************************************************************)
EXTENDS QueueRing, Sequences

CONSTANTS
  Weight,      \* Weight[t]: t->weight, in units of the smallest float
  SizeInit,    \* queue_sizeinit
  SizeGrow     \* queue_sizegrow

ASSUME WeightAssumption == Weight \in [Task -> Nat]

ASSUME SizeAssumption == SizeInit \in Nat \ {0} /\ SizeGrow \in Nat \ {0, 1}

VARIABLES
  entries,   \* q->entries[0 .. q->count - 1]
  size,      \* q->size
  at,        \* "ind" of the scan in queue_gettask, from 1
  tried      \* the tasks this scan has failed to lock

heapVars == <<entries, size, at, tried>>

vars == <<ringVars, heapVars>>

Entry == [tid : Task, weight : Nat]

TypeOK ==
  /\ RingTypeOK
  /\ entries \in Seq(Entry)
  /\ size \in Nat \ {0}
  /\ at \in 1..(Cardinality(Task) + 1)
  /\ tried \subseteq Task

-----------------------------------------------------------------------------
(* w * queue_lock_fail_reweight_factor *)
Halve(w) == IF w % 2 = 0 THEN w \div 2 ELSE (w \div 2) + ((w \div 2) % 2)

(* j lies on the way from k to the top. *)
IsAncestor(j, k) ==
  LET climb[i \in 0..k] == i > 0 /\ (i = j \/ climb[i \div 2])
  IN climb[k]

(***************************************************************************)
(* queue_bubble_up: the entry at k rises past every parent that is not     *)
(* larger; each of these moves down one place.                             *)
(***************************************************************************)
BubbleUpTo(es, k) ==
  LET rise[i \in 1..k] ==
        IF i = 1 \/ es[k].weight < es[i \div 2].weight THEN i ELSE rise[i \div 2]
  IN rise[k]

BubbleUp(es, k) ==
  LET stop == BubbleUpTo(es, k)
  IN [j \in DOMAIN es |->
        IF j = stop THEN es[k]
        ELSE IF j > stop /\ IsAncestor(j, k) THEN es[j \div 2] ELSE es[j]]

(***************************************************************************)
(* queue_sift_down: the entry at k sinks past its larger child while that  *)
(* child is larger than it.                                                *)
(***************************************************************************)
LargerChild(es, k) ==
  IF 2 * k + 1 <= Len(es) /\ es[2 * k + 1].weight > es[2 * k].weight
  THEN 2 * k + 1 ELSE 2 * k

(* Mutant: a child of the same weight is swapped with. *)
SiftDownToEqual(es, k) ==
  LET sink[i \in 1..Len(es)] ==
        IF 2 * i > Len(es) \/ es[LargerChild(es, i)].weight < es[k].weight
        THEN i ELSE sink[LargerChild(es, i)]
  IN sink[k]

SiftDownTo(es, k) ==
  LET sink[i \in 1..Len(es)] ==
        IF 2 * i > Len(es) \/ es[LargerChild(es, i)].weight <= es[k].weight
        THEN i ELSE sink[LargerChild(es, i)]
  IN sink[k]

SiftDown(es, k) ==
  LET stop == SiftDownTo(es, k)
  IN [j \in DOMAIN es |->
        IF j = stop THEN es[k]
        ELSE IF j >= k /\ IsAncestor(k, j) /\ IsAncestor(j, stop)
             THEN es[LargerChild(es, j)] ELSE es[j]]

-----------------------------------------------------------------------------
Init ==
  /\ RingInit
  /\ entries = <<>>
  /\ size = SizeInit
  /\ at = 1
  /\ tried = {}

(* Mutant: the heap is not grown when it is full. *)
HeapPushNoGrow(p) ==
  /\ Push(p)
  /\ entries' = Append(entries, [tid |-> offset[p], weight |-> Weight[offset[p]]])
  /\ UNCHANGED <<size, at, tried>>

(* Grow the heap if it is full and drop the task at its end. *)
HeapPush(p) ==
  /\ Push(p)
  /\ size' = IF Len(entries) = size THEN size * SizeGrow ELSE size
  /\ entries' = Append(entries, [tid |-> offset[p], weight |-> Weight[offset[p]]])
  /\ UNCHANGED <<at, tried>>

(* Uncount the task and bubble it up. *)
HeapDec(p) ==
  /\ Dec(p)
  /\ entries' = BubbleUp(entries, Len(entries))
  /\ UNCHANGED <<size, at, tried>>

StartScan(p) ==
  /\ DrainEnd(p)
  /\ at' = 1
  /\ tried' = {}
  /\ UNCHANGED <<entries, size>>

(* Mutant: the entry that takes the place of a sunken one is skipped. *)
RefuseAndSkip(p) ==
  /\ pc[p] = "scan"
  /\ at <= Len(entries)
  /\ LET es == [entries EXCEPT ![at].weight = Halve(@)]
     IN entries' = SiftDown(es, at)
  /\ at' = at + 1
  /\ tried' = tried \cup {entries[at].tid}
  /\ UNCHANGED <<ringVars, size>>

(* task_lock refuses the entry at hand: halve it, send it down, and look   *)
(* at the same place again if another entry came up to it.                 *)
Refuse(p) ==
  /\ pc[p] = "scan"
  /\ at <= Len(entries)
  /\ LET es == [entries EXCEPT ![at].weight = Halve(@)]
     IN /\ entries' = SiftDown(es, at)
        /\ at' = IF SiftDownTo(es, at) # at THEN at ELSE at + 1
  /\ tried' = tried \cup {entries[at].tid}
  /\ UNCHANGED <<ringVars, size>>

(* Mutant: the last entry fills the gap and is only sent down. *)
RemoveSiftOnly(es, k) ==
  LET n == Len(es) - 1
      filled == SubSeq([es EXCEPT ![k] = es[n + 1]], 1, n)
  IN IF k <= n THEN SiftDown(filled, k) ELSE filled

(* The last entry takes the place of the one removed, and is re-heaped. *)
Remove(es, k) ==
  LET n == Len(es) - 1
      filled == SubSeq([es EXCEPT ![k] = es[n + 1]], 1, n)
  IN IF k <= n THEN SiftDown(BubbleUp(filled, k), BubbleUpTo(filled, k))
     ELSE filled

(* task_lock succeeds on the entry at hand. *)
HeapTake(p) ==
  /\ at <= Len(entries)
  /\ Take(p, entries[at].tid)
  /\ entries' = Remove(entries, at)
  /\ at' = 1
  /\ tried' = {}
  /\ UNCHANGED size

(* There are no tasks, or the scan went through all of them. *)
HeapNothing(p) ==
  /\ at > Len(entries)
  /\ Nothing(p)
  /\ at' = 1
  /\ tried' = {}
  /\ UNCHANGED <<entries, size>>

Step(p) ==
  \/ InsertStep(p) /\ UNCHANGED heapVars
  \/ Swap(p) /\ UNCHANGED heapVars
  \/ Advance(p) /\ UNCHANGED heapVars
  \/ StartScan(p) \/ HeapPush(p) \/ HeapDec(p)
  \/ Refuse(p) \/ HeapTake(p) \/ HeapNothing(p)

Next == \E p \in Thread : Step(p) \/ (Begin(p) /\ UNCHANGED heapVars)

Spec == Init /\ [][Next]_vars

(* A thread inside a call of queue.c goes on with it. *)
FairSpec == Spec /\ \A p \in Thread : WF_vars(Step(p))

-----------------------------------------------------------------------------
(***************************************************************************)
(* Whenever the queue's lock is free its entries form a heap, the check    *)
(* SWIFT makes in debugging mode ("Queue heap is disordered."), although   *)
(* scans have changed weights in the middle of it.                         *)
(***************************************************************************)
HeapOrdered ==
  lock = 0 =>
    \A k \in 2..Len(entries) : entries[k].weight <= entries[k \div 2].weight

(***************************************************************************)
(* The entries hold each stored task once and fit in the memory allocated. *)
(***************************************************************************)
EntriesMatch ==
  /\ {entries[k].tid : k \in DOMAIN entries} = stored
  /\ Len(entries) = Cardinality(stored)
  /\ Len(entries) <= size

(***************************************************************************)
(* queue_gettask returns NULL from a queue with tasks only after each of   *)
(* them has refused to be locked, although the refused entries move about  *)
(* under the scan.                                                         *)
(***************************************************************************)
NullMeansAllTried ==
  \A p \in Thread : pc[p] = "scan" /\ at > Len(entries) => stored \subseteq tried

(***************************************************************************)
(* A scan ends even if every task refuses every time: two entries of       *)
(* similar weight keep changing places under it, until their weights have  *)
(* underflowed to 0.                                                       *)
(***************************************************************************)
ScanEnds == \A p \in Thread : (pc[p] = "scan") ~> (pc[p] # "scan")
=============================================================================
