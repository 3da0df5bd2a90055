-------------------------- MODULE GraphBuildProofs --------------------------
(***************************************************************************)
(* Proofs about the threadpool and the building of the task graph, for     *)
(* every number of threads, array size, chunk size and sequence of         *)
(* dependencies, with POSIX barriers and with those of barrier.h.          *)
(*                                                                         *)
(* The invariant has three parts.  PoolInv: the count of a barrier is the  *)
(* number of its sleepers, so that the thread that makes it num_threads    *)
(* finds all the others asleep there; hence the threads are all on one     *)
(* side of the wait barrier and the run barrier, or all on the other, and  *)
(* the map data change on one side only; the chunks in hand are disjoint   *)
(* and below map_data_count, and what lies below it and is in no hand was  *)
(* mapped once.  BufferInv: the writes completed are those of the indices  *)
(* drawn and not pending, so that a thread which finds size_unlocks of     *)
(* them knows that no write to the array is pending.  BuildInv: one index  *)
(* is drawn for each element of the map that adds the dependencies.        *)
(*                                                                         *)
(* SortInv, on top of it, follows the dependencies: every one that was     *)
(* drawn an index for is in the array or with a call that will write it,   *)
(* as often as it was added; the counts and the offsets are those of the   *)
(* entries treated so far, so that the block of a task is filled from its  *)
(* start, the number of entries of smaller tasks, and no two blocks meet.  *)
(* The ranks: before each round the waits of a task are the unlocks by     *)
(* tasks not yet ranked (WaitsAre).  Inductions over the tasks and over    *)
(* the rounds have the form of a least counterexample.                     *)
(***************************************************************************)
EXTENDS GraphBuild, TLAPS, FiniteSetTheorems, WellFoundedInduction

-----------------------------------------------------------------------------
(***************************************************************************)
(* The pool.                                                               *)
(***************************************************************************)
MainLabel == {"init", "idle", "run", "size", "get", "call", "wait", "clean", "join", "gone"}
RunnerLabel == {"wait", "run", "test", "tid", "size", "get", "call", "gone"}
Working == {"size", "get", "call"}

PoolType ==
  /\ num_threads \in Nat \ {0} /\ posix \in BOOLEAN
  /\ num_threads > 1 => num_threads = Cardinality(Thread)
  /\ count \in [{"run", "wait"} -> Nat]
  /\ asleep \subseteq Thread /\ woken \subseteq Thread
  /\ Fits(map_data_size) /\ map_data_count \in Nat /\ map_data_chunk \in Int
  /\ map_function \in {"NULL", "f"} /\ num_threads_running \in Nat
  /\ pc \in [Thread -> MainLabel \cup RunnerLabel]
  /\ pc[Main] \in MainLabel /\ \A r \in Runner : pc[r] \in RunnerLabel
  /\ tid \in [Thread -> Int]
  /\ chunk_size \in [Thread -> Nat] /\ task_ind \in [Thread -> Nat]
  /\ calls \in [Element -> Nat]

(* The barriers: who sleeps is counted, at the barrier where he is. *)
Sleepers(b) == {p \in asleep : AtBarrier(p) = b}

Barriers ==
  /\ posix \/ num_threads = 1 => asleep = {} /\ woken = {}
  /\ asleep \cap woken = {}
  /\ \A p \in asleep \cup woken : AtBarrier(p) # "none"
  /\ \A b \in {"run", "wait"} : count[b] = Cardinality(Sleepers(b))

(* The thread is through the wait barrier and not yet through the run      *)
(* barrier.  All the threads are, or none is.                              *)
Resting(p) ==
  \/ pc[p] = "idle"
  \/ pc[p] \in {"init", "wait"} /\ p \in woken
  \/ pc[p] \in {"run", "clean"} /\ p \notin woken

Together ==
  num_threads > 1 => (\A p \in Thread : Resting(p)) \/ (\A p \in Thread : ~ Resting(p))

(* A map is on, from its call to the last thread's way to the wait barrier. *)
MapOn == num_threads > 1 /\ map_function = "f" /\ ~ Resting(Main)

Request ==
  num_threads > 1 =>
    /\ pc[Main] = "run" => map_function = "f"
    /\ pc[Main] = "run" /\ Resting(Main) =>
         map_data_count = 0 /\ num_threads_running = 0
    /\ pc[Main] \in Working => map_function = "f"
    /\ pc[Main] \in {"init", "clean", "join", "gone"} => map_function = "NULL"
    /\ \A r \in Runner : pc[r] \in {"tid"} \cup Working => map_function = "f"
    /\ pc[Main] \in {"init", "idle", "wait"} => map_data_count >= map_data_size

Taken == {r \in Runner : pc[r] \in {"size", "get", "call", "wait"}}
Left == {p \in Thread : pc[p] = "wait"}

Tids ==
  MapOn =>
    /\ num_threads_running = Cardinality(Taken)
    /\ \A r \in Runner : pc[r] \in Working => tid[r] \in 0..(num_threads_running - 1)
    /\ pc[Main] \in Working => tid[Main] = num_threads - 1
    /\ \A r, o \in Runner :
         r # o /\ pc[r] \in Working /\ pc[o] \in Working => tid[r] # tid[o]

CountBounded == MapOn => map_data_count <= map_data_size + IntMax * (1 + Cardinality(Left))

(* The chunks, and what was mapped. *)
InChunk(p, e) == pc[p] = "call" /\ e \in task_ind[p]..(task_ind[p] + chunk_size[p] - 1)

ChunksApart ==
  num_threads > 1 =>
    /\ \A p \in Thread : pc[p] = "get" => chunk_size[p] \in 1..IntMax
    /\ \A p \in Thread : pc[p] = "call" =>
         /\ chunk_size[p] \in 1..IntMax
         /\ task_ind[p] + chunk_size[p] <= map_data_size
         /\ task_ind[p] + chunk_size[p] <= map_data_count
    /\ \A p, q \in Thread : p # q /\ pc[p] = "call" /\ pc[q] = "call" =>
         \/ task_ind[p] + chunk_size[p] <= task_ind[q]
         \/ task_ind[q] + chunk_size[q] <= task_ind[p]

CallsSoFar ==
  num_threads > 1 =>
    \A e \in Element :
      calls[e] = IF e < map_data_count /\ e < map_data_size /\ ~ \E p \in Thread : InChunk(p, e)
                 THEN 1 ELSE 0

Alone ==
  num_threads = 1 =>
    /\ pc[Main] \in {"idle", "call", "gone"} /\ \A r \in Runner : pc[r] = "gone"
    /\ pc[Main] = "idle" => \A e \in Element : calls[e] = IF e < map_data_size THEN 1 ELSE 0
    /\ pc[Main] = "call" =>
         /\ chunk_size[Main] \in 1..IntMax
         /\ task_ind[Main] + chunk_size[Main] <= map_data_size
         /\ \A e \in Element : calls[e] = IF e < task_ind[Main] THEN 1 ELSE 0

PoolInv ==
  /\ PoolType /\ Barriers /\ Together /\ Request /\ Tids /\ CountBounded
  /\ ChunksApart /\ CallsSoFar /\ Alone

-----------------------------------------------------------------------------
(***************************************************************************)
(* The dependency buffer.                                                  *)
(***************************************************************************)
Pending == {ind[p] : p \in {q \in Thread : upc[q] # "idle"}}
Written == (0..(nr_unlocks - 1)) \ Pending

Label == {"idle", "check", "grow", "swap", "publish", "spin", "guard",
          "grow2", "swap2", "publish2", "load", "store", "complete"}

BufferType ==
  /\ nr_unlocks \in Nat /\ size_unlocks \in Nat \ {0} /\ completed_unlock_writes \in Nat
  /\ version \in Nat
  /\ upc \in [Thread -> Label]
  /\ ind \in [Thread -> Nat] /\ ptr \in [Thread -> Nat]

Installing == {"swap", "swap2", "publish", "publish2"}
Growing == {"grow", "grow2"} \cup Installing

(* The calls in flight have an index of their own. *)
IndexOwned ==
  /\ \A p \in Thread : upc[p] # "idle" => ind[p] < nr_unlocks
  /\ \A p, q \in Thread : p # q /\ upc[p] # "idle" /\ upc[q] # "idle" => ind[p] # ind[q]

WritesCounted ==
  /\ completed_unlock_writes = Cardinality(Written)
  /\ Written \subseteq 0..(size_unlocks - 1)

(* What a thread found out about its index is still true. *)
RoomChecked ==
  /\ \A p \in Thread : upc[p] \in {"load", "store", "complete"} => ind[p] < size_unlocks
  /\ \A p \in Thread : upc[p] = "guard" => ind[p] <= size_unlocks
  /\ \A p \in Thread : upc[p] \in Growing => ind[p] = size_unlocks

(* While the array is replaced no write to it is pending. *)
NoneBelow ==
  \A p \in Thread : upc[p] \in Installing =>
    \A q \in Thread : upc[q] # "idle" => ind[q] >= size_unlocks

ArraySize ==
  /\ \A p \in Thread : upc[p] \in {"swap", "swap2"} => DOMAIN fresh = 0..(2 * size_unlocks - 1)
  /\ \A p \in Thread : upc[p] \in {"publish", "publish2"} =>
       DOMAIN unlocks = 0..(2 * size_unlocks - 1)
  /\ (\A p \in Thread : upc[p] \notin {"publish", "publish2"}) =>
       DOMAIN unlocks = 0..(size_unlocks - 1)

PointerCurrent == \A p \in Thread : upc[p] = "store" => ptr[p] = version

BufferInv ==
  BufferType /\ IndexOwned /\ WritesCounted /\ RoomChecked /\ NoneBelow /\ ArraySize
    /\ PointerCurrent

-----------------------------------------------------------------------------
(***************************************************************************)
(* The mappers.                                                            *)
(***************************************************************************)
InDone(p, e) == pc[p] = "call" /\ e \in task_ind[p]..(task_ind[p] + done[p] - 1)

All == 0..(NrAdds - 1)

TreatedSet == {e \in 0..(NrAdds - 1) : calls[e] = 1 \/ \E p \in Thread : InDone(p, e)}

Phases ==
  /\ phase \in {"plain", "reset", "adds", "counts", "sorts", "rank", "built"}
  /\ phase # "plain" => num_threads > 1

DoneBounded ==
  /\ done \in [Thread -> Nat]
  /\ phase = "plain" => \A p \in Thread : done[p] = 0
  /\ \A p \in Thread : pc[p] = "call" /\ num_threads > 1 => done[p] <= chunk_size[p]
  /\ \A p \in Thread : pc[p] # "call" => done[p] = 0

(* One index is drawn for each element that was treated. *)
AddsCounted ==
  /\ nr_unlocks <= NrAdds
  /\ phase = "adds" => map_data_size = NrAdds /\ nr_unlocks = Cardinality(TreatedSet)

AddsInMap == \A p \in Thread : upc[p] # "idle" => pc[p] = "call" /\ phase = "adds"

BuildInv == Phases /\ DoneBounded /\ AddsCounted /\ AddsInMap

IInv == PoolInv /\ BufferInv /\ BuildInv

-----------------------------------------------------------------------------
(***************************************************************************)
(* The sort of the dependencies.  The entries are those of the elements    *)
(* that were treated: written, or on their way to the array with a call.   *)
(***************************************************************************)
Deps == Tasks \X Tasks

OnItsWay(k, d) == \E p \in Thread : upc[p] # "idle" /\ ind[p] = k /\ dep[p] = d

Holding(d) == {k \in 0..(nr_unlocks - 1) : (k \in Written /\ unlocks[k] = d) \/ OnItsWay(k, d)}

AddsOf(S, d) == {e \in S : Adds[e] = d}

(* What is on its way arrives, and is not lost when the array is copied. *)
Arrives ==
  /\ DOMAIN dep = Thread
  /\ \A p \in Thread : upc[p] # "idle" => dep[p] \in Deps
  /\ \A p \in Thread : upc[p] = "complete" => unlocks[ind[p]] = dep[p]
  /\ \A p \in Thread : upc[p] \in {"swap", "swap2"} =>
       \A k \in 0..(size_unlocks - 1) : fresh[k] = unlocks[k]

EntriesAreAdds ==
  /\ phase \in {"plain", "reset"} => nr_unlocks = 0
  /\ phase \notin {"rank", "built"} => \A k \in Written : unlocks[k] \in Deps
  /\ phase = "adds" =>
       \A d \in Deps : Cardinality(Holding(d)) = Cardinality(AddsOf(TreatedSet, d))
  /\ phase \in {"counts", "sorts"} =>
       /\ nr_unlocks = NrAdds /\ map_data_size = NrAdds
       /\ \A d \in Deps : Cardinality(Holding(d)) = Cardinality(AddsOf(All, d))

(* The entries of S whose task is t, and those whose tasks come before. *)
Of(S, t) == {k \in S : unlocks[k][1] = t}
Before(t) == {k \in All : unlocks[k][1] < t}
Start(t) == Cardinality(Before(t))
Equal(S, d) == {k \in S : unlocks[k] = d}

CountsSoFar ==
  /\ phase = "counts" =>
       counts = [t \in Tasks |-> Cardinality(Of(TreatedSet, t))]
  /\ phase = "sorts" =>
       counts = [t \in Tasks |-> Cardinality(Of(All, t))]

(* The block of t has been filled from its start to its offset. *)
Filled(t, u) == {j \in Start(t)..(offsets[t] - 1) : sorted[j] = u}

SortsSoFar ==
  phase = "sorts" =>
    /\ DOMAIN sorted = 0..(size_unlocks - 1)
    /\ offsets = [t \in Tasks |-> Start(t) + Cardinality(Of(TreatedSet, t))]
    /\ \A t, u \in Tasks :
         Cardinality(Filled(t, u)) = Cardinality(Equal(TreatedSet, <<t, u>>))

SortInv == Arrives /\ EntriesAreAdds /\ CountsSoFar /\ SortsSoFar /\ UnlocksAsAdded

-----------------------------------------------------------------------------
(***************************************************************************)
(* The steps, as the pool sees them.                                       *)
(***************************************************************************)
PoolAct ==
  \/ Clean \/ Join \/ CallAlone \/ Open("wait") \/ Open("run")
  \/ \E n \in Nat : Fits(n) /\ MapAlone(n)
  \/ \E n \in Nat, c \in Int : Fits(n) /\ Map(n, c)
  \/ \E p \in Thread : BarrierWait(p) \/ BarrierLeave(p) \/ Size(p) \/ Get(p) \/ Call(p)
  \/ \E r \in Runner : TestFunction(r) \/ TakeTid(r)

LEMMA ThreadFacts ==
  /\ Main \in Thread /\ Runner \subseteq Thread /\ Thread = Runner \cup {Main}
  /\ Main \notin Runner /\ IsFiniteSet(Thread)
  /\ Cardinality(Runner) \in Nat /\ Cardinality(Thread) = Cardinality(Runner) + 1
<1>1. IsFiniteSet(Runner) /\ Main \notin Runner
  BY ThreadAssumption
<1>2. Cardinality(Runner) \in Nat
  BY <1>1, FS_CardinalityType
<1>3. IsFiniteSet(Thread) /\ Cardinality(Thread) = Cardinality(Runner) + 1
  BY <1>1, FS_AddElement DEF Thread
<1> QED BY <1>1, <1>2, <1>3 DEF Thread

LEMMA AtBarrierIs ==
  ASSUME NEW p
  PROVE  /\ AtBarrier(p) = "wait" <=> num_threads > 1 /\ pc[p] \in {"init", "wait"}
         /\ AtBarrier(p) = "run" <=> num_threads > 1 /\ pc[p] \in {"run", "clean"}
         /\ AtBarrier(p) = "none" <=>
              ~ (num_threads > 1 /\ pc[p] \in {"init", "wait", "run", "clean"})
<1>1. CASE num_threads > 1 /\ pc[p] \in {"init", "wait"}
  BY <1>1 DEF AtBarrier
<1>2. CASE num_threads > 1 /\ pc[p] \in {"run", "clean"}
  BY <1>2 DEF AtBarrier
<1>3. CASE ~ (num_threads > 1 /\ pc[p] \in {"init", "wait", "run", "clean"})
  BY <1>3 DEF AtBarrier
<1> QED BY <1>1, <1>2, <1>3

LEMMA AtBarrierSame ==
  ASSUME NEW p, num_threads' = num_threads, pc'[p] = pc[p]
  PROVE  AtBarrier(p)' = AtBarrier(p)
BY DEF AtBarrier

LEMMA BeyondIs ==
  ASSUME NEW p
  PROVE  /\ pc[p] = "clean" => Beyond(p) = "join"
         /\ pc[p] = "init" => Beyond(p) = "idle"
         /\ pc[p] = "wait" /\ p = Main => Beyond(p) = "idle"
         /\ pc[p] = "wait" /\ p # Main => Beyond(p) = "run"
         /\ pc[p] = "run" /\ p = Main => Beyond(p) = "size"
         /\ pc[p] = "run" /\ p # Main => Beyond(p) = "test"
<1>1. pc[p] = "clean" => Beyond(p) = "join"
  BY DEF Beyond
<1>2. pc[p] = "init" => Beyond(p) = "idle"
  BY DEF Beyond
<1>3. pc[p] = "wait" /\ p = Main => Beyond(p) = "idle"
  BY DEF Beyond
<1>4. pc[p] = "wait" /\ p # Main => Beyond(p) = "run"
  BY DEF Beyond
<1>5. pc[p] = "run" /\ p = Main => Beyond(p) = "size"
  BY DEF Beyond
<1>6. pc[p] = "run" /\ p # Main => Beyond(p) = "test"
  BY DEF Beyond
<1> QED BY <1>1, <1>2, <1>3, <1>4, <1>5, <1>6

(* A thread that is at no barrier goes on. *)
Moves(p, l) ==
  /\ pc' = [pc EXCEPT ![p] = l]
  /\ AtBarrier(p) = "none"
  /\ UNCHANGED <<num_threads, posix, barriers>>

LEMMA MoveKeeps ==
  ASSUME PoolType, Barriers, Together, NEW p \in Thread, NEW l, Moves(p, l),
         num_threads > 1 =>
           (l \in {"idle", "run", "clean"} <=> pc[p] = "idle")
  PROVE  /\ Barriers' /\ Together'
         /\ pc'[p] = l /\ \A q \in Thread : q # p => pc'[q] = pc[q]
         /\ p \notin asleep \cup woken
         /\ num_threads > 1 => \A q \in Thread : Resting(q)' <=> Resting(q)
<1>1. pc'[p] = l /\ \A q \in Thread : q # p => pc'[q] = pc[q]
  BY DEF PoolType, Moves
<1>2. p \notin asleep \cup woken
  BY DEF Moves, Barriers
<1>3. UNCHANGED <<num_threads, posix, count, asleep, woken>>
  BY DEF Moves, barriers
<1>4. \A q \in Thread : q # p => AtBarrier(q)' = AtBarrier(q)
  BY <1>1, <1>3, AtBarrierSame
<1>5. \A q \in asleep \cup woken : q \in Thread /\ AtBarrier(q)' = AtBarrier(q)
  BY <1>2, <1>4 DEF PoolType
<1>6. ASSUME NEW b PROVE Sleepers(b)' = Sleepers(b)
  BY <1>3, <1>5 DEF Sleepers
<1>7. Barriers'
  BY <1>3, <1>5, <1>6 DEF Barriers
<1>8. ASSUME num_threads > 1, NEW q \in Thread PROVE Resting(q)' <=> Resting(q)
  <2>1. CASE q # p
    BY <1>1, <1>3, <2>1 DEF Resting
  <2>2. CASE q = p
    <3>1. pc[p] \notin {"init", "wait", "run", "clean"}
      BY <1>8, AtBarrierIs DEF Moves
    <3> QED BY <1>1, <1>2, <1>3, <1>8, <2>2, <3>1 DEF Resting
  <2> QED BY <2>1, <2>2
<1>9. Together'
  BY <1>3, <1>8 DEF Together
<1> QED BY <1>1, <1>2, <1>7, <1>8, <1>9

-----------------------------------------------------------------------------
(***************************************************************************)
(* A pool of one thread.                                                   *)
(***************************************************************************)
LEMMA AloneStep ==
  ASSUME PoolInv, num_threads = 1, PoolAct
  PROVE  PoolInv'
<1>0. /\ PoolType /\ Barriers /\ Together /\ Alone
      /\ Main \in Thread /\ Runner \subseteq Thread /\ Main \notin Runner
      /\ Thread = Runner \cup {Main}
  BY ThreadFacts DEF PoolInv
<1>1. /\ pc[Main] \in {"idle", "call", "gone"} /\ \A r \in Runner : pc[r] = "gone"
      /\ asleep = {} /\ woken = {} /\ \A p \in Thread : AtBarrier(p) = "none"
  BY <1>0, AtBarrierIs DEF Alone, Barriers
<1>2. \/ Clean \/ CallAlone
      \/ \E n \in Nat : Fits(n) /\ MapAlone(n)
  <2>1. ~ Join /\ ~ Open("wait") /\ ~ Open("run")
    BY <1>0, <1>1 DEF Join, Open
  <2>2. \A n \in Nat, c \in Int : ~ Map(n, c)
    BY DEF Map
  <2>3. \A p \in Thread : ~ BarrierWait(p) /\ ~ BarrierLeave(p)
    BY <1>1 DEF BarrierWait, BarrierLeave
  <2>4. \A p \in Thread : pc[p] \in {"idle", "call", "gone"}
    BY <1>0, <1>1
  <2>5. \A p \in Thread : ~ Size(p) /\ ~ Get(p) /\ ~ Call(p)
    BY <2>4 DEF Size, Get, Call
  <2>6. \A r \in Runner : ~ TestFunction(r) /\ ~ TakeTid(r)
    BY <1>1 DEF TestFunction, TakeTid
  <2> QED BY <2>1, <2>2, <2>3, <2>5, <2>6 DEF PoolAct
<1>e. \A e \in Element : e \in Nat
  BY SizeAssumption DEF Element, Fits
<1>i. IntMax \in Nat \ {0}
  BY SizeAssumption
<1>3. ASSUME NEW l \in {"idle", "call", "gone"}, Moves(Main, l), PoolType',
             l = "idle" => \A e \in Element : calls'[e] = IF e < map_data_size' THEN 1 ELSE 0,
             l = "call" =>
               /\ chunk_size'[Main] \in 1..IntMax
               /\ task_ind'[Main] + chunk_size'[Main] <= map_data_size'
               /\ \A e \in Element : calls'[e] = IF e < task_ind'[Main] THEN 1 ELSE 0
      PROVE  PoolInv'
  <2>1. /\ Barriers' /\ Together' /\ pc'[Main] = l
        /\ \A q \in Thread : q # Main => pc'[q] = pc[q]
    BY <1>0, <1>3, MoveKeeps
  <2>2. num_threads' = 1
    BY <1>3 DEF Moves
  <2>3. Alone'
    BY <1>0, <1>1, <1>3, <2>1, <2>2 DEF Alone
  <2>4. (Request /\ Tids /\ CountBounded /\ ChunksApart /\ CallsSoFar)'
    BY <2>2 DEF Request, Tids, CountBounded, ChunksApart, CallsSoFar, MapOn
  <2> QED BY <1>3, <2>1, <2>3, <2>4 DEF PoolInv
<1>4. CASE Clean
  <2>1. Moves(Main, "gone")
    BY <1>0, <1>1, <1>4 DEF Clean, Goto, Moves, barriers
  <2>2. /\ UNCHANGED <<num_threads, posix, barriers, map_data_size, map_data_count,
                       map_data_chunk, map_function, num_threads_running, tid, chunk_size,
                       task_ind, calls>>
        /\ pc' = [pc EXCEPT ![Main] = "gone"]
    BY <1>4 DEF Clean, Goto
  <2>3. PoolType'
    BY <1>0, <2>2 DEF PoolType, barriers, MainLabel
  <2> QED BY <1>3, <2>1, <2>3
<1>5. ASSUME NEW n \in Nat, Fits(n), MapAlone(n) PROVE PoolInv'
  <2>1. /\ UNCHANGED <<num_threads, posix, count, asleep, woken, map_data_count,
                       map_data_chunk, map_function, num_threads_running, tid>>
        /\ map_data_size' = n /\ pc[Main] = "idle"
    BY <1>5 DEF MapAlone, barriers
  <2>2. CASE n <= IntMax
    <3>1. /\ UNCHANGED <<pc, chunk_size, task_ind>>
          /\ calls' = [e \in Element |-> IF e < n THEN 1 ELSE 0]
      BY <1>5, <1>i, <2>2 DEF MapAlone
    <3>2. Moves(Main, "idle")
      BY <1>0, <1>1, <2>1, <3>1 DEF Moves, barriers, PoolType
    <3>3. PoolType'
      BY <1>0, <1>5, <2>1, <3>1 DEF PoolType
    <3> QED BY <1>3, <2>1, <3>1, <3>2, <3>3
  <2>3. CASE n > IntMax
    <3>1. /\ pc' = [pc EXCEPT ![Main] = "call"] /\ calls' = [e \in Element |-> 0]
          /\ chunk_size' = [chunk_size EXCEPT ![Main] = IntMax]
          /\ task_ind' = [task_ind EXCEPT ![Main] = 0]
      BY <1>5, <1>i, <2>3 DEF MapAlone, Goto
    <3>2. Moves(Main, "call")
      BY <1>0, <1>1, <2>1, <3>1 DEF Moves, barriers
    <3>3. PoolType'
      BY <1>0, <1>5, <1>i, <2>1, <3>1 DEF PoolType, MainLabel
    <3>4. /\ chunk_size'[Main] = IntMax /\ task_ind'[Main] = 0
          /\ \A e \in Element : calls'[e] = 0 /\ ~ (e < 0)
      BY <1>0, <1>e, <3>1 DEF PoolType
    <3> QED BY <1>3, <1>i, <2>1, <2>3, <3>2, <3>3, <3>4
  <2> QED BY <1>i, <2>2, <2>3
<1>6. CASE CallAlone
  <2> DEFINE ti == task_ind[Main]
             cs == chunk_size[Main]
  <2>1. /\ UNCHANGED <<num_threads, posix, count, asleep, woken, map_data_size, map_data_count,
                       map_data_chunk, map_function, num_threads_running, tid>>
        /\ pc[Main] = "call" /\ calls' = Mapped(ti, cs)
    BY <1>6 DEF CallAlone, barriers, request
  <2>2. /\ cs \in 1..IntMax /\ ti \in Nat /\ ti + cs <= map_data_size /\ map_data_size \in Nat
        /\ \A e \in Element : calls[e] = IF e < ti THEN 1 ELSE 0
    BY <1>0, <2>1 DEF Alone, PoolType, Fits
  <2>3. AsInt(cs) = cs
    BY <1>i, <2>2 DEF AsInt
  <2>4. calls' \in [Element -> Nat] /\ \A e \in Element : calls'[e] = IF e < ti + cs THEN 1 ELSE 0
    <3>1. ASSUME NEW e \in Element
          PROVE  calls[e] + (IF e \in ti..(ti + cs - 1) THEN 1 ELSE 0)
                   = IF e < ti + cs THEN 1 ELSE 0
      BY <1>e, <1>i, <2>2
    <3> QED BY <2>1, <2>3, <3>1 DEF Mapped
  <2>5. CASE ti + cs >= map_data_size
    <3>1. /\ pc' = [pc EXCEPT ![Main] = "idle"]
          /\ chunk_size' = [chunk_size EXCEPT ![Main] = 0]
          /\ task_ind' = [task_ind EXCEPT ![Main] = 0]
      BY <1>6, <1>i, <2>2, <2>5 DEF CallAlone, Goto
    <3>2. Moves(Main, "idle")
      BY <1>0, <1>1, <2>1, <3>1 DEF Moves, barriers
    <3>3. PoolType'
      BY <1>0, <2>1, <2>4, <3>1 DEF PoolType, MainLabel
    <3>4. ti + cs = map_data_size
      BY <1>i, <2>2, <2>5
    <3> HIDE DEF ti, cs
    <3> QED BY <1>3, <2>1, <2>4, <3>2, <3>3, <3>4
  <2>6. CASE ti + cs < map_data_size
    <3>1. /\ UNCHANGED pc
          /\ task_ind' = [task_ind EXCEPT ![Main] = ti + cs]
          /\ chunk_size' = [chunk_size EXCEPT ![Main] =
               IF (ti + cs) + cs > map_data_size THEN map_data_size - (ti + cs) ELSE cs]
      BY <1>6, <1>i, <2>2, <2>6 DEF CallAlone
    <3>2. Moves(Main, "call")
      BY <1>0, <1>1, <2>1, <3>1 DEF Moves, barriers, PoolType
    <3>3. /\ task_ind'[Main] = ti + cs
          /\ chunk_size'[Main] =
               IF (ti + cs) + cs > map_data_size THEN map_data_size - (ti + cs) ELSE cs
      BY <1>0, <3>1 DEF PoolType
    <3>4. /\ chunk_size'[Main] \in 1..IntMax /\ task_ind'[Main] + chunk_size'[Main] <= map_data_size
      BY <1>i, <2>2, <2>6, <3>3
    <3>5. PoolType'
      <4>1. chunk_size'[Main] \in Nat /\ task_ind'[Main] \in Nat
        BY <1>i, <2>2, <3>3, <3>4
      <4> QED BY <1>0, <2>1, <2>4, <3>1, <3>3, <4>1 DEF PoolType
    <3> HIDE DEF ti, cs
    <3> QED BY <1>3, <2>1, <2>4, <3>2, <3>3, <3>4, <3>5
  <2> QED BY <1>i, <2>2, <2>5, <2>6
<1> QED BY <1>2, <1>4, <1>5, <1>6

-----------------------------------------------------------------------------
(***************************************************************************)
(* A pool of several threads.                                              *)
(***************************************************************************)
LEMMA RestingWhere ==
  ASSUME PoolType, NEW p \in Thread, Resting(p)
  PROVE  pc[p] \in {"idle", "init", "wait", "run", "clean"}
BY DEF Resting

LEMMA MapStep ==
  ASSUME PoolInv, num_threads > 1, NEW n \in Nat, NEW c \in Int, Fits(n), Map(n, c)
  PROVE  PoolInv'
<1>0. /\ PoolType /\ Barriers /\ Together
      /\ Main \in Thread /\ Runner \subseteq Thread /\ Main \notin Runner
  BY ThreadFacts DEF PoolInv
<1>1. /\ UNCHANGED <<num_threads, posix, count, asleep, woken, tid, chunk_size, task_ind>>
      /\ pc[Main] = "idle" /\ pc' = [pc EXCEPT ![Main] = "run"]
      /\ map_data_size' = n /\ map_data_count' = 0 /\ map_function' = "f"
      /\ num_threads_running' = 0 /\ calls' = [e \in Element |-> 0]
  BY DEF Map, Goto, barriers
<1>2. map_data_chunk' \in Int
  <2>1. num_threads * ChunkRatio \in Nat \ {0}
    BY <1>0, SizeAssumption DEF PoolType
  <2>2. n \div (num_threads * ChunkRatio) \in Int
    BY <2>1
  <2> QED BY <2>2 DEF Map
<1>3. Moves(Main, "run")
  BY <1>1, AtBarrierIs DEF Moves, barriers
<1>4. /\ Barriers' /\ Together' /\ pc'[Main] = "run"
      /\ \A q \in Thread : q # Main => pc'[q] = pc[q]
      /\ \A q \in Thread : Resting(q)' <=> Resting(q)
  BY <1>0, <1>1, <1>3, MoveKeeps
<1>5. \A q \in Thread : Resting(q)
  BY <1>0, <1>1 DEF Together, Resting
<1>6. \A q \in Thread : pc'[q] \in {"idle", "init", "wait", "run", "clean"}
  BY <1>0, <1>4, <1>5, RestingWhere
<1>7. PoolType'
  BY <1>0, <1>1, <1>2 DEF PoolType, MainLabel
<1>8. ~ MapOn'
  BY <1>0, <1>4, <1>5 DEF MapOn
<1>9. Request'
  BY <1>0, <1>1, <1>4, <1>6 DEF Request, Working
<1>10. (Tids /\ CountBounded)'
  BY <1>8 DEF Tids, CountBounded
<1>11. (ChunksApart /\ CallsSoFar)'
  <2>1. \A e \in Element : e \in Nat
    BY SizeAssumption DEF Element, Fits
  <2> QED BY <1>1, <1>6, <2>1 DEF ChunksApart, CallsSoFar
<1>12. Alone'
  BY <1>0, <1>1 DEF Alone
<1> QED BY <1>4, <1>7, <1>9, <1>10, <1>11, <1>12 DEF PoolInv

LEMMA CleanStep ==
  ASSUME PoolInv, num_threads > 1, Clean
  PROVE  PoolInv'
<1>0. /\ PoolType /\ Barriers /\ Together
      /\ Main \in Thread /\ Runner \subseteq Thread /\ Main \notin Runner
  BY ThreadFacts DEF PoolInv
<1>1. /\ UNCHANGED <<num_threads, posix, count, asleep, woken, map_data_size, map_data_count,
                     map_data_chunk, num_threads_running, tid, chunk_size, task_ind, calls>>
      /\ pc[Main] = "idle" /\ pc' = [pc EXCEPT ![Main] = "clean"] /\ map_function' = "NULL"
  BY DEF Clean, Goto, barriers
<1>3. Moves(Main, "clean")
  BY <1>1, AtBarrierIs DEF Moves, barriers
<1>4. /\ Barriers' /\ Together' /\ pc'[Main] = "clean"
      /\ \A q \in Thread : q # Main => pc'[q] = pc[q]
      /\ \A q \in Thread : Resting(q)' <=> Resting(q)
  BY <1>0, <1>1, <1>3, MoveKeeps
<1>5. \A q \in Thread : Resting(q)
  BY <1>0, <1>1 DEF Together, Resting
<1>6. \A q \in Thread : pc'[q] \in {"idle", "init", "wait", "run", "clean"}
                        /\ pc[q] \in {"idle", "init", "wait", "run", "clean"}
  BY <1>0, <1>4, <1>5, RestingWhere
<1>7. PoolType'
  BY <1>0, <1>1 DEF PoolType, MainLabel
<1>8. ~ MapOn'
  BY <1>1 DEF MapOn
<1>9. Request'
  BY <1>0, <1>1, <1>4, <1>6 DEF Request, Working
<1>10. (Tids /\ CountBounded)'
  BY <1>8 DEF Tids, CountBounded
<1>11. (ChunksApart /\ CallsSoFar)'
  BY <1>1, <1>6 DEF PoolInv, ChunksApart, CallsSoFar, InChunk
<1>12. Alone'
  BY <1>0, <1>1 DEF Alone
<1> QED BY <1>4, <1>7, <1>9, <1>10, <1>11, <1>12 DEF PoolInv

LEMMA JoinStep ==
  ASSUME PoolInv, num_threads > 1, Join
  PROVE  PoolInv'
<1>0. /\ PoolType /\ Barriers /\ Together /\ Request
      /\ Main \in Thread /\ Runner \subseteq Thread /\ Main \notin Runner
  BY ThreadFacts DEF PoolInv
<1>1. /\ UNCHANGED <<num_threads, posix, count, asleep, woken, map_data_size, map_data_count,
                     map_data_chunk, map_function, num_threads_running, tid, chunk_size,
                     task_ind, calls>>
      /\ pc[Main] = "join" /\ pc' = [pc EXCEPT ![Main] = "gone"]
  BY DEF Join, Goto, barriers, request
<1>3. Moves(Main, "gone")
  BY <1>1, AtBarrierIs DEF Moves, barriers
<1>4. /\ Barriers' /\ Together' /\ pc'[Main] = "gone"
      /\ \A q \in Thread : q # Main => pc'[q] = pc[q]
      /\ \A q \in Thread : Resting(q)' <=> Resting(q)
  BY <1>0, <1>1, <1>3, MoveKeeps
<1>7. PoolType'
  BY <1>0, <1>1 DEF PoolType, MainLabel
<1>8. map_function = "NULL" /\ ~ MapOn'
  BY <1>0, <1>1 DEF MapOn, Request
<1>9. Request'
  BY <1>0, <1>1, <1>4, <1>8 DEF Request, Working
<1>10. (Tids /\ CountBounded)'
  BY <1>8 DEF Tids, CountBounded
<1>11. (ChunksApart /\ CallsSoFar)'
  <2>1. \A q \in Thread : (pc'[q] = "call" <=> pc[q] = "call") /\ (pc'[q] = "get" <=> pc[q] = "get")
    BY <1>1, <1>4
  <2> QED BY <1>1, <2>1 DEF PoolInv, ChunksApart, CallsSoFar, InChunk
<1>12. Alone'
  BY <1>0, <1>1 DEF Alone
<1> QED BY <1>4, <1>7, <1>9, <1>10, <1>11, <1>12 DEF PoolInv

LEMMA TestStep ==
  ASSUME PoolInv, num_threads > 1, NEW r \in Runner, TestFunction(r)
  PROVE  PoolInv'
<1> DEFINE l == IF map_function = "NULL" THEN "gone" ELSE "tid"
<1>0. /\ PoolType /\ Barriers /\ Together /\ Request /\ Tids /\ CountBounded
      /\ Main \in Thread /\ Runner \subseteq Thread /\ Main \notin Runner /\ r \in Thread
  BY ThreadFacts DEF PoolInv
<1>1. /\ UNCHANGED <<num_threads, posix, count, asleep, woken, map_data_size, map_data_count,
                     map_data_chunk, map_function, num_threads_running, tid, chunk_size,
                     task_ind, calls>>
      /\ pc[r] = "test" /\ pc' = [pc EXCEPT ![r] = l]
  BY DEF TestFunction, Goto, barriers, request
<1>2. l \in {"gone", "tid"} /\ (l = "tid" => map_function = "f")
  BY <1>0 DEF PoolType
<1> HIDE DEF l
<1>3. Moves(r, l)
  BY <1>1, AtBarrierIs DEF Moves, barriers
<1>4. /\ Barriers' /\ Together' /\ pc'[r] = l
      /\ \A q \in Thread : q # r => pc'[q] = pc[q]
      /\ \A q \in Thread : Resting(q)' <=> Resting(q)
  BY <1>0, <1>1, <1>2, <1>3, MoveKeeps
<1>7. PoolType'
  BY <1>0, <1>1, <1>2 DEF PoolType, RunnerLabel
<1>8. MapOn' <=> MapOn
  BY <1>0, <1>1, <1>4 DEF MapOn
<1>9. Request'
  BY <1>0, <1>1, <1>2, <1>4 DEF Request, Working
<1>10. Taken' = Taken /\ Left' = Left
  BY <1>0, <1>1, <1>2, <1>4 DEF Taken, Left
<1>11. (Tids /\ CountBounded)'
  BY <1>0, <1>1, <1>2, <1>4, <1>8, <1>10 DEF Tids, CountBounded, Working
<1>12. (ChunksApart /\ CallsSoFar)'
  <2>1. \A q \in Thread : (pc'[q] = "call" <=> pc[q] = "call") /\ (pc'[q] = "get" <=> pc[q] = "get")
    BY <1>1, <1>2, <1>4
  <2> QED BY <1>1, <2>1 DEF PoolInv, ChunksApart, CallsSoFar, InChunk
<1>13. Alone'
  BY <1>0, <1>1 DEF Alone
<1> QED BY <1>4, <1>7, <1>9, <1>11, <1>12, <1>13 DEF PoolInv

LEMMA TidStep ==
  ASSUME PoolInv, num_threads > 1, NEW r \in Runner, TakeTid(r)
  PROVE  PoolInv'
<1>0. /\ PoolType /\ Barriers /\ Together /\ Request /\ Tids /\ CountBounded
      /\ Main \in Thread /\ Runner \subseteq Thread /\ Main \notin Runner /\ r \in Thread
  BY ThreadFacts DEF PoolInv
<1>1. /\ UNCHANGED <<num_threads, posix, count, asleep, woken, map_data_size, map_data_count,
                     map_data_chunk, map_function, chunk_size, task_ind, calls>>
      /\ pc[r] = "tid" /\ pc' = [pc EXCEPT ![r] = "size"]
      /\ tid' = [tid EXCEPT ![r] = num_threads_running]
      /\ num_threads_running' = num_threads_running + 1
  BY DEF TakeTid, Goto, barriers, request
<1>3. Moves(r, "size")
  BY <1>1, AtBarrierIs DEF Moves, barriers
<1>4. /\ Barriers' /\ Together' /\ pc'[r] = "size"
      /\ \A q \in Thread : q # r => pc'[q] = pc[q]
      /\ \A q \in Thread : Resting(q)' <=> Resting(q)
  BY <1>0, <1>1, <1>3, MoveKeeps
<1>5. MapOn /\ MapOn'
  <2>1. map_function = "f" /\ ~ Resting(r)
    BY <1>0, <1>1 DEF Request, Resting
  <2> QED BY <1>0, <1>1, <1>4, <2>1 DEF MapOn, Together
<1>6. /\ tid'[r] = num_threads_running /\ \A q \in Thread : q # r => tid'[q] = tid[q]
      /\ num_threads_running \in Nat
  BY <1>0, <1>1 DEF PoolType
<1>7. PoolType'
  BY <1>0, <1>1 DEF PoolType, RunnerLabel
<1>9. Request'
  BY <1>0, <1>1, <1>4, <1>5 DEF Request, Working, MapOn
<1>10. /\ Taken' = Taken \cup {r} /\ r \notin Taken /\ Left' = Left
       /\ Taken \in SUBSET Runner
  BY <1>0, <1>1, <1>4 DEF Taken, Left
<1>11. num_threads_running' = Cardinality(Taken')
  <2>1. IsFiniteSet(Taken)
    BY <1>10, ThreadAssumption, FS_Subset
  <2> QED BY <1>0, <1>1, <1>5, <1>10, <2>1, FS_AddElement DEF Tids
<1>12. Tids'
  <2>1. \A o \in Runner : pc'[o] \in Working => tid'[o] \in 0..(num_threads_running' - 1)
    BY <1>0, <1>1, <1>4, <1>5, <1>6 DEF Tids
  <2>2. pc'[Main] \in Working => tid'[Main] = num_threads - 1
    BY <1>0, <1>4, <1>5, <1>6 DEF Tids
  <2>3. ASSUME NEW a \in Runner, NEW o \in Runner, a # o, pc'[a] \in Working, pc'[o] \in Working
        PROVE  tid'[a] # tid'[o]
    BY <1>0, <1>4, <1>5, <1>6, <2>3 DEF Tids
  <2> QED BY <1>1, <1>11, <2>1, <2>2, <2>3 DEF Tids
<1>13. CountBounded'
  BY <1>0, <1>1, <1>5, <1>10 DEF CountBounded
<1>14. (ChunksApart /\ CallsSoFar)'
  <2>1. \A q \in Thread : (pc'[q] = "call" <=> pc[q] = "call") /\ (pc'[q] = "get" <=> pc[q] = "get")
    BY <1>1, <1>4
  <2> QED BY <1>1, <2>1 DEF PoolInv, ChunksApart, CallsSoFar, InChunk
<1>15. Alone'
  BY <1>0, <1>1 DEF Alone
<1> QED BY <1>4, <1>7, <1>9, <1>12, <1>13, <1>14, <1>15 DEF PoolInv

LEMMA ChunkSizeFits ==
  ASSUME PoolType, NEW p \in Thread
  PROVE  ChunkSize(p) \in 1..IntMax
<1> DEFINE share == ((tid[p] + 1) * map_data_size) \div num_threads
                      - (tid[p] * map_data_size) \div num_threads
           over == (map_data_size - map_data_count) % SizeMod
           rest == over \div (2 * num_threads)
           desired == IF map_data_chunk = uniform_chunk_size THEN share
                      ELSE IF rest > map_data_chunk THEN map_data_chunk ELSE rest
<1>0. /\ tid[p] \in Int /\ map_data_size \in Int /\ map_data_count \in Int
      /\ num_threads \in Nat \ {0} /\ map_data_chunk \in Int
      /\ IntMax \in Nat \ {0} /\ SizeMod \in Nat \ {0}
  BY SizeAssumption DEF PoolType, Fits
<1>1. share \in Int
  <2>1. (tid[p] + 1) * map_data_size \in Int /\ tid[p] * map_data_size \in Int
    BY <1>0
  <2>2. ((tid[p] + 1) * map_data_size) \div num_threads \in Int
    BY <1>0, <2>1
  <2>3. (tid[p] * map_data_size) \div num_threads \in Int
    BY <1>0, <2>1
  <2> QED BY <2>2, <2>3
<1>2. rest \in Int
  <2>1. over \in Int
    BY <1>0
  <2>2. 2 * num_threads \in Nat \ {0}
    BY <1>0
  <2> HIDE DEF over
  <2> QED BY <2>1, <2>2
<1>3. desired \in Int
  <2> HIDE DEF share, rest
  <2> QED BY <1>0, <1>1, <1>2
<1>4. ChunkSize(p) = IF desired < 1 THEN 1 ELSE IF desired > IntMax THEN IntMax ELSE desired
  BY DEF ChunkSize
<1> HIDE DEF desired
<1> QED BY <1>0, <1>3, <1>4

LEMMA SizeStep ==
  ASSUME PoolInv, num_threads > 1, NEW p \in Thread, Size(p)
  PROVE  PoolInv'
<1>0. /\ PoolType /\ Barriers /\ Together /\ Request /\ Tids /\ CountBounded /\ ChunksApart
      /\ Main \in Thread /\ Runner \subseteq Thread /\ Main \notin Runner
  BY ThreadFacts DEF PoolInv
<1>1. /\ UNCHANGED <<num_threads, posix, count, asleep, woken, map_data_size, map_data_count,
                     map_data_chunk, map_function, num_threads_running, tid, task_ind, calls>>
      /\ pc[p] = "size" /\ pc' = [pc EXCEPT ![p] = "get"]
      /\ chunk_size' = [chunk_size EXCEPT ![p] = ChunkSize(p)]
  BY DEF Size, Goto, barriers, request
<1>2. ChunkSize(p) \in 1..IntMax /\ ChunkSize(p) \in Nat
  <2>1. ChunkSize(p) \in 1..IntMax
    BY <1>0, ChunkSizeFits
  <2> QED BY <2>1, SizeAssumption
<1>3. Moves(p, "get")
  BY <1>1, AtBarrierIs DEF Moves, barriers
<1>4. /\ Barriers' /\ Together' /\ pc'[p] = "get"
      /\ \A q \in Thread : q # p => pc'[q] = pc[q]
      /\ \A q \in Thread : Resting(q)' <=> Resting(q)
  BY <1>0, <1>1, <1>3, MoveKeeps
<1>5. /\ chunk_size'[p] \in 1..IntMax
      /\ \A q \in Thread : q # p => chunk_size'[q] = chunk_size[q]
  BY <1>0, <1>1, <1>2 DEF PoolType
<1>7. PoolType'
  BY <1>0, <1>1, <1>2 DEF PoolType, RunnerLabel, MainLabel
<1>8. MapOn' <=> MapOn
  BY <1>0, <1>1, <1>4 DEF MapOn
<1>9. Request'
  BY <1>0, <1>1, <1>4 DEF Request, Working
<1>10. Taken' = Taken /\ Left' = Left
  BY <1>0, <1>1, <1>4 DEF Taken, Left
<1>11. (Tids /\ CountBounded)'
  BY <1>0, <1>1, <1>4, <1>8, <1>10 DEF Tids, CountBounded, Working
<1>12. \A q \in Thread : (pc'[q] = "call" <=> pc[q] = "call")
                         /\ (pc[q] = "call" => chunk_size'[q] = chunk_size[q])
  BY <1>1, <1>4, <1>5
<1>13. ChunksApart'
  <2>1. \A q \in Thread : pc'[q] = "get" => chunk_size'[q] \in 1..IntMax
    BY <1>0, <1>1, <1>4, <1>5 DEF ChunksApart
  <2> QED BY <1>0, <1>1, <1>12, <2>1 DEF ChunksApart
<1>14. CallsSoFar'
  BY <1>1, <1>12 DEF PoolInv, CallsSoFar, InChunk
<1>15. Alone'
  BY <1>0, <1>1 DEF Alone
<1> QED BY <1>4, <1>7, <1>9, <1>11, <1>13, <1>14, <1>15 DEF PoolInv

LEMMA CallStep ==
  ASSUME PoolInv, num_threads > 1, NEW p \in Thread, Call(p)
  PROVE  PoolInv'
<1>0. /\ PoolType /\ Barriers /\ Together /\ Request /\ Tids /\ CountBounded /\ ChunksApart
      /\ CallsSoFar
      /\ Main \in Thread /\ Runner \subseteq Thread /\ Main \notin Runner
  BY ThreadFacts DEF PoolInv
<1>1. /\ UNCHANGED <<num_threads, posix, count, asleep, woken, map_data_size, map_data_count,
                     map_data_chunk, map_function, num_threads_running, tid, task_ind,
                     chunk_size>>
      /\ pc[p] = "call" /\ pc' = [pc EXCEPT ![p] = "size"]
      /\ calls' = Mapped(task_ind[p], chunk_size[p])
  BY DEF Call, Goto, barriers, request
<1>2. /\ task_ind[p] \in Nat /\ chunk_size[p] \in Nat /\ IntMax \in Nat
      /\ chunk_size[p] <= IntMax
      /\ task_ind[p] + chunk_size[p] <= map_data_size
      /\ task_ind[p] + chunk_size[p] <= map_data_count
      /\ map_data_size \in Nat /\ map_data_count \in Nat
  BY <1>0, <1>1, SizeAssumption DEF PoolType, ChunksApart, Fits
<1>3. Moves(p, "size")
  BY <1>1, AtBarrierIs DEF Moves, barriers
<1>4. /\ Barriers' /\ Together' /\ pc'[p] = "size"
      /\ \A q \in Thread : q # p => pc'[q] = pc[q]
      /\ \A q \in Thread : Resting(q)' <=> Resting(q)
  BY <1>0, <1>1, <1>3, MoveKeeps
<1>e. \A e \in Element : e \in Nat
  BY SizeAssumption DEF Element, Fits
<1>5. \A e \in Element :
        calls'[e] = calls[e] + (IF InChunk(p, e) THEN 1 ELSE 0)
  <2>1. AsInt(chunk_size[p]) = chunk_size[p]
    BY <1>2 DEF AsInt
  <2> QED BY <1>1, <2>1 DEF Mapped, InChunk
<1>6. calls' \in [Element -> Nat]
  <2>1. \A e \in Element : calls[e] \in Nat
    BY <1>0 DEF PoolType
  <2>2. \A e \in Element : calls'[e] \in Nat
    BY <1>5, <2>1
  <2> QED BY <1>1, <2>2 DEF Mapped
<1>7. PoolType'
  BY <1>0, <1>1, <1>6 DEF PoolType, RunnerLabel, MainLabel
<1>8. MapOn' <=> MapOn
  BY <1>0, <1>1, <1>4 DEF MapOn
<1>9. Request'
  BY <1>0, <1>1, <1>4 DEF Request, Working
<1>10. Taken' = Taken /\ Left' = Left
  BY <1>0, <1>1, <1>4 DEF Taken, Left
<1>11. (Tids /\ CountBounded)'
  BY <1>0, <1>1, <1>4, <1>8, <1>10 DEF Tids, CountBounded, Working
<1>12. \A q \in Thread : /\ pc'[q] = "call" <=> pc[q] = "call" /\ q # p
                         /\ pc'[q] = "get" <=> pc[q] = "get"
  BY <1>1, <1>4
<1>13. ChunksApart'
  BY <1>0, <1>1, <1>12 DEF ChunksApart
<1>14. CallsSoFar'
  <2>1. ASSUME NEW e \in Element, NEW q \in Thread
        PROVE  InChunk(q, e)' <=> InChunk(q, e) /\ q # p
    BY <1>1, <1>12 DEF InChunk
  <2>2. ASSUME NEW e \in Element, NEW q \in Thread, InChunk(p, e), InChunk(q, e)
        PROVE  q = p
    <3>1. /\ e \in Nat /\ pc[q] = "call" /\ pc[p] = "call"
          /\ task_ind[p] <= e /\ e < task_ind[p] + chunk_size[p]
          /\ task_ind[q] <= e /\ e < task_ind[q] + chunk_size[q]
          /\ task_ind[q] \in Nat /\ chunk_size[q] \in Nat
      BY <1>0, <1>2, <1>e, <2>2 DEF InChunk, PoolType
    <3> QED BY <1>0, <1>2, <3>1 DEF ChunksApart
  <2>3. ASSUME NEW e \in Element, InChunk(p, e)
        PROVE  calls'[e] = 1 /\ e < map_data_count /\ e < map_data_size
               /\ ~ \E q \in Thread : InChunk(q, e)'
    <3>1. calls[e] = 0
      BY <1>0, <2>3 DEF CallsSoFar
    <3>2. e < map_data_count /\ e < map_data_size
      BY <1>2, <1>e, <2>3 DEF InChunk
    <3> QED BY <1>5, <2>1, <2>2, <2>3, <3>1, <3>2
  <2>4. ASSUME NEW e \in Element, ~ InChunk(p, e)
        PROVE  /\ calls'[e] = calls[e]
               /\ (\E q \in Thread : InChunk(q, e)') <=> \E q \in Thread : InChunk(q, e)
    <3>1. calls[e] \in Nat
      BY <1>0 DEF PoolType
    <3> QED BY <1>5, <2>1, <2>4, <3>1
  <2> QED BY <1>0, <1>1, <2>3, <2>4 DEF CallsSoFar
<1>15. Alone'
  BY <1>0, <1>1 DEF Alone
<1> QED BY <1>4, <1>7, <1>9, <1>11, <1>13, <1>14, <1>15 DEF PoolInv

(* The count grows by a chunk and does not wrap. *)
LEMMA CountGrows ==
  ASSUME PoolType, CountBounded, MapOn, ChunksApart, NEW p \in Thread, pc[p] = "get"
  PROVE  /\ (map_data_count + chunk_size[p]) % SizeMod = map_data_count + chunk_size[p]
         /\ map_data_count \in Nat /\ map_data_size \in Nat /\ chunk_size[p] \in 1..IntMax
         /\ map_data_count < map_data_size => \A n \in Nat :
              map_data_count + chunk_size[p] <= map_data_size + IntMax * (1 + n)
         /\ \A n \in Nat : n = Cardinality(Left) + 1 =>
              map_data_count + chunk_size[p] <= map_data_size + IntMax * (1 + n)
<1> DEFINE c == Cardinality(Left)
           k == Cardinality(Runner)
           cs == chunk_size[p]
<1>1. /\ map_data_count \in Nat /\ map_data_size \in Nat /\ IntMax \in Nat \ {0}
      /\ SizeMod \in Nat \ {0} /\ cs \in Nat /\ 1 <= cs /\ cs <= IntMax
      /\ map_data_size + (k + 2) * IntMax < SizeMod
  BY SizeAssumption DEF PoolType, Fits, ChunksApart, MapOn
<1>2. k \in Nat /\ c \in Nat /\ c + 1 <= k + 1
  <2>1. IsFiniteSet(Thread) /\ Left \subseteq Thread /\ p \notin Left
        /\ Cardinality(Thread) = k + 1 /\ k \in Nat
    BY ThreadFacts DEF Left
  <2>2. IsFiniteSet(Left)
    BY <2>1, FS_Subset
  <2>3. Left \cup {p} \subseteq Thread
    BY <2>1
  <2>4. Cardinality(Left \cup {p}) = c + 1 /\ c \in Nat
    BY <2>1, <2>2, FS_AddElement, FS_CardinalityType
  <2> QED BY <2>1, <2>3, <2>4, FS_Subset
<1>3. map_data_count <= map_data_size + IntMax * (1 + c)
  BY DEF CountBounded
<1> HIDE DEF c, k, cs
<1>4. \A n \in Nat : IntMax * (1 + n) \in Nat /\ IntMax * (1 + n) >= IntMax
  BY <1>1
<1>5. \A n \in Nat : n = c + 1 => IntMax * (1 + n) = IntMax * (1 + c) + IntMax
  BY <1>1, <1>2
<1>6. IntMax * (1 + (c + 1)) <= (k + 2) * IntMax
  <2>1. \A a, b \in Nat : a <= b => IntMax * a <= b * IntMax
    BY <1>1
  <2>2. 1 + (c + 1) <= k + 2 /\ 1 + (c + 1) \in Nat /\ k + 2 \in Nat
    BY <1>2
  <2> QED BY <2>1, <2>2
<1>7. IntMax * (1 + (c + 1)) = IntMax * (1 + c) + IntMax
  BY <1>2, <1>5
<1>8. IntMax * (1 + c) \in Nat /\ (k + 2) * IntMax \in Nat
  BY <1>1, <1>2
<1>9. map_data_count + cs < SizeMod
  BY <1>1, <1>3, <1>6, <1>7, <1>8
<1>10. (map_data_count + cs) % SizeMod = map_data_count + cs
  <2>1. \A x, M \in Nat : x < M => x % M = x
    OBVIOUS
  <2> QED BY <1>1, <1>9, <2>1
<1>11. ASSUME NEW n \in Nat, map_data_count < map_data_size
       PROVE  map_data_count + cs <= map_data_size + IntMax * (1 + n)
  BY <1>1, <1>4, <1>11
<1>12. ASSUME NEW n \in Nat, n = c + 1
       PROVE  map_data_count + cs <= map_data_size + IntMax * (1 + n)
  BY <1>1, <1>3, <1>5, <1>8, <1>12
<1> QED BY <1>1, <1>10, <1>11, <1>12 DEF c, cs

LEMMA GetStep ==
  ASSUME PoolInv, num_threads > 1, NEW p \in Thread, Get(p)
  PROVE  PoolInv'
<1> DEFINE n == map_data_count
           cs == chunk_size[p]
<1>0. /\ PoolType /\ Barriers /\ Together /\ Request /\ Tids /\ CountBounded /\ ChunksApart
      /\ CallsSoFar
      /\ Main \in Thread /\ Runner \subseteq Thread /\ Main \notin Runner
      /\ Thread = Runner \cup {Main}
  BY ThreadFacts DEF PoolInv
<1>1. /\ UNCHANGED <<num_threads, posix, count, asleep, woken, map_data_size,
                     map_data_chunk, map_function, num_threads_running, calls>>
      /\ pc[p] = "get" /\ map_data_count' = (map_data_count + chunk_size[p]) % SizeMod
  BY DEF Get, barriers, request
<1>2. MapOn
  <2>1. map_function = "f" /\ ~ Resting(p)
    BY <1>0, <1>1 DEF Request, Resting, Working
  <2> QED BY <1>0, <2>1 DEF MapOn, Together
<1>3. /\ map_data_count' = n + cs
      /\ n \in Nat /\ map_data_size \in Nat /\ cs \in 1..IntMax /\ cs \in Nat
      /\ IntMax \in Nat
  BY <1>0, <1>1, <1>2, CountGrows, SizeAssumption
<1>c. IsFiniteSet(Left) /\ Cardinality(Left) \in Nat
  BY ThreadFacts, FS_Subset, FS_CardinalityType DEF Left
<1>a. Alone'
  BY <1>1 DEF Alone
<1>e. \A e \in Element : e \in Nat
  BY SizeAssumption DEF Element, Fits
<1>4. ASSUME NEW l \in {"wait", "call"}, pc' = [pc EXCEPT ![p] = l]
      PROVE  /\ Barriers' /\ Together' /\ pc'[p] = l
             /\ \A q \in Thread : q # p => pc'[q] = pc[q]
             /\ \A q \in Thread : Resting(q)' <=> Resting(q)
             /\ MapOn' /\ Taken' = Taken
  <2>1. Moves(p, l)
    BY <1>1, <1>4, AtBarrierIs DEF Moves, barriers
  <2>2. /\ Barriers' /\ Together' /\ pc'[p] = l
        /\ \A q \in Thread : q # p => pc'[q] = pc[q]
        /\ \A q \in Thread : Resting(q)' <=> Resting(q)
    BY <1>0, <1>1, <1>4, <2>1, MoveKeeps
  <2>3. MapOn'
    BY <1>0, <1>1, <1>2, <2>2 DEF MapOn
  <2>4. Taken' = Taken
    BY <1>0, <1>1, <1>4, <2>2 DEF Taken
  <2> QED BY <2>2, <2>3, <2>4
<1>5. CASE map_data_count >= map_data_size
  <2>1. /\ pc' = [pc EXCEPT ![p] = "wait"] /\ chunk_size' = [chunk_size EXCEPT ![p] = 0]
        /\ task_ind' = [task_ind EXCEPT ![p] = 0] /\ tid' = [tid EXCEPT ![p] = 0]
    BY <1>3, <1>5 DEF Get, Leave, Goto
  <2>2. /\ Barriers' /\ Together' /\ pc'[p] = "wait"
        /\ \A q \in Thread : q # p => pc'[q] = pc[q]
        /\ \A q \in Thread : Resting(q)' <=> Resting(q)
        /\ MapOn' /\ Taken' = Taken
    BY <1>4, <2>1
  <2>3. \A q \in Thread : q # p => /\ tid'[q] = tid[q] /\ chunk_size'[q] = chunk_size[q]
                                   /\ task_ind'[q] = task_ind[q]
    BY <1>0, <2>1 DEF PoolType
  <2>4. PoolType'
    <3>1. map_data_count' \in Nat
      BY <1>3
    <3> QED BY <1>0, <1>1, <2>1, <3>1 DEF PoolType, MainLabel, RunnerLabel
  <2>5. Request'
    <3>1. map_data_count' >= map_data_size
      BY <1>3, <1>5
    <3> QED BY <1>0, <1>1, <1>2, <2>2, <3>1 DEF Request, Working, MapOn
  <2>6. Tids'
    <3>1. \A q \in Thread : pc'[q] \in Working => pc[q] \in Working /\ tid'[q] = tid[q]
      BY <2>2, <2>3 DEF Working
    <3> QED BY <1>0, <1>1, <1>2, <2>2, <3>1 DEF Tids
  <2>7. CountBounded'
    <3>1. Left' = Left \cup {p} /\ p \notin Left
      BY <1>0, <1>1, <2>2 DEF Left
    <3>2. Cardinality(Left') = Cardinality(Left) + 1
      BY <1>c, <3>1, FS_AddElement
    <3>3. Cardinality(Left') \in Nat
      BY <1>c, <3>2
    <3>4. n + cs <= map_data_size + IntMax * (1 + Cardinality(Left'))
      BY <1>0, <1>1, <1>2, <3>2, <3>3, CountGrows
    <3> QED BY <1>1, <1>3, <3>4 DEF CountBounded
  <2>8. \A q \in Thread : /\ pc'[q] = "call" <=> pc[q] = "call"
                          /\ pc'[q] = "get" => pc[q] = "get" /\ chunk_size'[q] = chunk_size[q]
                          /\ pc[q] = "call" => /\ chunk_size'[q] = chunk_size[q]
                                               /\ task_ind'[q] = task_ind[q]
    BY <1>1, <2>2, <2>3
  <2>9. ChunksApart'
    <3>1. ASSUME NEW q \in Thread, pc[q] = "call"
          PROVE  task_ind[q] + chunk_size[q] <= n + cs
      <4>1. task_ind[q] + chunk_size[q] <= n /\ task_ind[q] \in Nat /\ chunk_size[q] \in Nat
        BY <1>0, <3>1 DEF ChunksApart, PoolType
      <4> QED BY <1>3, <4>1
    <3>2. \A q \in Thread : pc'[q] = "call" => task_ind'[q] + chunk_size'[q] <= map_data_count'
      BY <1>3, <2>8, <3>1
    <3> QED BY <1>0, <1>1, <2>8, <3>2 DEF ChunksApart
  <2>10. CallsSoFar'
    <3>1. ASSUME NEW e \in Element, NEW q \in Thread PROVE InChunk(q, e)' <=> InChunk(q, e)
      BY <2>8 DEF InChunk
    <3>2. ASSUME NEW e \in Element
          PROVE  (e < n /\ e < map_data_size) <=> (e < map_data_count' /\ e < map_data_size)
      BY <1>3, <1>5, <1>e
    <3> QED BY <1>0, <1>1, <3>1, <3>2 DEF CallsSoFar
  <2> QED BY <1>a, <2>2, <2>4, <2>5, <2>6, <2>7, <2>9, <2>10 DEF PoolInv
<1>6. CASE map_data_count < map_data_size
  <2> DEFINE len == IF n + cs > map_data_size THEN map_data_size - n ELSE cs
  <2>1. /\ pc' = [pc EXCEPT ![p] = "call"] /\ chunk_size' = [chunk_size EXCEPT ![p] = len]
        /\ task_ind' = [task_ind EXCEPT ![p] = n] /\ UNCHANGED tid
    BY <1>3, <1>6 DEF Get, Goto
  <2>L. /\ len \in 1..IntMax /\ len \in Nat /\ n + len <= map_data_size /\ n + len <= n + cs
        /\ \A e \in Nat : e < n + len <=> e < n + cs /\ e < map_data_size
    BY <1>3, <1>6
  <2> HIDE DEF len
  <2>2. /\ Barriers' /\ Together' /\ pc'[p] = "call"
        /\ \A q \in Thread : q # p => pc'[q] = pc[q]
        /\ \A q \in Thread : Resting(q)' <=> Resting(q)
        /\ MapOn' /\ Taken' = Taken
    BY <1>4, <2>1
  <2>3. /\ chunk_size'[p] = len /\ task_ind'[p] = n
        /\ \A q \in Thread : q # p => /\ chunk_size'[q] = chunk_size[q]
                                      /\ task_ind'[q] = task_ind[q]
    BY <1>0, <2>1 DEF PoolType
  <2>4. PoolType'
    <3>1. map_data_count' \in Nat
      BY <1>3
    <3> QED BY <1>0, <1>1, <1>3, <2>1, <2>L, <3>1 DEF PoolType, MainLabel, RunnerLabel
  <2>5. Request'
    <3>1. pc[Main] \notin {"init", "idle", "wait"}
      BY <1>0, <1>3, <1>6 DEF Request
    <3> QED BY <1>0, <1>1, <1>2, <2>2, <3>1 DEF Request, Working, MapOn
  <2>6. Tids'
    <3>1. \A q \in Thread : pc'[q] \in Working <=> pc[q] \in Working
      BY <1>1, <2>2 DEF Working
    <3> QED BY <1>0, <1>1, <1>2, <2>1, <2>2, <3>1 DEF Tids
  <2>7. CountBounded'
    <3>1. Left' = Left
      BY <1>0, <1>1, <2>2 DEF Left
    <3>2. n + cs <= map_data_size + IntMax * (1 + Cardinality(Left))
      BY <1>0, <1>1, <1>2, <1>6, <1>c, CountGrows
    <3> QED BY <1>1, <1>3, <3>1, <3>2 DEF CountBounded
  <2>8. \A q \in Thread : q # p => /\ pc'[q] = "call" <=> pc[q] = "call"
                                   /\ pc'[q] = "get" <=> pc[q] = "get"
                                   /\ chunk_size'[q] = chunk_size[q]
                                   /\ task_ind'[q] = task_ind[q]
    BY <2>2, <2>3
  <2>9. ChunksApart'
    <3>1. ASSUME NEW q \in Thread, q # p, pc[q] = "call"
          PROVE  task_ind[q] + chunk_size[q] <= n /\ task_ind[q] + chunk_size[q] <= n + cs
      <4>1. task_ind[q] + chunk_size[q] <= n /\ task_ind[q] \in Nat /\ chunk_size[q] \in Nat
        BY <1>0, <3>1 DEF ChunksApart, PoolType
      <4> QED BY <1>3, <4>1
    <3>2. \A q \in Thread : pc'[q] = "get" => chunk_size'[q] \in 1..IntMax
      BY <1>0, <2>2, <2>8 DEF ChunksApart
    <3>3. ASSUME NEW q \in Thread, pc'[q] = "call"
          PROVE  /\ chunk_size'[q] \in 1..IntMax
                 /\ task_ind'[q] + chunk_size'[q] <= map_data_size
                 /\ task_ind'[q] + chunk_size'[q] <= map_data_count'
      <4>1. CASE q = p
        BY <1>3, <2>3, <2>L, <4>1
      <4>2. CASE q # p
        BY <1>0, <1>3, <2>8, <3>1, <3>3, <4>2 DEF ChunksApart
      <4> QED BY <4>1, <4>2
    <3>4. ASSUME NEW q \in Thread, NEW o \in Thread, q # o, pc'[q] = "call", pc'[o] = "call"
          PROVE  \/ task_ind'[q] + chunk_size'[q] <= task_ind'[o]
                 \/ task_ind'[o] + chunk_size'[o] <= task_ind'[q]
      <4>1. CASE q = p
        BY <2>3, <2>8, <3>1, <3>4, <4>1
      <4>2. CASE o = p
        BY <2>3, <2>8, <3>1, <3>4, <4>2
      <4>3. CASE q # p /\ o # p
        BY <1>0, <2>8, <3>4, <4>3 DEF ChunksApart
      <4> QED BY <4>1, <4>2, <4>3
    <3> QED BY <1>1, <3>2, <3>3, <3>4 DEF ChunksApart
  <2>10. CallsSoFar'
    <3>1. ASSUME NEW e \in Element, NEW q \in Thread, q # p PROVE InChunk(q, e)' <=> InChunk(q, e)
      BY <2>8, <3>1 DEF InChunk
    <3>2. ASSUME NEW e \in Element
          PROVE  /\ InChunk(p, e)' <=> n <= e /\ e < n + len
                 /\ ~ InChunk(p, e)
      BY <1>1, <1>3, <1>e, <2>2, <2>3, <2>L DEF InChunk
    <3>3. ASSUME NEW e \in Element
          PROVE  (e < n /\ e < map_data_size /\ ~ \E q \in Thread : InChunk(q, e))
             <=> (e < map_data_count' /\ e < map_data_size' /\ ~ \E q \in Thread : InChunk(q, e)')
      <4>1. (e < map_data_count' /\ e < map_data_size' /\ ~ InChunk(p, e)') <=> (e < n /\ e < map_data_size)
        BY <1>1, <1>3, <1>6, <1>e, <2>L, <3>2
      <4> QED BY <3>1, <3>2, <4>1
    <3> QED BY <1>0, <1>1, <3>3 DEF CallsSoFar
  <2> QED BY <1>a, <2>2, <2>4, <2>5, <2>6, <2>7, <2>9, <2>10 DEF PoolInv
<1> QED BY <1>3, <1>5, <1>6

-----------------------------------------------------------------------------
(***************************************************************************)
(* The barriers.  Threads go through one after they were woken, or all     *)
(* threads are at it and it opens: then all of them change sides.          *)
(***************************************************************************)
WokenOnly(S) == (\A q \in S : q \in woken) /\ \A q \in Thread : Resting(q)' <=> Resting(q)

AllToRest == \A q \in Thread : AtBarrier(q) = "wait" /\ Resting(q)'

AllToWork == \A q \in Thread : AtBarrier(q) = "run" /\ Resting(q) /\ ~ Resting(q)'

LEMMA ThroughStep ==
  ASSUME PoolInv, num_threads > 1, NEW S \in SUBSET Thread, LetThrough(S),
         \A q \in S : AtBarrier(q) # "none",
         WokenOnly(S) \/ AllToRest \/ AllToWork,
         asleep' \subseteq Thread, woken' \subseteq Thread, count' \in [{"run", "wait"} -> Nat],
         Barriers', Together',
         UNCHANGED <<request, map_data_count, num_threads_running, chunk_size, task_ind, calls>>
  PROVE  PoolInv'
<1>0. /\ PoolType /\ Barriers /\ Together /\ Request /\ Tids /\ CountBounded /\ ChunksApart
      /\ CallsSoFar
      /\ Main \in Thread /\ Runner \subseteq Thread /\ Main \notin Runner
      /\ Thread = Runner \cup {Main}
  BY ThreadFacts DEF PoolInv
<1>1. UNCHANGED <<num_threads, posix, map_data_size, map_data_chunk, map_function, map_data_count,
                  num_threads_running, chunk_size, task_ind, calls>>
  BY DEF request
<1>2. \A q \in S : pc[q] \in {"init", "wait", "run", "clean"}
  BY AtBarrierIs
<1>3. /\ \A q \in Thread : q \notin S => pc'[q] = pc[q]
      /\ \A q \in S : pc'[q] = Beyond(q)
      /\ DOMAIN pc' = Thread
  BY DEF LetThrough
<1>4. Main \in S => \/ pc[Main] = "clean" /\ pc'[Main] = "join"
                    \/ pc[Main] \in {"init", "wait"} /\ pc'[Main] = "idle"
                    \/ pc[Main] = "run" /\ pc'[Main] = "size"
  BY <1>2, <1>3, BeyondIs
<1>5. \A r \in Runner : r \in S => \/ pc[r] = "wait" /\ pc'[r] = "run"
                                   \/ pc[r] = "run" /\ pc'[r] = "test"
  <2>1. ASSUME NEW r \in Runner, r \in S
        PROVE  \/ pc[r] = "wait" /\ pc'[r] = "run"
               \/ pc[r] = "run" /\ pc'[r] = "test"
    <3>1. pc[r] \in {"wait", "run"} /\ r # Main /\ pc'[r] = Beyond(r)
      BY <1>0, <1>2, <1>3, <2>1 DEF PoolType, RunnerLabel
    <3> QED BY <3>1, BeyondIs
  <2> QED BY <2>1
<1>6. /\ tid' \in [Thread -> Int]
      /\ \A r \in Runner : tid'[r] = tid[r]
      /\ pc'[Main] = "size" /\ Main \in S => tid'[Main] = num_threads - 1
      /\ Main \notin S => tid'[Main] = tid[Main]
  <2>1. num_threads - 1 \in Int
    BY <1>0 DEF PoolType
  <2>2. CASE Main \in S /\ pc[Main] = "run"
    <3>1. tid' = [tid EXCEPT ![Main] = num_threads - 1]
      BY <2>2 DEF LetThrough
    <3> QED BY <1>0, <2>1, <2>2, <3>1 DEF PoolType
  <2>3. CASE ~ (Main \in S /\ pc[Main] = "run")
    <3>1. tid' = tid
      BY <2>3 DEF LetThrough
    <3> QED BY <1>0, <1>4, <2>3, <3>1 DEF PoolType
  <2> QED BY <2>2, <2>3
<1>7. PoolType'
  <2>1. pc'[Main] \in MainLabel
    BY <1>0, <1>3, <1>4 DEF PoolType, MainLabel
  <2>2. \A r \in Runner : pc'[r] \in RunnerLabel
    BY <1>0, <1>3, <1>5 DEF PoolType, RunnerLabel
  <2>3. pc' \in [Thread -> MainLabel \cup RunnerLabel]
    <3>1. \A q \in Thread : pc'[q] \in MainLabel \cup RunnerLabel
      BY <1>0, <2>1, <2>2
    <3> QED BY <3>1 DEF LetThrough
  <2> QED BY <1>0, <1>1, <1>6, <2>1, <2>2, <2>3 DEF PoolType
<1>8. \A q \in Thread : /\ pc'[q] = "call" <=> pc[q] = "call"
                        /\ pc'[q] = "get" <=> pc[q] = "get"
  BY <1>0, <1>3, <1>4, <1>5
<1>9. (ChunksApart /\ CallsSoFar)'
  BY <1>0, <1>1, <1>8 DEF ChunksApart, CallsSoFar, InChunk
<1>10. Alone'
  BY <1>0, <1>1 DEF Alone
<1>11. Request'
  <2>1. pc'[Main] = "run" => pc[Main] = "run" /\ Main \notin S
    BY <1>0, <1>3, <1>4
  <2>2. pc'[Main] = "run" /\ Resting(Main)' => Resting(Main)
    BY <1>0, <2>1, AtBarrierIs DEF WokenOnly, AllToRest, AllToWork
  <2>3. pc'[Main] \in Working => pc[Main] \in Working \cup {"run"}
    BY <1>0, <1>3, <1>4 DEF Working
  <2>4. pc'[Main] \in {"init", "clean", "join", "gone"} =>
          pc[Main] \in {"init", "clean", "join", "gone"}
    BY <1>0, <1>3, <1>4
  <2>5. \A r \in Runner : pc'[r] \in {"tid"} \cup Working => pc[r] \in {"tid"} \cup Working
    BY <1>0, <1>3, <1>5 DEF Working
  <2>6. pc'[Main] \in {"init", "idle", "wait"} => pc[Main] \in {"init", "idle", "wait"}
    BY <1>0, <1>3, <1>4
  <2> QED BY <1>0, <1>1, <2>1, <2>2, <2>3, <2>4, <2>5, <2>6 DEF Request
<1>12. CASE WokenOnly(S)
  <2>1. SUFFICES ASSUME MapOn' PROVE Tids' /\ CountBounded'
    BY <1>1, <1>7, <1>9, <1>10, <1>11, <2>1 DEF PoolInv, Tids, CountBounded
  <2>2. MapOn /\ \A q \in Thread : ~ Resting(q)
    BY <1>0, <1>1, <1>12, <2>1 DEF MapOn, WokenOnly, Together
  <2>3. \A q \in S : pc[q] \in {"run", "clean"}
    BY <1>2, <1>12, <2>2 DEF WokenOnly, Resting
  <2>4. Taken' = Taken /\ Left' = Left
    <3>1. \A q \in Thread : pc'[q] = "wait" <=> pc[q] = "wait"
      BY <1>0, <1>3, <1>4, <1>5, <2>3
    <3>2. \A r \in Runner : pc'[r] = "size" <=> pc[r] = "size"
      BY <1>0, <1>3, <1>5
    <3> QED BY <1>0, <1>8, <3>1, <3>2 DEF Taken, Left
  <2>5. \A r \in Runner : pc'[r] \in Working <=> pc[r] \in Working
    BY <1>0, <1>3, <1>5 DEF Working
  <2>6. pc'[Main] \in Working => tid'[Main] = num_threads - 1
    BY <1>0, <1>3, <1>4, <1>6, <2>2 DEF Tids, Working
  <2>7. Tids'
    BY <1>0, <1>1, <1>6, <2>2, <2>4, <2>5, <2>6 DEF Tids
  <2> QED BY <1>0, <1>1, <2>2, <2>4, <2>7 DEF CountBounded
<1>13. CASE AllToRest
  <2>1. ~ MapOn'
    BY <1>0, <1>13 DEF AllToRest, MapOn
  <2> QED BY <1>7, <1>9, <1>10, <1>11, <2>1 DEF PoolInv, Tids, CountBounded
<1>14. CASE AllToWork
  <2>1. SUFFICES ASSUME MapOn' PROVE Tids' /\ CountBounded'
    BY <1>1, <1>7, <1>9, <1>10, <1>11, <2>1 DEF PoolInv, Tids, CountBounded
  <2>2. \A q \in Thread : pc[q] \in {"run", "clean"}
    BY <1>14, AtBarrierIs DEF AllToWork
  <2>3. pc[Main] = "run" /\ Resting(Main)
    BY <1>0, <1>1, <1>14, <2>1, <2>2 DEF AllToWork, MapOn, Request
  <2>4. map_data_count' = 0 /\ num_threads_running' = 0
    BY <1>0, <1>1, <2>3 DEF Request
  <2>5. \A r \in Runner : pc'[r] \in {"run", "test"}
    BY <1>0, <1>3, <1>5, <2>2 DEF PoolType, RunnerLabel
  <2>6. pc'[Main] = "run" \/ (pc'[Main] = "size" /\ Main \in S)
    BY <1>0, <1>3, <1>4, <2>3
  <2>7. Taken' = {} /\ Left' = {}
    BY <1>0, <2>5, <2>6 DEF Taken, Left
  <2>8. Cardinality(Taken') = 0 /\ Cardinality(Left') = 0
    BY <2>7, FS_EmptySet
  <2>9. Tids'
    BY <1>1, <1>6, <2>4, <2>5, <2>6, <2>8 DEF Tids, Working
  <2>10. 0 <= map_data_size + IntMax * (1 + 0)
    BY <1>0, SizeAssumption DEF PoolType, Fits
  <2> QED BY <1>1, <2>4, <2>8, <2>9, <2>10 DEF CountBounded
<1> QED BY <1>12, <1>13, <1>14

LEMMA OpenStep ==
  ASSUME PoolInv, num_threads > 1, NEW b \in {"run", "wait"}, Open(b)
  PROVE  PoolInv'
<1>0. /\ PoolType /\ Barriers /\ Together
      /\ Main \in Thread /\ Runner \subseteq Thread /\ Main \notin Runner
  BY ThreadFacts DEF PoolInv
<1>1. /\ posix /\ asleep = {} /\ woken = {} /\ \A q \in Thread : AtBarrier(q) = b
      /\ LetThrough(Thread)
      /\ UNCHANGED <<request, count, asleep, woken, map_data_count, num_threads_running,
                     chunk_size, task_ind, calls>>
  BY <1>0 DEF Open, Barriers, barriers
<1>2. UNCHANGED <<num_threads, posix>>
  BY <1>1 DEF request
<1>3. \A q \in Thread : pc'[q] = Beyond(q)
  BY <1>1 DEF LetThrough
<1>4. Barriers'
  <2>1. \A c \in {"run", "wait"} : Sleepers(c) = {} /\ Sleepers(c)' = {}
    BY <1>1 DEF Sleepers
  <2> QED BY <1>0, <1>1, <1>2, <2>1 DEF Barriers
<1>5. CASE b = "wait"
  <2>1. \A q \in Thread : pc[q] \in {"init", "wait"}
    BY <1>1, <1>5, AtBarrierIs
  <2>2. \A q \in Thread : pc'[q] \in {"idle", "run"}
    BY <1>3, <2>1, BeyondIs
  <2>3. \A q \in Thread : Resting(q)'
    BY <1>1, <2>2 DEF Resting
  <2> QED BY <1>0, <1>1, <1>4, <1>5, <2>3, ThroughStep DEF AllToRest, Together, PoolType
<1>6. CASE b = "run"
  <2>1. \A q \in Thread : pc[q] \in {"run", "clean"}
    BY <1>1, <1>6, AtBarrierIs
  <2>2. \A q \in Thread : pc'[q] \in {"size", "test", "join"}
    BY <1>3, <2>1, BeyondIs
  <2>3. \A q \in Thread : Resting(q) /\ ~ Resting(q)'
    BY <1>1, <2>1, <2>2 DEF Resting
  <2> QED BY <1>0, <1>1, <1>4, <1>6, <2>3, ThroughStep DEF AllToWork, Together, PoolType
<1> QED BY <1>5, <1>6

LEMMA LeaveStep ==
  ASSUME PoolInv, num_threads > 1, NEW p \in Thread, BarrierLeave(p)
  PROVE  PoolInv'
<1>0. /\ PoolType /\ Barriers /\ Together
      /\ Main \in Thread /\ Runner \subseteq Thread /\ Main \notin Runner
  BY ThreadFacts DEF PoolInv
<1>1. /\ p \in woken /\ woken' = woken \ {p} /\ LetThrough({p})
      /\ UNCHANGED <<request, count, asleep, map_data_count, num_threads_running,
                     chunk_size, task_ind, calls>>
  BY DEF BarrierLeave
<1>2. UNCHANGED <<num_threads, posix>>
  BY <1>1 DEF request
<1>3. pc'[p] = Beyond(p) /\ \A q \in Thread : q # p => pc'[q] = pc[q]
  BY <1>1 DEF LetThrough
<1>4. pc[p] \in {"init", "wait", "run", "clean"} /\ AtBarrier(p) # "none"
  BY <1>0, <1>1, AtBarrierIs DEF Barriers
<1>5. \A q \in Thread : q # p => AtBarrier(q)' = AtBarrier(q)
  BY <1>2, <1>3, AtBarrierSame
<1>6. Barriers'
  <2>1. p \notin asleep
    BY <1>0, <1>1 DEF Barriers
  <2>2. \A q \in asleep \cup woken' : q \in Thread /\ AtBarrier(q)' = AtBarrier(q)
    BY <1>0, <1>1, <1>5, <2>1 DEF PoolType
  <2>3. \A c \in {"run", "wait"} : Sleepers(c)' = Sleepers(c)
    BY <1>1, <2>2 DEF Sleepers
  <2> QED BY <1>0, <1>1, <1>2, <2>2, <2>3 DEF Barriers
<1>7. Resting(p)' <=> Resting(p)
  <2>1. CASE pc[p] \in {"init", "wait"}
    <3>1. pc'[p] \in {"idle", "run"}
      BY <1>3, <2>1, BeyondIs
    <3> QED BY <1>1, <2>1, <3>1 DEF Resting
  <2>2. CASE pc[p] \in {"run", "clean"}
    <3>1. pc'[p] \in {"size", "test", "join"}
      BY <1>3, <2>2, BeyondIs
    <3> QED BY <1>1, <2>2, <3>1 DEF Resting
  <2> QED BY <1>4, <2>1, <2>2
<1>8. \A q \in Thread : Resting(q)' <=> Resting(q)
  <2>1. \A q \in Thread : q # p => (Resting(q)' <=> Resting(q))
    BY <1>1, <1>3 DEF Resting
  <2> QED BY <1>7, <2>1
<1>9. Together'
  BY <1>0, <1>2, <1>8 DEF Together
<1>10. WokenOnly({p})
  BY <1>1, <1>8 DEF WokenOnly
<1>11. woken' \subseteq Thread /\ asleep' \subseteq Thread /\ count' \in [{"run", "wait"} -> Nat]
  BY <1>0, <1>1 DEF PoolType
<1> QED BY <1>1, <1>4, <1>6, <1>9, <1>10, <1>11, ThroughStep

LEMMA WaitStep ==
  ASSUME PoolInv, num_threads > 1, NEW p \in Thread, BarrierWait(p)
  PROVE  PoolInv'
<1> DEFINE b == AtBarrier(p)
<1>0. /\ PoolType /\ Barriers /\ Together
      /\ Main \in Thread /\ Runner \subseteq Thread /\ Main \notin Runner
      /\ IsFiniteSet(Thread)
  BY ThreadFacts DEF PoolInv
<1>1. /\ ~ posix /\ b # "none" /\ p \notin asleep /\ p \notin woken
      /\ UNCHANGED <<request, map_data_count, num_threads_running, chunk_size, task_ind, calls>>
  BY DEF BarrierWait
<1>2. UNCHANGED <<num_threads, posix, map_data_size, map_data_chunk, map_function>>
  BY <1>1 DEF request
<1>3. b \in {"run", "wait"}
  BY <1>1, AtBarrierIs
<1>4. /\ Sleepers(b) \subseteq Thread /\ IsFiniteSet(Sleepers(b)) /\ p \notin Sleepers(b)
      /\ Cardinality(Sleepers(b)) \in Nat /\ count[b] = Cardinality(Sleepers(b))
      /\ Cardinality(Sleepers(b) \cup {p}) = count[b] + 1
      /\ num_threads = Cardinality(Thread) /\ num_threads \in Nat
  <2>1. Sleepers(b) \subseteq Thread /\ p \notin Sleepers(b)
    BY <1>0, <1>1 DEF Sleepers, PoolType
  <2>2. IsFiniteSet(Sleepers(b))
    BY <1>0, <2>1, FS_Subset
  <2>3. count[b] = Cardinality(Sleepers(b))
    BY <1>0, <1>3 DEF Barriers
  <2> HIDE DEF b
  <2> QED BY <1>0, <2>1, <2>2, <2>3, FS_AddElement, FS_CardinalityType DEF PoolType
<1>5. CASE count[b] + 1 < num_threads
  <2>1. /\ count' = [count EXCEPT ![b] = @ + 1] /\ asleep' = asleep \cup {p}
        /\ UNCHANGED <<woken, pc, tid>>
    BY <1>4, <1>5 DEF BarrierWait
  <2>2. \A q \in Thread : AtBarrier(q)' = AtBarrier(q)
    BY <1>2, <2>1, AtBarrierSame
  <2>3. /\ count' \in [{"run", "wait"} -> Nat] /\ count'[b] = count[b] + 1
        /\ \A c \in {"run", "wait"} : c # b => count'[c] = count[c]
    <3> HIDE DEF b
    <3> QED BY <1>0, <1>3, <2>1 DEF PoolType
  <2>4. PoolType'
    <3>1. asleep' \subseteq Thread
      BY <1>0, <2>1 DEF PoolType
    <3> QED BY <1>0, <1>1, <1>2, <2>1, <2>3, <3>1 DEF PoolType
  <2>5. \A c \in {"run", "wait"} :
          Sleepers(c)' = IF c = b THEN Sleepers(c) \cup {p} ELSE Sleepers(c)
    <3>1. \A q \in asleep' : AtBarrier(q)' = AtBarrier(q)
      BY <1>0, <2>1, <2>2 DEF PoolType
    <3> QED BY <2>1, <3>1 DEF Sleepers
  <2>6. Barriers'
    <3>1. \A c \in {"run", "wait"} : count'[c] = Cardinality(Sleepers(c)')
      <4> HIDE DEF b
      <4> QED BY <1>0, <1>4, <2>3, <2>5 DEF Barriers
    <3>2. \A q \in asleep' \cup woken' : AtBarrier(q)' # "none"
      BY <1>0, <1>1, <2>1, <2>2 DEF Barriers, PoolType
    <3>3. asleep' \cap woken' = {}
      BY <1>0, <1>1, <2>1 DEF Barriers
    <3> QED BY <1>1, <1>2, <3>1, <3>2, <3>3 DEF Barriers
  <2>7. \A q \in Thread : Resting(q)' <=> Resting(q)
    BY <2>1 DEF Resting
  <2>8. (Together /\ Request /\ Tids /\ CountBounded /\ ChunksApart /\ CallsSoFar /\ Alone)'
    <3>1. (MapOn' <=> MapOn) /\ Taken' = Taken /\ Left' = Left
      BY <1>0, <1>1, <1>2, <2>1, <2>7 DEF MapOn, Taken, Left
    <3>2. Together' /\ Request'
      BY <1>0, <1>1, <1>2, <2>1, <2>7 DEF PoolInv, Together, Request
    <3>3. Tids' /\ CountBounded'
      BY <1>1, <1>2, <2>1, <3>1 DEF PoolInv, Tids, CountBounded
    <3>4. ChunksApart' /\ CallsSoFar' /\ Alone'
      BY <1>1, <1>2, <2>1 DEF PoolInv, ChunksApart, CallsSoFar, Alone, InChunk
    <3> QED BY <3>2, <3>3, <3>4
  <2> QED BY <2>4, <2>6, <2>8 DEF PoolInv
<1>6. CASE count[b] + 1 >= num_threads
  <2>1. /\ count' = [count EXCEPT ![b] = 0]
        /\ woken' = woken \cup {q \in asleep : AtBarrier(q) = AtBarrier(p)}
        /\ asleep' = {q \in asleep : AtBarrier(q) # AtBarrier(p)}
        /\ LetThrough({p})
    BY <1>4, <1>6 DEF BarrierWait
  <2>2. Sleepers(b) \cup {p} = Thread
    <3>1. Sleepers(b) \cup {p} \subseteq Thread
      BY <1>4
    <3>2. Cardinality(Sleepers(b) \cup {p}) <= Cardinality(Thread)
      BY <1>0, <3>1, FS_Subset
    <3>3. Cardinality(Sleepers(b) \cup {p}) = Cardinality(Thread)
      BY <1>4, <1>6, <3>2
    <3> QED BY <1>0, <3>1, <3>3, FS_Subset
  <2>3. \A q \in Thread : AtBarrier(q) = b /\ (q # p => q \in asleep)
    BY <2>2 DEF Sleepers
  <2>4. asleep = Thread \ {p} /\ woken = {}
    <3>1. asleep = Thread \ {p}
      BY <1>0, <1>1, <2>3 DEF PoolType
    <3> QED BY <1>0, <1>1, <3>1 DEF PoolType, Barriers
  <2>5. asleep' = {} /\ woken' = Thread \ {p}
    BY <2>1, <2>3, <2>4
  <2>6. pc'[p] = Beyond(p) /\ \A q \in Thread : q # p => pc'[q] = pc[q]
    BY <2>1 DEF LetThrough
  <2>7. \A q \in Thread : q # p => AtBarrier(q)' = AtBarrier(q)
    BY <1>2, <2>6, AtBarrierSame
  <2>8. count' \in [{"run", "wait"} -> Nat] /\ \A c \in {"run", "wait"} : count'[c] = 0
    <3>1. ASSUME NEW c \in {"run", "wait"}, c # b PROVE count[c] = 0
      <4>1. Sleepers(c) = {}
        BY <2>3, <2>4, <3>1 DEF Sleepers
      <4> QED BY <1>0, <4>1, FS_EmptySet DEF Barriers
    <3> HIDE DEF b
    <3> QED BY <1>0, <1>3, <2>1, <3>1 DEF PoolType
  <2>9. Barriers'
    <3>1. \A c \in {"run", "wait"} : Sleepers(c)' = {}
      BY <2>5 DEF Sleepers
    <3>2. \A c \in {"run", "wait"} : count'[c] = Cardinality(Sleepers(c)')
      BY <2>8, <3>1, FS_EmptySet
    <3>3. \A q \in asleep' \cup woken' : AtBarrier(q)' # "none"
      BY <1>1, <2>3, <2>5, <2>7
    <3> QED BY <1>1, <1>2, <2>5, <3>2, <3>3 DEF Barriers
  <2>10. woken' \subseteq Thread /\ asleep' \subseteq Thread
    BY <2>5
  <2>11. CASE b = "wait"
    <3>1. \A q \in Thread : pc[q] \in {"init", "wait"} /\ AtBarrier(q) = "wait"
      BY <2>3, <2>11, AtBarrierIs
    <3>2. pc'[p] \in {"idle", "run"}
      BY <2>6, <3>1, BeyondIs
    <3>3. Resting(p)'
      BY <2>5, <3>2 DEF Resting
    <3>4. \A q \in Thread : q # p => Resting(q)'
      BY <2>5, <2>6, <3>1 DEF Resting
    <3>5. AllToRest /\ Together'
      BY <3>1, <3>3, <3>4 DEF AllToRest, Together
    <3> HIDE DEF b
    <3> QED BY <1>1, <2>1, <2>8, <2>9, <2>10, <3>1, <3>5, ThroughStep
  <2>12. CASE b = "run"
    <3>1. \A q \in Thread : pc[q] \in {"run", "clean"} /\ AtBarrier(q) = "run"
      BY <2>3, <2>12, AtBarrierIs
    <3>2. pc'[p] \in {"size", "test", "join"}
      BY <2>6, <3>1, BeyondIs
    <3>3. ~ Resting(p)'
      BY <2>5, <3>2 DEF Resting
    <3>4. \A q \in Thread : q # p => ~ Resting(q)'
      BY <2>5, <2>6, <3>1 DEF Resting
    <3>5. \A q \in Thread : Resting(q)
      BY <2>4, <3>1 DEF Resting
    <3>6. AllToWork /\ Together'
      BY <3>1, <3>3, <3>4, <3>5 DEF AllToWork, Together
    <3> HIDE DEF b
    <3> QED BY <1>1, <2>1, <2>8, <2>9, <2>10, <3>1, <3>6, ThroughStep
  <2> QED BY <1>3, <2>11, <2>12
<1> QED BY <1>4, <1>5, <1>6

LEMMA PoolKept ==
  ASSUME PoolInv, PoolAct \/ UNCHANGED vars
  PROVE  PoolInv'
<1>1. CASE UNCHANGED vars
  <2>1. UNCHANGED <<num_threads, posix, count, asleep, woken, map_data_size, map_data_count,
                    map_data_chunk, map_function, num_threads_running, pc, tid, chunk_size,
                    task_ind, calls>>
    BY <1>1 DEF vars, barriers
  <2>2. \A q \in Thread : Resting(q)' <=> Resting(q)
    BY <2>1 DEF Resting
  <2>3. /\ MapOn' <=> MapOn
        /\ Taken' = Taken /\ Left' = Left
    BY <2>1, <2>2, ThreadFacts DEF MapOn, Taken, Left
  <2>4. \A c \in {"run", "wait"} : Sleepers(c)' = Sleepers(c)
    BY <2>1 DEF Sleepers, AtBarrier
  <2>5. PoolType' /\ Barriers'
    <3>1. \A q : AtBarrier(q)' = AtBarrier(q)
      BY <2>1 DEF AtBarrier
    <3> QED BY <2>1, <2>4, <3>1 DEF PoolInv, PoolType, Barriers
  <2>6. Together' /\ Request' /\ Tids' /\ CountBounded'
    BY <2>1, <2>2, <2>3, ThreadFacts DEF PoolInv, Together, Request, Tids, CountBounded
  <2>7. ChunksApart' /\ CallsSoFar' /\ Alone'
    BY <2>1 DEF PoolInv, ChunksApart, CallsSoFar, Alone, InChunk
  <2> QED BY <2>5, <2>6, <2>7 DEF PoolInv
<1>2. CASE PoolAct /\ num_threads = 1
  BY <1>2, AloneStep
<1>3. CASE PoolAct /\ num_threads # 1
  <2>1. num_threads > 1
    BY <1>3 DEF PoolInv, PoolType
  <2>2. ~ CallAlone /\ \A n \in Nat : ~ MapAlone(n)
    BY <1>3 DEF CallAlone, MapAlone
  <2>3. Clean \/ Join => PoolInv'
    BY <2>1, CleanStep, JoinStep
  <2>4. Open("wait") \/ Open("run") => PoolInv'
    BY <2>1, OpenStep
  <2>5. \A n \in Nat, c \in Int : Fits(n) /\ Map(n, c) => PoolInv'
    BY <2>1, MapStep
  <2>6. \A p \in Thread : BarrierWait(p) \/ BarrierLeave(p) => PoolInv'
    BY <2>1, WaitStep, LeaveStep
  <2>7. \A p \in Thread : Size(p) \/ Get(p) \/ Call(p) => PoolInv'
    BY <2>1, SizeStep, GetStep, CallStep
  <2>8. \A r \in Runner : TestFunction(r) \/ TakeTid(r) => PoolInv'
    BY <2>1, TestStep, TidStep
  <2> QED BY <1>3, <2>2, <2>3, <2>4, <2>5, <2>6, <2>7, <2>8 DEF PoolAct
<1> QED BY <1>1, <1>2, <1>3

-----------------------------------------------------------------------------
(***************************************************************************)
(* The steps of a build are steps of the pool, or leave it alone.          *)
(***************************************************************************)
LEMMA AddFacts ==
  /\ NrAdds \in Nat /\ DOMAIN Adds = 0..(NrAdds - 1) /\ NrAdds \in Sizes
  /\ \A e \in 0..(NrAdds - 1) : e \in Element
  /\ \A n \in Nat : n <= NrAdds => Fits(n)
<1>1. NrAdds \in Sizes /\ DOMAIN Adds = 0..(NrAdds - 1)
  BY GraphAssumption
<1>2. Fits(NrAdds)
  BY <1>1, SizeAssumption
<1>3. NrAdds \in Nat
  BY <1>2 DEF Fits
<1>4. \A e \in 0..(NrAdds - 1) : e \in Element
  BY <1>1 DEF Element
<1>5. ASSUME NEW n \in Nat, n <= NrAdds PROVE Fits(n)
  <2>1. (Cardinality(Runner) + 2) * IntMax \in Nat /\ SizeMod \in Nat
    BY SizeAssumption, ThreadFacts
  <2> QED BY <1>2, <1>3, <1>5, <2>1 DEF Fits
<1> QED BY <1>1, <1>3, <1>4, <1>5

LEMMA BuildIsPool ==
  ASSUME PoolInv, BufferInv, BuildInv, BuildNext
  PROVE  PoolAct \/ UNCHANGED vars
<1>1. CASE Begin
  <2>1. \A n \in Sizes : n \in Nat /\ Fits(n)
    BY SizeAssumption DEF Fits
  <2>2. \A c \in Chunks : c \in Int
    BY SizeAssumption DEF auto_chunk_size, uniform_chunk_size
  <2> QED BY <1>1, <2>1, <2>2 DEF Begin, PoolAct
<1>2. CASE Clean \/ Open("wait") \/ Open("run") \/ CallAlone \/ Join
  BY <1>2 DEF PoolAct
<1>3. CASE Gone
  BY <1>3 DEF Gone
<1>4. CASE Caller
  <2>1. auto_chunk_size \in Int
    BY DEF auto_chunk_size
  <2>2. nr_unlocks \in Nat /\ Fits(nr_unlocks) /\ NrAdds \in Nat /\ Fits(NrAdds)
    BY AddFacts, SizeAssumption DEF BufferInv, BufferType, BuildInv, AddsCounted
  <2>3. StartAdds \/ StartCounts \/ StartSorts => PoolAct
    <3>1. StartAdds => Map(NrAdds, auto_chunk_size)
      BY DEF StartAdds
    <3>2. StartCounts \/ StartSorts => Map(nr_unlocks, auto_chunk_size)
      BY DEF StartCounts, StartSorts
    <3> QED BY <2>1, <2>2, <3>1, <3>2 DEF PoolAct
  <2>4. SetUnlocks \/ RankTasks => UNCHANGED vars
    <3>1. SetUnlocks => UNCHANGED vars
      BY DEF SetUnlocks
    <3>2. RankTasks => UNCHANGED vars
      BY DEF RankTasks
    <3> QED BY <3>1, <3>2
  <2> QED BY <1>4, <2>3, <2>4 DEF Caller
<1>5. ASSUME NEW p \in Thread, PoolStep(p) PROVE PoolAct
  BY <1>5 DEF PoolStep, PoolAct
<1>6. ASSUME NEW p \in Thread, MapperStep(p) PROVE PoolAct \/ UNCHANGED vars
  <2>1. Return(p) => PoolAct
    BY DEF Return, PoolAct
  <2>2. AddUnlock(p) => UNCHANGED vars
    BY DEF AddUnlock
  <2>3. InAddUnlock(p) => UNCHANGED vars
    BY DEF InAddUnlock
  <2>4. CountUnlock(p) => UNCHANGED vars
    BY DEF CountUnlock
  <2>5. SortUnlock(p) => UNCHANGED vars
    BY DEF SortUnlock
  <2> QED BY <1>6, <2>1, <2>2, <2>3, <2>4, <2>5 DEF MapperStep
<1> QED BY <1>1, <1>2, <1>3, <1>4, <1>5, <1>6 DEF BuildNext, Pool

-----------------------------------------------------------------------------
(***************************************************************************)
(* The dependency buffer: the steps of a call.                             *)
(***************************************************************************)
(* The thread is in its call before and after the step. *)
Goes(p, l) ==
  /\ upc[p] # "idle" /\ l \in Label \ {"idle"}
  /\ upc' = [upc EXCEPT ![p] = l]
  /\ UNCHANGED <<nr_unlocks, ind, completed_unlock_writes>>

LEMMA GoesKeeps ==
  ASSUME BufferInv, NEW p \in Thread, NEW l, Goes(p, l)
  PROVE  /\ upc' \in [Thread -> Label]
         /\ upc'[p] = l /\ \A q \in Thread : q # p => upc'[q] = upc[q]
         /\ IndexOwned'
         /\ Written' = Written
         /\ size_unlocks' = size_unlocks => WritesCounted'
<1>1. upc' \in [Thread -> Label] /\ upc'[p] = l /\ \A q \in Thread : q # p => upc'[q] = upc[q]
  BY DEF BufferInv, BufferType, Goes
<1>2. UNCHANGED <<nr_unlocks, ind, completed_unlock_writes>> /\ l # "idle" /\ upc[p] # "idle"
  BY DEF Goes
<1>3. \A q \in Thread : upc'[q] # "idle" <=> upc[q] # "idle"
  BY <1>1, <1>2
<1>4. IndexOwned'
  BY <1>2, <1>3 DEF BufferInv, IndexOwned
<1>5. Written' = Written
  BY <1>2, <1>3 DEF Written, Pending
<1>6. size_unlocks' = size_unlocks => WritesCounted'
  BY <1>2, <1>5 DEF BufferInv, WritesCounted
<1> QED BY <1>1, <1>4, <1>5, <1>6

(* Steps that leave the array alone. *)
LEMMA WalkKeeps ==
  ASSUME BufferInv, NEW p \in Thread, NEW l \in Label \ Installing, Goes(p, l),
         UNCHANGED <<size_unlocks, version, fresh>>, DOMAIN unlocks' = DOMAIN unlocks,
         upc[p] \notin {"publish", "publish2"},
         ptr' \in [Thread -> Nat], \A q \in Thread : q # p => ptr'[q] = ptr[q],
         l \in {"load", "store", "complete"} => ind[p] < size_unlocks,
         l = "guard" => ind[p] <= size_unlocks,
         l \in Growing => ind[p] = size_unlocks,
         l = "store" => ptr'[p] = version
  PROVE  BufferInv'
<1>1. /\ upc' \in [Thread -> Label]
      /\ upc'[p] = l /\ \A q \in Thread : q # p => upc'[q] = upc[q]
      /\ IndexOwned' /\ WritesCounted'
      /\ UNCHANGED <<nr_unlocks, ind, completed_unlock_writes>> /\ upc[p] # "idle"
  BY GoesKeeps DEF Goes
<1>2. BufferType'
  BY <1>1 DEF BufferInv, BufferType
<1>3. RoomChecked'
  BY <1>1 DEF BufferInv, RoomChecked
<1>4. NoneBelow'
  BY <1>1 DEF BufferInv, NoneBelow
<1>5. ArraySize'
  <2>1. \A q \in Thread : /\ upc'[q] \in {"publish", "publish2"} <=> upc[q] \in {"publish", "publish2"}
                          /\ upc'[q] \in {"swap", "swap2"} => upc[q] \in {"swap", "swap2"}
    BY <1>1 DEF Installing
  <2> QED BY <2>1 DEF BufferInv, ArraySize
<1>6. PointerCurrent'
  BY <1>1 DEF BufferInv, PointerCurrent
<1> QED BY <1>1, <1>2, <1>3, <1>4, <1>5, <1>6 DEF BufferInv

LEMMA WalkStep ==
  ASSUME BufferInv, NEW p \in Thread,
         \/ Buffer!Check(p) \/ Buffer!Spin(p) \/ Buffer!Guard(p) \/ Buffer!Load(p)
         \/ Buffer!Store(p)
  PROVE  BufferInv'
<1>0. /\ ind[p] \in Nat /\ size_unlocks \in Nat /\ version \in Nat /\ ptr \in [Thread -> Nat]
      /\ upc \in [Thread -> Label] /\ RoomChecked
  BY DEF BufferInv, BufferType
<1>1. CASE Buffer!Check(p)
  <2> DEFINE l == IF ind[p] = size_unlocks THEN "grow" ELSE "spin"
  <2>1. /\ upc[p] = "check" /\ upc' = [upc EXCEPT ![p] = l]
        /\ UNCHANGED <<nr_unlocks, size_unlocks, completed_unlock_writes, unlocks,
                       version, fresh, ind, dep, ptr>>
    BY <1>1 DEF Buffer!Check, Buffer!Goto
  <2>2. l \in {"grow", "spin"} /\ (l = "grow" => ind[p] = size_unlocks)
    OBVIOUS
  <2> HIDE DEF l
  <2>3. Goes(p, l) /\ l \in Label \ Installing
    BY <2>1, <2>2 DEF Goes, Label, Installing
  <2> QED BY <1>0, <2>1, <2>2, <2>3, WalkKeeps DEF Growing, Installing
<1>2. CASE Buffer!Spin(p)
  <2>1. /\ upc[p] = "spin" /\ (UNCHANGED upc \/ (ind[p] <= size_unlocks /\ upc' = [upc EXCEPT ![p] = "guard"]))
        /\ UNCHANGED <<nr_unlocks, size_unlocks, completed_unlock_writes, unlocks,
                       version, fresh, ind, dep, ptr>>
    BY <1>2 DEF Buffer!Spin, Buffer!Goto
  <2>2. CASE UNCHANGED upc
    <3>1. Goes(p, "spin") /\ "spin" \in Label \ Installing
      BY <1>0, <2>1, <2>2 DEF Goes, Label, Installing
    <3> QED BY <1>0, <2>1, <3>1, WalkKeeps DEF Growing, Installing
  <2>3. CASE ind[p] <= size_unlocks /\ upc' = [upc EXCEPT ![p] = "guard"]
    <3>1. Goes(p, "guard") /\ "guard" \in Label \ Installing
      BY <2>1, <2>3 DEF Goes, Label, Installing
    <3> QED BY <1>0, <2>1, <2>3, <3>1, WalkKeeps DEF Growing, Installing
  <2> QED BY <2>1, <2>2, <2>3
<1>3. CASE Buffer!Guard(p)
  <2> DEFINE l == IF ind[p] = size_unlocks THEN "grow2" ELSE "load"
  <2>1. /\ upc[p] = "guard" /\ upc' = [upc EXCEPT ![p] = l]
        /\ UNCHANGED <<nr_unlocks, size_unlocks, completed_unlock_writes, unlocks,
                       version, fresh, ind, dep, ptr>>
    BY <1>3 DEF Buffer!Guard, Buffer!Goto
  <2>2. /\ l \in {"grow2", "load"} /\ (l = "grow2" => ind[p] = size_unlocks)
        /\ (l = "load" => ind[p] < size_unlocks)
    BY <1>0, <2>1 DEF RoomChecked
  <2> HIDE DEF l
  <2>3. Goes(p, l) /\ l \in Label \ Installing
    BY <2>1, <2>2 DEF Goes, Label, Installing
  <2> QED BY <1>0, <2>1, <2>2, <2>3, WalkKeeps DEF Growing, Installing
<1>4. CASE Buffer!Load(p)
  <2>1. /\ upc[p] = "load" /\ upc' = [upc EXCEPT ![p] = "store"]
        /\ ptr' = [ptr EXCEPT ![p] = version]
        /\ UNCHANGED <<nr_unlocks, size_unlocks, completed_unlock_writes, unlocks,
                       version, fresh, ind, dep>>
    BY <1>4 DEF Buffer!Load, Buffer!Goto
  <2>2. /\ ptr' \in [Thread -> Nat] /\ ptr'[p] = version
        /\ \A q \in Thread : q # p => ptr'[q] = ptr[q]
    BY <1>0, <2>1
  <2>3. Goes(p, "store") /\ "store" \in Label \ Installing
    BY <2>1 DEF Goes, Label, Installing
  <2>4. ind[p] < size_unlocks
    BY <1>0, <2>1 DEF RoomChecked
  <2> QED BY <1>0, <2>1, <2>2, <2>3, <2>4, WalkKeeps DEF Growing, Installing
<1>5. CASE Buffer!Store(p)
  <2>1. /\ upc[p] = "store" /\ upc' = [upc EXCEPT ![p] = "complete"]
        /\ unlocks' = IF Buffer!Lands(p) THEN [unlocks EXCEPT ![ind[p]] = dep[p]] ELSE unlocks
        /\ UNCHANGED <<nr_unlocks, size_unlocks, completed_unlock_writes, version,
                       fresh, ind, dep, ptr>>
    BY <1>5 DEF Buffer!Store, Buffer!Goto
  <2>2. DOMAIN unlocks' = DOMAIN unlocks
    BY <2>1
  <2>3. Goes(p, "complete") /\ "complete" \in Label \ Installing
    BY <2>1 DEF Goes, Label, Installing
  <2>4. ind[p] < size_unlocks
    BY <1>0, <2>1 DEF RoomChecked
  <2> QED BY <1>0, <2>1, <2>2, <2>3, <2>4, WalkKeeps DEF Growing, Installing
<1> QED BY <1>1, <1>2, <1>3, <1>4, <1>5

(* The array is full when as many writes are complete as it has entries. *)
LEMMA FullBelow ==
  ASSUME BufferInv, completed_unlock_writes >= size_unlocks
  PROVE  \A q \in Thread : upc[q] # "idle" => ind[q] >= size_unlocks
<1>1. /\ size_unlocks \in Nat /\ completed_unlock_writes \in Nat
      /\ completed_unlock_writes = Cardinality(Written) /\ Written \subseteq 0..(size_unlocks - 1)
  BY DEF BufferInv, BufferType, WritesCounted
<1>2. IsFiniteSet(0..(size_unlocks - 1)) /\ Cardinality(0..(size_unlocks - 1)) = size_unlocks
  <2>1. 0 \in Int /\ size_unlocks - 1 \in Int
    BY <1>1
  <2>2. /\ IsFiniteSet(0..(size_unlocks - 1))
        /\ Cardinality(0..(size_unlocks - 1)) =
             IF 0 > size_unlocks - 1 THEN 0 ELSE (size_unlocks - 1) - 0 + 1
    BY <2>1, FS_Interval
  <2> QED BY <1>1, <2>2
<1>3. Written = 0..(size_unlocks - 1)
  <2>1. Cardinality(Written) <= Cardinality(0..(size_unlocks - 1))
    BY <1>1, <1>2, FS_Subset
  <2>2. Cardinality(Written) = Cardinality(0..(size_unlocks - 1))
    BY <1>1, <1>2, <2>1
  <2> QED BY <1>1, <1>2, <2>2, FS_Subset
<1>4. ASSUME NEW q \in Thread, upc[q] # "idle", ~ (ind[q] >= size_unlocks) PROVE FALSE
  <2>1. ind[q] \in Nat
    BY DEF BufferInv, BufferType
  <2>2. ind[q] \in 0..(size_unlocks - 1)
    BY <1>1, <1>4, <2>1
  <2>3. ind[q] \in Pending
    BY <1>4 DEF Pending
  <2> QED BY <1>3, <2>2, <2>3 DEF Written
<1> QED BY <1>4

LEMMA CopyStep ==
  ASSUME BufferInv, NEW p \in Thread, Buffer!Copy(p)
  PROVE  BufferInv'
<1>0. /\ ind[p] \in Nat /\ size_unlocks \in Nat /\ ptr \in [Thread -> Nat]
      /\ upc \in [Thread -> Label] /\ RoomChecked /\ completed_unlock_writes \in Nat
  BY DEF BufferInv, BufferType
<1>1. /\ upc[p] \in {"grow", "grow2"}
      /\ UNCHANGED <<nr_unlocks, size_unlocks, completed_unlock_writes, unlocks,
                     version, ind, dep, ptr>>
  BY DEF Buffer!Copy
<1>2. CASE completed_unlock_writes < size_unlocks
  <2>1. UNCHANGED <<fresh, upc>>
    BY <1>0, <1>2 DEF Buffer!Copy
  <2>2. Goes(p, upc[p])
    BY <1>0, <1>1, <2>1 DEF Goes, Label
  <2>3. upc[p] \in Label \ Installing /\ upc[p] \in Growing /\ ind[p] = size_unlocks
    BY <1>0, <1>1 DEF Label, Installing, Growing, RoomChecked
  <2> QED BY <1>0, <1>1, <2>1, <2>2, <2>3, WalkKeeps
<1>3. CASE completed_unlock_writes >= size_unlocks
  <2> DEFINE l == IF upc[p] = "grow" THEN "swap" ELSE "swap2"
  <2>1. fresh' = Buffer!Doubled /\ upc' = [upc EXCEPT ![p] = l]
    BY <1>0, <1>3 DEF Buffer!Copy, Buffer!Goto
  <2>2. l \in {"swap", "swap2"}
    OBVIOUS
  <2> HIDE DEF l
  <2>3. Goes(p, l)
    BY <1>1, <2>1, <2>2 DEF Goes, Label
  <2>4. /\ upc' \in [Thread -> Label]
        /\ upc'[p] = l /\ \A q \in Thread : q # p => upc'[q] = upc[q]
        /\ IndexOwned' /\ WritesCounted'
    BY <1>1, <2>3, GoesKeeps
  <2>5. BufferType'
    BY <1>1, <2>4 DEF BufferInv, BufferType
  <2>6. RoomChecked'
    <3>1. ind[p] = size_unlocks
      BY <1>0, <1>1 DEF RoomChecked, Growing
    <3> QED BY <1>0, <1>1, <2>2, <2>4, <3>1 DEF RoomChecked
  <2>7. \A q \in Thread : upc'[q] # "idle" => ind'[q] >= size_unlocks'
    BY <1>1, <1>3, <2>4, FullBelow
  <2>8. NoneBelow'
    BY <2>7 DEF NoneBelow
  <2>9. ArraySize'
    <3>1. DOMAIN fresh' = 0..(2 * size_unlocks - 1)
      BY <2>1 DEF Buffer!Doubled
    <3>2. \A q \in Thread : upc'[q] \in {"publish", "publish2"} <=> upc[q] \in {"publish", "publish2"}
      BY <1>1, <2>2, <2>4
    <3> QED BY <1>1, <3>1, <3>2 DEF BufferInv, ArraySize
  <2>10. PointerCurrent'
    BY <1>1, <2>2, <2>4 DEF BufferInv, PointerCurrent
  <2> QED BY <2>4, <2>5, <2>6, <2>8, <2>9, <2>10 DEF BufferInv
<1> QED BY <1>0, <1>2, <1>3

(* There is one index that doubles the array, and one thread with it. *)
LEMMA OneGrower ==
  ASSUME BufferInv, NEW p \in Thread, NEW q \in Thread, upc[p] \in Growing, upc[q] \in Growing
  PROVE  p = q
BY DEF BufferInv, IndexOwned, RoomChecked, Growing, Installing

LEMMA SwapStep ==
  ASSUME BufferInv, NEW p \in Thread, Buffer!Swap(p)
  PROVE  BufferInv'
<1> DEFINE l == IF upc[p] = "swap" THEN "publish" ELSE "publish2"
<1>0. /\ size_unlocks \in Nat /\ upc \in [Thread -> Label] /\ version \in Nat
      /\ \A q \in Thread : ind[q] \in Nat
  BY DEF BufferInv, BufferType
<1>1. /\ upc[p] \in {"swap", "swap2"} /\ upc' = [upc EXCEPT ![p] = l]
      /\ unlocks' = fresh /\ version' = version + 1
      /\ UNCHANGED <<nr_unlocks, size_unlocks, completed_unlock_writes, ind, dep, ptr>>
  BY DEF Buffer!Swap, Buffer!Goto
<1>2. l \in {"publish", "publish2"}
  OBVIOUS
<1> HIDE DEF l
<1>3. Goes(p, l)
  BY <1>1, <1>2 DEF Goes, Label
<1>4. /\ upc' \in [Thread -> Label]
      /\ upc'[p] = l /\ \A q \in Thread : q # p => upc'[q] = upc[q]
      /\ IndexOwned' /\ WritesCounted'
  BY <1>1, <1>3, GoesKeeps
<1>5. BufferType'
  BY <1>0, <1>1, <1>4 DEF BufferInv, BufferType
<1>6. RoomChecked'
  BY <1>1, <1>2, <1>4 DEF BufferInv, RoomChecked, Growing, Installing
<1>7. \A q \in Thread : upc[q] # "idle" => ind[q] >= size_unlocks
  BY <1>1 DEF BufferInv, NoneBelow, Installing
<1>8. NoneBelow'
  <2>1. \A q \in Thread : upc'[q] # "idle" => ind'[q] >= size_unlocks'
    BY <1>1, <1>4, <1>7
  <2> QED BY <2>1 DEF NoneBelow
<1>9. ArraySize'
  <2>1. DOMAIN unlocks' = 0..(2 * size_unlocks - 1)
    BY <1>1 DEF BufferInv, ArraySize
  <2>2. \A q \in Thread : upc'[q] \notin {"swap", "swap2"}
    <3>1. \A q \in Thread : q # p => upc[q] \notin {"swap", "swap2"}
      BY <1>1, OneGrower DEF Growing, Installing
    <3> QED BY <1>2, <1>4, <3>1
  <2> QED BY <1>1, <1>2, <1>4, <2>1, <2>2 DEF ArraySize
<1>10. PointerCurrent'
  <2>1. \A q \in Thread : upc[q] # "store"
    BY <1>0, <1>7 DEF BufferInv, RoomChecked
  <2> QED BY <1>2, <1>4, <2>1 DEF PointerCurrent
<1> QED BY <1>4, <1>5, <1>6, <1>8, <1>9, <1>10 DEF BufferInv

LEMMA PublishStep ==
  ASSUME BufferInv, NEW p \in Thread, Buffer!Publish(p)
  PROVE  BufferInv'
<1> DEFINE l == IF upc[p] = "publish" THEN "spin" ELSE "load"
<1>0. /\ size_unlocks \in Nat \ {0} /\ upc \in [Thread -> Label] /\ version \in Nat
      /\ \A q \in Thread : ind[q] \in Nat
  BY DEF BufferInv, BufferType
<1>1. /\ upc[p] \in {"publish", "publish2"} /\ upc' = [upc EXCEPT ![p] = l]
      /\ size_unlocks' = 2 * size_unlocks
      /\ UNCHANGED <<nr_unlocks, completed_unlock_writes, unlocks, version, fresh,
                     ind, dep, ptr>>
  BY DEF Buffer!Publish, Buffer!Goto
<1>2. l \in {"spin", "load"}
  OBVIOUS
<1> HIDE DEF l
<1>3. Goes(p, l)
  BY <1>1, <1>2 DEF Goes, Label
<1>4. /\ upc' \in [Thread -> Label]
      /\ upc'[p] = l /\ \A q \in Thread : q # p => upc'[q] = upc[q]
      /\ IndexOwned' /\ Written' = Written
  BY <1>1, <1>3, GoesKeeps
<1>5. BufferType'
  BY <1>0, <1>1, <1>4 DEF BufferInv, BufferType
<1>6. \A q \in Thread : upc'[q] \notin Growing
  <2>1. \A q \in Thread : q # p => upc[q] \notin Growing
    BY <1>1, OneGrower DEF Growing, Installing
  <2> QED BY <1>2, <1>4, <2>1 DEF Growing, Installing
<1>7. RoomChecked'
  <2>1. ind[p] = size_unlocks
    BY <1>1 DEF BufferInv, RoomChecked, Growing, Installing
  <2>2. \A n \in Nat : /\ n < size_unlocks => n < 2 * size_unlocks
                       /\ n <= size_unlocks => n <= 2 * size_unlocks
                       /\ n = size_unlocks => n < 2 * size_unlocks
    BY <1>0
  <2>3. \A q \in Thread : upc'[q] \in {"load", "store", "complete"} => ind[q] < 2 * size_unlocks
    BY <1>0, <1>2, <1>4, <2>1, <2>2 DEF BufferInv, RoomChecked
  <2>4. \A q \in Thread : upc'[q] = "guard" => ind[q] <= 2 * size_unlocks
    BY <1>0, <1>2, <1>4, <2>1, <2>2 DEF BufferInv, RoomChecked
  <2> QED BY <1>1, <1>6, <2>3, <2>4 DEF RoomChecked
<1>8. WritesCounted'
  <2>1. Written \subseteq 0..(2 * size_unlocks - 1)
    BY <1>0 DEF BufferInv, WritesCounted
  <2> QED BY <1>1, <1>4, <2>1 DEF BufferInv, WritesCounted
<1>9. NoneBelow'
  BY <1>6 DEF NoneBelow, Growing
<1>10. ArraySize'
  <2>1. DOMAIN unlocks' = 0..(size_unlocks' - 1)
    BY <1>1 DEF BufferInv, ArraySize
  <2> QED BY <1>6, <2>1 DEF ArraySize, Growing, Installing
<1>11. PointerCurrent'
  BY <1>1, <1>2, <1>4 DEF BufferInv, PointerCurrent
<1> QED BY <1>4, <1>5, <1>7, <1>8, <1>9, <1>10, <1>11 DEF BufferInv

LEMMA CompleteStep ==
  ASSUME BufferInv, NEW p \in Thread, Buffer!Complete(p)
  PROVE  BufferInv'
<1>0. /\ size_unlocks \in Nat \ {0} /\ upc \in [Thread -> Label] /\ version \in Nat
      /\ ind \in [Thread -> Nat] /\ ptr \in [Thread -> Nat] /\ nr_unlocks \in Nat
  BY DEF BufferInv, BufferType
<1>1. /\ upc[p] = "complete" /\ upc' = [upc EXCEPT ![p] = "idle"]
      /\ completed_unlock_writes' = completed_unlock_writes + 1
      /\ ind' = [ind EXCEPT ![p] = 0] /\ ptr' = [ptr EXCEPT ![p] = 0]
      /\ UNCHANGED <<nr_unlocks, size_unlocks, unlocks, version, fresh>>
  BY DEF Buffer!Complete, Buffer!Goto
<1>2. /\ upc' \in [Thread -> Label] /\ upc'[p] = "idle"
      /\ \A q \in Thread : q # p => upc'[q] = upc[q] /\ ind'[q] = ind[q] /\ ptr'[q] = ptr[q]
      /\ ind' \in [Thread -> Nat] /\ ptr' \in [Thread -> Nat]
  BY <1>0, <1>1 DEF Label
<1>3. BufferType'
  BY <1>1, <1>2 DEF BufferInv, BufferType
<1>4. IndexOwned'
  BY <1>1, <1>2 DEF BufferInv, IndexOwned
<1>5. WritesCounted'
  <2>1. ind[p] \in 0..(nr_unlocks - 1) /\ ind[p] \in 0..(size_unlocks - 1)
    BY <1>0, <1>1 DEF BufferInv, IndexOwned, RoomChecked
  <2>2. ind[p] \in Pending /\ ind[p] \notin Written
    BY <1>1 DEF Pending, Written
  <2>3. \A k : k \in Pending' <=> k \in Pending /\ k # ind[p]
    <3>1. \A k : k \in Pending' <=> \E q \in Thread : upc[q] # "idle" /\ q # p /\ k = ind[q]
      BY <1>2 DEF Pending
    <3>2. \A k : k \in Pending <=> \E q \in Thread : upc[q] # "idle" /\ k = ind[q]
      BY DEF Pending
    <3> QED BY <1>1, <3>1, <3>2 DEF BufferInv, IndexOwned
  <2>4. Written' = Written \cup {ind[p]}
    BY <1>1, <2>1, <2>3 DEF Written
  <2>5. IsFiniteSet(Written)
    <3>1. IsFiniteSet(0..(size_unlocks - 1))
      BY <1>0, FS_Interval
    <3> QED BY <3>1, FS_Subset DEF BufferInv, WritesCounted
  <2>6. Cardinality(Written') = Cardinality(Written) + 1
    BY <2>2, <2>4, <2>5, FS_AddElement
  <2> QED BY <1>1, <2>1, <2>4, <2>6 DEF BufferInv, WritesCounted
<1>6. RoomChecked'
  BY <1>1, <1>2 DEF BufferInv, RoomChecked, Growing, Installing
<1>7. NoneBelow'
  BY <1>1, <1>2 DEF BufferInv, NoneBelow, Installing
<1>8. ArraySize'
  <2>1. \A q \in Thread : /\ upc'[q] \in {"publish", "publish2"} <=> upc[q] \in {"publish", "publish2"}
                          /\ upc'[q] \in {"swap", "swap2"} <=> upc[q] \in {"swap", "swap2"}
    BY <1>1, <1>2
  <2> QED BY <1>1, <2>1 DEF BufferInv, ArraySize
<1>9. PointerCurrent'
  BY <1>1, <1>2 DEF BufferInv, PointerCurrent
<1> QED BY <1>3, <1>4, <1>5, <1>6, <1>7, <1>8, <1>9 DEF BufferInv

LEMMA AddStep ==
  ASSUME BufferInv, NEW p \in Thread, NEW d, Buffer!Add(p, d)
  PROVE  BufferInv'
<1>0. /\ size_unlocks \in Nat \ {0} /\ upc \in [Thread -> Label] /\ version \in Nat
      /\ ind \in [Thread -> Nat] /\ nr_unlocks \in Nat
  BY DEF BufferInv, BufferType
<1>1. /\ upc[p] = "idle" /\ upc' = [upc EXCEPT ![p] = "check"]
      /\ ind' = [ind EXCEPT ![p] = nr_unlocks] /\ nr_unlocks' = nr_unlocks + 1
      /\ UNCHANGED <<size_unlocks, completed_unlock_writes, unlocks, version, fresh, ptr>>
  BY DEF Buffer!Add, Buffer!Goto
<1>2. /\ upc' \in [Thread -> Label] /\ upc'[p] = "check" /\ ind'[p] = nr_unlocks
      /\ \A q \in Thread : q # p => upc'[q] = upc[q] /\ ind'[q] = ind[q]
      /\ ind' \in [Thread -> Nat]
  BY <1>0, <1>1 DEF Label
<1>3. BufferType'
  BY <1>0, <1>1, <1>2 DEF BufferInv, BufferType
<1>4. \A q \in Thread : upc[q] # "idle" => ind[q] \in Nat /\ ind[q] < nr_unlocks
  BY <1>0 DEF BufferInv, IndexOwned
<1>5. IndexOwned'
  <2>1. \A n \in Nat : n < nr_unlocks => n < nr_unlocks + 1 /\ n # nr_unlocks
    BY <1>0
  <2>2. nr_unlocks < nr_unlocks + 1
    BY <1>0
  <2>3. \A q \in Thread : upc'[q] # "idle" => ind'[q] < nr_unlocks + 1
    BY <1>2, <1>4, <2>1, <2>2
  <2>4. ASSUME NEW q \in Thread, NEW o \in Thread, q # o, upc'[q] # "idle", upc'[o] # "idle"
        PROVE  ind'[q] # ind'[o]
    <3>1. CASE q = p
      BY <1>2, <1>4, <2>1, <2>4, <3>1
    <3>2. CASE o = p
      BY <1>2, <1>4, <2>1, <2>4, <3>2
    <3>3. CASE q # p /\ o # p
      BY <1>2, <2>4, <3>3 DEF BufferInv, IndexOwned
    <3> QED BY <3>1, <3>2, <3>3
  <2> QED BY <1>1, <2>3, <2>4 DEF IndexOwned
<1>6. WritesCounted'
  <2>1. \A k : k \in Pending' <=> k \in Pending \/ k = nr_unlocks
    <3>1. \A k : k \in Pending' <=> \E q \in Thread : upc'[q] # "idle" /\ k = ind'[q]
      BY DEF Pending
    <3>2. \A k : k \in Pending <=> \E q \in Thread : upc[q] # "idle" /\ k = ind[q]
      BY DEF Pending
    <3> QED BY <1>1, <1>2, <3>1, <3>2
  <2>2. \A k : k \in 0..(nr_unlocks' - 1) <=> k \in 0..(nr_unlocks - 1) \/ k = nr_unlocks
    BY <1>0, <1>1
  <2>3. nr_unlocks \notin 0..(nr_unlocks - 1)
    BY <1>0
  <2>4. Written' = Written
    BY <2>1, <2>2, <2>3 DEF Written
  <2> QED BY <1>1, <2>4 DEF BufferInv, WritesCounted
<1>7. RoomChecked'
  BY <1>1, <1>2 DEF BufferInv, RoomChecked, Growing, Installing
<1>8. NoneBelow'
  <2>1. ASSUME NEW q \in Thread, upc'[q] \in Installing
        PROVE  \A o \in Thread : upc'[o] # "idle" => ind'[o] >= size_unlocks
    <3>1. q # p /\ upc[q] \in Installing
      BY <1>2, <2>1 DEF Installing
    <3>2. ind[q] = size_unlocks /\ ind[q] < nr_unlocks
      BY <1>4, <3>1 DEF BufferInv, RoomChecked, Growing, Installing
    <3>3. nr_unlocks >= size_unlocks
      BY <1>0, <3>2
    <3> QED BY <1>2, <3>1, <3>3 DEF BufferInv, NoneBelow
  <2> QED BY <1>1, <2>1 DEF NoneBelow
<1>9. ArraySize'
  <2>1. \A q \in Thread : /\ upc'[q] \in {"publish", "publish2"} <=> upc[q] \in {"publish", "publish2"}
                          /\ upc'[q] \in {"swap", "swap2"} <=> upc[q] \in {"swap", "swap2"}
    BY <1>1, <1>2
  <2> QED BY <1>1, <2>1 DEF BufferInv, ArraySize
<1>10. PointerCurrent'
  BY <1>1, <1>2 DEF BufferInv, PointerCurrent
<1> QED BY <1>3, <1>5, <1>6, <1>7, <1>8, <1>9, <1>10 DEF BufferInv

(* No call is in flight when the buffer is reset, or its entries sorted. *)
LEMMA QuietStep ==
  ASSUME BufferInv, \A p \in Thread : upc[p] = "idle",
         UNCHANGED <<size_unlocks, fresh, upc, ind, dep, ptr>>,
         DOMAIN unlocks' = DOMAIN unlocks, version' \in Nat,
         \/ UNCHANGED <<nr_unlocks, completed_unlock_writes>>
         \/ nr_unlocks' = 0 /\ completed_unlock_writes' = 0
  PROVE  BufferInv'
<1>1. BufferType'
  BY DEF BufferInv, BufferType
<1>2. (IndexOwned /\ RoomChecked /\ NoneBelow /\ PointerCurrent)'
  BY DEF IndexOwned, RoomChecked, NoneBelow, PointerCurrent, Growing, Installing
<1>3. ArraySize'
  BY DEF BufferInv, ArraySize
<1>4. WritesCounted'
  <2>1. CASE UNCHANGED <<nr_unlocks, completed_unlock_writes>>
    <3>1. Written' = Written
      BY <2>1 DEF Written, Pending
    <3> QED BY <2>1, <3>1 DEF BufferInv, WritesCounted
  <2>2. CASE nr_unlocks' = 0 /\ completed_unlock_writes' = 0
    <3>1. Written' = {}
      BY <2>2 DEF Written
    <3> QED BY <2>2, <3>1, FS_EmptySet DEF WritesCounted
  <2> QED BY <2>1, <2>2
<1> QED BY <1>1, <1>2, <1>3, <1>4 DEF BufferInv

LEMMA BufferKept ==
  ASSUME PoolInv, BufferInv, BuildInv, BuildNext \/ UNCHANGED allVars
  PROVE  BufferInv'
<1>1. CASE UNCHANGED buffer
  <2>1. UNCHANGED <<nr_unlocks, size_unlocks, completed_unlock_writes, unlocks, version,
                    fresh, upc, ind, dep, ptr>>
    BY <1>1 DEF buffer
  <2>2. Written' = Written
    BY <2>1 DEF Written, Pending
  <2>3. (BufferType /\ IndexOwned /\ WritesCounted)'
    BY <2>1, <2>2 DEF BufferInv, BufferType, IndexOwned, WritesCounted
  <2>4. (RoomChecked /\ NoneBelow /\ ArraySize /\ PointerCurrent)'
    BY <2>1 DEF BufferInv, RoomChecked, NoneBelow, ArraySize, PointerCurrent
  <2> QED BY <2>3, <2>4 DEF BufferInv
<1>2. CASE StartAdds
  <2>1. /\ \A p \in Thread : upc[p] = "idle"
        /\ nr_unlocks' = 0 /\ completed_unlock_writes' = 0
        /\ UNCHANGED <<size_unlocks, unlocks, version, fresh, upc, ind, dep, ptr>>
    BY <1>2 DEF StartAdds, Buffer!Reset
  <2>2. version' \in Nat
    BY <2>1 DEF BufferInv, BufferType
  <2> QED BY <2>1, <2>2, QuietStep
<1>3. CASE SetUnlocks
  <2>1. /\ UNCHANGED <<nr_unlocks, size_unlocks, completed_unlock_writes, fresh, upc, ind, dep, ptr>>
        /\ DOMAIN unlocks' = DOMAIN unlocks /\ version' = version + 1 /\ phase = "sorts"
    BY <1>3 DEF SetUnlocks
  <2>2. version' \in Nat /\ \A p \in Thread : upc[p] = "idle"
    BY <2>1 DEF BufferInv, BufferType, BuildInv, AddsInMap
  <2> QED BY <2>1, <2>2, QuietStep
<1>4. ASSUME NEW p \in Thread, AddUnlock(p) PROVE BufferInv'
  <2>1. Buffer!Add(p, Adds[Current(p)])
    BY <1>4 DEF AddUnlock
  <2> QED BY <2>1, AddStep
<1>5. ASSUME NEW p \in Thread, InAddUnlock(p) PROVE BufferInv'
  <2>1. Buffer!Step(p)
    BY <1>5 DEF InAddUnlock
  <2> QED BY <2>1, WalkStep, CompleteStep, CopyStep, SwapStep, PublishStep DEF Buffer!Step
<1>6. ASSUME NEW p \in Thread, MapperStep(p) PROVE BufferInv'
  <2>1. CountUnlock(p) => UNCHANGED buffer
    BY DEF CountUnlock
  <2>2. SortUnlock(p) => UNCHANGED buffer
    BY DEF SortUnlock
  <2>3. Return(p) => UNCHANGED buffer
    BY DEF Return
  <2> QED BY <1>1, <1>4, <1>5, <1>6, <2>1, <2>2, <2>3 DEF MapperStep
<1>7. CASE Caller
  <2>1. StartCounts => UNCHANGED buffer
    BY DEF StartCounts
  <2>2. StartSorts => UNCHANGED buffer
    BY DEF StartSorts
  <2>3. RankTasks => UNCHANGED buffer
    BY DEF RankTasks
  <2> QED BY <1>1, <1>2, <1>3, <1>7, <2>1, <2>2, <2>3 DEF Caller
<1>8. UNCHANGED buildVars => UNCHANGED buffer
  BY DEF buildVars
<1>9. UNCHANGED allVars => UNCHANGED buildVars
  BY DEF allVars
<1> QED BY <1>1, <1>6, <1>7, <1>8, <1>9 DEF BuildNext, Pool

-----------------------------------------------------------------------------
(***************************************************************************)
(* The mappers.                                                            *)
(***************************************************************************)
(* A step of the pool between mapper functions: a thread may begin a       *)
(* chunk, and nobody is done with his.                                     *)
Between ==
  /\ UNCHANGED <<num_threads, calls, map_data_size>>
  /\ \A q \in Thread : pc[q] = "call" =>
       pc'[q] = "call" /\ task_ind'[q] = task_ind[q] /\ chunk_size'[q] = chunk_size[q]

LEMMA MoveBetween ==
  ASSUME PoolType, NEW p \in Thread, pc[p] # "call",
         NEW l, pc' = [pc EXCEPT ![p] = l],
         UNCHANGED <<num_threads, calls, map_data_size>>,
         \A q \in Thread : q # p => task_ind'[q] = task_ind[q] /\ chunk_size'[q] = chunk_size[q]
  PROVE  Between
BY DEF PoolType, Between

LEMMA ThroughBetween ==
  ASSUME NEW S \in SUBSET Thread, LetThrough(S), \A q \in S : AtBarrier(q) # "none",
         UNCHANGED <<num_threads, calls, map_data_size, task_ind, chunk_size>>
  PROVE  Between
<1>1. \A q \in S : pc[q] # "call"
  BY AtBarrierIs
<1>2. \A q \in Thread : q \notin S => pc'[q] = pc[q]
  BY DEF LetThrough
<1> QED BY <1>1, <1>2 DEF Between

LEMMA PoolBetween ==
  ASSUME PoolInv, num_threads > 1,
         \/ Clean \/ Open("wait") \/ Open("run") \/ CallAlone \/ Join \/ Gone
         \/ \E p \in Thread : PoolStep(p)
  PROVE  Between
<1>0. PoolType /\ Barriers /\ Main \in Thread /\ Runner \subseteq Thread
  BY ThreadFacts DEF PoolInv
<1>1. CASE Clean
  <2>1. /\ pc[Main] = "idle" /\ pc' = [pc EXCEPT ![Main] = "clean"]
        /\ UNCHANGED <<num_threads, calls, map_data_size, task_ind, chunk_size>>
    BY <1>1 DEF Clean, Goto
  <2> QED BY <1>0, <2>1, MoveBetween
<1>2. ASSUME NEW b \in {"run", "wait"}, Open(b) PROVE Between
  <2>1. /\ LetThrough(Thread) /\ \A q \in Thread : AtBarrier(q) # "none"
        /\ UNCHANGED <<num_threads, calls, map_data_size, task_ind, chunk_size>>
    BY <1>2 DEF Open, request
  <2> QED BY <2>1, ThroughBetween
<1>3. ~ CallAlone
  BY DEF CallAlone
<1>4. CASE Join
  <2>1. /\ pc[Main] = "join" /\ pc' = [pc EXCEPT ![Main] = "gone"]
        /\ UNCHANGED <<num_threads, calls, map_data_size, task_ind, chunk_size>>
    BY <1>4 DEF Join, Goto, request
  <2> QED BY <1>0, <2>1, MoveBetween
<1>5. CASE Gone
  BY <1>5 DEF Gone, vars, Between
<1>6. ASSUME NEW p \in Thread, PoolStep(p) PROVE Between
  <2>1. CASE BarrierWait(p)
    <3>1. /\ AtBarrier(p) # "none" /\ (LetThrough({p}) \/ UNCHANGED pc)
          /\ UNCHANGED <<num_threads, calls, map_data_size, task_ind, chunk_size>>
      BY <2>1 DEF BarrierWait, request
    <3>2. LetThrough({p}) => Between
      BY <3>1, ThroughBetween
    <3>3. UNCHANGED pc => Between
      BY <3>1 DEF Between
    <3> QED BY <3>1, <3>2, <3>3
  <2>2. CASE BarrierLeave(p)
    <3>1. /\ AtBarrier(p) # "none" /\ LetThrough({p})
          /\ UNCHANGED <<num_threads, calls, map_data_size, task_ind, chunk_size>>
      BY <1>0, <2>2 DEF BarrierLeave, request, Barriers
    <3> QED BY <3>1, ThroughBetween
  <2>3. CASE Size(p)
    <3>1. /\ pc[p] # "call" /\ pc' = [pc EXCEPT ![p] = "get"]
          /\ chunk_size' = [chunk_size EXCEPT ![p] = ChunkSize(p)]
          /\ UNCHANGED <<num_threads, calls, map_data_size, task_ind>>
      BY <2>3 DEF Size, Goto, request
    <3>2. \A q \in Thread : q # p => chunk_size'[q] = chunk_size[q]
      BY <1>0, <3>1 DEF PoolType
    <3> QED BY <1>0, <3>1, <3>2, MoveBetween
  <2>4. CASE Get(p)
    <3>1. pc[p] # "call" /\ UNCHANGED <<num_threads, calls, map_data_size>>
      BY <2>4 DEF Get, request
    <3>2. \A q \in Thread : q # p => task_ind'[q] = task_ind[q] /\ chunk_size'[q] = chunk_size[q]
      BY <1>0, <2>4 DEF Get, Leave, PoolType
    <3>3. \/ pc' = [pc EXCEPT ![p] = "wait"]
          \/ pc' = [pc EXCEPT ![p] = "call"]
      BY <2>4 DEF Get, Leave, Goto
    <3> QED BY <1>0, <3>1, <3>2, <3>3, MoveBetween
  <2>5. CASE p \in Runner /\ TestFunction(p)
    <3>1. /\ pc[p] # "call"
          /\ pc' = [pc EXCEPT ![p] = IF map_function = "NULL" THEN "gone" ELSE "tid"]
          /\ UNCHANGED <<num_threads, calls, map_data_size, task_ind, chunk_size>>
      BY <2>5 DEF TestFunction, Goto, request
    <3> QED BY <1>0, <3>1, MoveBetween
  <2>6. CASE p \in Runner /\ TakeTid(p)
    <3>1. /\ pc[p] # "call" /\ pc' = [pc EXCEPT ![p] = "size"]
          /\ UNCHANGED <<num_threads, calls, map_data_size, task_ind, chunk_size>>
      BY <2>6 DEF TakeTid, Goto, request
    <3> QED BY <1>0, <3>1, MoveBetween
  <2> QED BY <1>6, <2>1, <2>2, <2>3, <2>4, <2>5, <2>6 DEF PoolStep
<1> QED BY <1>1, <1>2, <1>3, <1>4, <1>5, <1>6

LEMMA TreatedBetween ==
  ASSUME PoolInv, PoolInv', BuildInv, num_threads > 1, Between, UNCHANGED done
  PROVE  TreatedSet' = TreatedSet
<1>1. ASSUME NEW p \in Thread, NEW e PROVE InDone(p, e)' <=> InDone(p, e)
  <2>1. CASE pc[p] = "call"
    BY <2>1 DEF InDone, Between
  <2>2. CASE pc[p] # "call"
    <3>1. done'[p] = 0
      BY <2>2 DEF BuildInv, DoneBounded
    <3>2. task_ind'[p] \in Nat
      BY DEF PoolInv, PoolType
    <3>3. task_ind'[p]..(task_ind'[p] + 0 - 1) = {}
      BY <3>2
    <3> QED BY <2>2, <3>1, <3>3 DEF InDone
  <2> QED BY <2>1, <2>2
<1>2. calls' = calls
  BY DEF Between
<1> QED BY <1>1, <1>2 DEF TreatedSet

LEMMA BetweenKeeps ==
  ASSUME PoolInv, PoolInv', BuildInv, num_threads > 1, Between, UNCHANGED buildVars
  PROVE  BuildInv'
<1>1. UNCHANGED <<nr_unlocks, upc, phase, done, num_threads, calls, map_data_size>>
  BY DEF buildVars, buffer, Between
<1>2. Phases'
  BY <1>1 DEF BuildInv, Phases
<1>3. \A p \in Thread : chunk_size'[p] \in Nat /\ task_ind'[p] \in Nat /\ task_ind[p] \in Nat
  BY DEF PoolInv, PoolType
<1>4. DoneBounded'
  <2>1. ASSUME NEW p \in Thread, pc'[p] = "call" PROVE done'[p] <= chunk_size'[p]
    <3>1. CASE pc[p] = "call"
      BY <1>1, <3>1 DEF BuildInv, DoneBounded, Between
    <3>2. CASE pc[p] # "call"
      <4>1. done'[p] = 0
        BY <1>1, <3>2 DEF BuildInv, DoneBounded
      <4> QED BY <1>3, <4>1
    <3> QED BY <3>1, <3>2
  <2>2. \A p \in Thread : pc'[p] # "call" => done'[p] = 0
    BY <1>1 DEF BuildInv, DoneBounded, Between
  <2> QED BY <1>1, <2>1, <2>2 DEF BuildInv, DoneBounded
<1>5. AddsCounted'
  <2>1. TreatedSet' = TreatedSet
    BY <1>1, TreatedBetween
  <2> QED BY <1>1, <2>1 DEF BuildInv, AddsCounted
<1>6. AddsInMap'
  BY <1>1 DEF BuildInv, AddsInMap, Between
<1> QED BY <1>2, <1>4, <1>5, <1>6 DEF BuildInv

(* The caller is between two maps: nobody is in a mapper function. *)
LEMMA NoneInMap ==
  ASSUME PoolInv, BuildInv, num_threads > 1, pc[Main] = "idle"
  PROVE  \A p \in Thread : pc[p] # "call" /\ done[p] = 0 /\ upc[p] = "idle"
<1>1. \A p \in Thread : Resting(p)
  BY ThreadFacts DEF PoolInv, Together, Resting
<1>2. \A p \in Thread : pc[p] # "call"
  BY <1>1, RestingWhere DEF PoolInv
<1> QED BY <1>2 DEF BuildInv, DoneBounded, AddsInMap

(* Between two maps all has been treated; a new map starts from nothing. *)
LEMMA TreatedAll ==
  ASSUME PoolInv, BuildInv, num_threads > 1, pc[Main] = "idle", map_data_size = NrAdds
  PROVE  TreatedSet = All
<1>1. \A p \in Thread : pc[p] # "call"
  BY NoneInMap
<1>2. map_data_count >= NrAdds /\ map_data_count \in Nat /\ NrAdds \in Nat
  BY AddFacts DEF PoolInv, Request, PoolType
<1>3. ASSUME NEW e \in All PROVE calls[e] = 1
  <2>1. e \in Element
    BY AddFacts DEF All
  <2> QED BY <1>1, <1>2, <2>1 DEF All, PoolInv, CallsSoFar, InChunk
<1> QED BY <1>3 DEF TreatedSet, All

LEMMA TreatedNone ==
  ASSUME PoolInv, BuildInv, num_threads > 1, NEW n, NEW c, Map(n, c)
  PROVE  TreatedSet' = {}
<1>1. /\ pc[Main] = "idle" /\ pc' = [pc EXCEPT ![Main] = "run"]
      /\ calls' = [e \in Element |-> 0]
  BY DEF Map, Goto
<1>2. \A p \in Thread : pc'[p] # "call"
  BY <1>1, NoneInMap DEF PoolInv, PoolType
<1> QED BY <1>1, <1>2, AddFacts DEF TreatedSet, InDone

LEMMA CallerStep ==
  ASSUME PoolInv, PoolInv', BufferInv, BuildInv, Caller
  PROVE  BuildInv'
<1>0. phase # "plain" /\ num_threads > 1
  <2>1. phase # "plain"
    BY DEF Caller, StartAdds, StartCounts, StartSorts, SetUnlocks, RankTasks
  <2> QED BY <2>1 DEF BuildInv, Phases
<1>1. CASE StartAdds \/ StartCounts \/ StartSorts
  <2>1. PICK n : Map(n, auto_chunk_size) /\ (StartAdds => n = NrAdds)
    <3>1. StartAdds => Map(NrAdds, auto_chunk_size)
      BY DEF StartAdds
    <3>2. StartCounts => Map(nr_unlocks, auto_chunk_size) /\ ~ StartAdds
      BY DEF StartCounts, StartAdds
    <3>3. StartSorts => Map(nr_unlocks, auto_chunk_size) /\ ~ StartAdds
      BY DEF StartSorts, StartAdds
    <3> QED BY <1>1, <3>1, <3>2, <3>3
  <2>2. /\ pc[Main] = "idle" /\ pc' = [pc EXCEPT ![Main] = "run"] /\ num_threads' = num_threads
        /\ calls' = [e \in Element |-> 0] /\ map_data_size' = n
    BY <2>1 DEF Map, Goto
  <2>3. \A p \in Thread : pc[p] # "call" /\ done[p] = 0 /\ upc[p] = "idle"
    BY <1>0, <2>2, NoneInMap
  <2>4. \A p \in Thread : pc'[p] # "call"
    BY <2>2, <2>3 DEF PoolInv, PoolType
  <2>5. /\ done' = done /\ upc' = upc
        /\ phase' \in {"adds", "counts", "sorts"} /\ (phase' = "adds" => StartAdds)
    <3>1. StartAdds => done' = done /\ upc' = upc /\ phase' = "adds"
      BY DEF StartAdds, Buffer!Reset
    <3>2. StartCounts => done' = done /\ upc' = upc /\ phase' = "counts"
      BY DEF StartCounts, buffer
    <3>3. StartSorts => done' = done /\ upc' = upc /\ phase' = "sorts"
      BY DEF StartSorts, buffer
    <3> QED BY <1>1, <3>1, <3>2, <3>3
  <2>6. Phases' /\ AddsInMap'
    BY <1>0, <2>2, <2>3, <2>5 DEF Phases, AddsInMap
  <2>7. DoneBounded'
    BY <2>3, <2>4, <2>5 DEF BuildInv, DoneBounded
  <2>8. AddsCounted'
    <3>1. CASE StartAdds
      <4>1. nr_unlocks' = 0 /\ map_data_size' = NrAdds
        BY <2>1, <2>2, <3>1 DEF StartAdds, Buffer!Reset
      <4>2. TreatedSet' = {}
        BY <2>2, <2>4, AddFacts DEF TreatedSet, InDone
      <4>3. 0 <= NrAdds
        BY AddFacts
      <4> QED BY <4>1, <4>2, <4>3, FS_EmptySet DEF AddsCounted
    <3>2. CASE ~ StartAdds
      <4>1. nr_unlocks' = nr_unlocks
        BY <1>1, <3>2 DEF StartCounts, StartSorts, buffer
      <4> QED BY <2>5, <3>2, <4>1 DEF BuildInv, AddsCounted
    <3> QED BY <3>1, <3>2
  <2> QED BY <2>6, <2>7, <2>8 DEF BuildInv
<1>2. CASE SetUnlocks \/ RankTasks
  <2>1. /\ UNCHANGED vars /\ UNCHANGED <<nr_unlocks, upc, done>>
        /\ phase \in {"sorts", "rank"} /\ phase' \in {"rank", "built"}
    <3>1. SetUnlocks => /\ UNCHANGED vars /\ UNCHANGED <<nr_unlocks, upc, done>>
                        /\ phase = "sorts" /\ phase' = "rank"
      BY DEF SetUnlocks
    <3>2. RankTasks => /\ UNCHANGED vars /\ UNCHANGED <<nr_unlocks, upc, done>>
                       /\ phase = "rank" /\ phase' = "built"
      BY DEF RankTasks, buffer
    <3> QED BY <1>2, <3>1, <3>2
  <2>2. UNCHANGED <<num_threads, pc, chunk_size>>
    BY <2>1 DEF vars
  <2> QED BY <1>0, <2>1, <2>2 DEF BuildInv, Phases, DoneBounded, AddsCounted, AddsInMap
<1> QED BY <1>1, <1>2 DEF Caller

(* The next element of a chunk. *)
LEMMA ElementFacts ==
  ASSUME PoolInv, BuildInv, NEW p \in Thread, NEW ph, ph # "plain", AtElement(p, ph)
  PROVE  /\ pc[p] = "call" /\ phase = ph /\ num_threads > 1
         /\ done[p] \in Nat /\ done[p] < chunk_size[p] /\ chunk_size[p] \in Nat
         /\ task_ind[p] \in Nat /\ InChunk(p, Current(p))
         /\ Current(p) \in 0..(map_data_size - 1)
<1>1. pc[p] = "call" /\ phase = ph /\ num_threads > 1 /\ done[p] < AsInt(chunk_size[p])
  BY DEF AtElement, BuildInv, Phases
<1>2. /\ chunk_size[p] \in Nat /\ chunk_size[p] <= IntMax /\ task_ind[p] \in Nat
      /\ task_ind[p] + chunk_size[p] <= map_data_size /\ map_data_size \in Nat
      /\ done[p] \in Nat
  BY <1>1, SizeAssumption DEF PoolInv, PoolType, ChunksApart, BuildInv, DoneBounded, Fits
<1>3. done[p] < chunk_size[p]
  BY <1>1, <1>2, SizeAssumption DEF AsInt
<1>4. InChunk(p, Current(p)) /\ Current(p) \in 0..(map_data_size - 1)
  BY <1>1, <1>2, <1>3 DEF InChunk, Current
<1> QED BY <1>1, <1>2, <1>3, <1>4

LEMMA WithinAdds ==
  ASSUME NEW S \in SUBSET (0..(NrAdds - 1))
  PROVE  IsFiniteSet(S) /\ Cardinality(S) <= NrAdds
<1>1. IsFiniteSet(0..(NrAdds - 1)) /\ Cardinality(0..(NrAdds - 1)) = NrAdds
  <2>1. 0 \in Int /\ NrAdds - 1 \in Int /\ NrAdds \in Nat
    BY AddFacts
  <2>2. /\ IsFiniteSet(0..(NrAdds - 1))
        /\ Cardinality(0..(NrAdds - 1)) = IF 0 > NrAdds - 1 THEN 0 ELSE (NrAdds - 1) - 0 + 1
    BY <2>1, FS_Interval
  <2> QED BY <2>1, <2>2
<1> QED BY <1>1, FS_Subset

(* The next element of a chunk has not been treated by anybody. *)
LEMMA TreatedGrows ==
  ASSUME PoolInv, BuildInv, NEW p \in Thread, NEW ph, ph # "plain", AtElement(p, ph),
         map_data_size = NrAdds, UNCHANGED vars, Treated(p)
  PROVE  /\ Current(p) \in All /\ Current(p) \notin TreatedSet
         /\ TreatedSet' = TreatedSet \cup {Current(p)}
<1> DEFINE c == Current(p)
<1>0. /\ pc[p] = "call" /\ phase = ph /\ num_threads > 1
      /\ done[p] \in Nat /\ done[p] < chunk_size[p] /\ chunk_size[p] \in Nat
      /\ task_ind[p] \in Nat /\ InChunk(p, c) /\ c \in 0..(NrAdds - 1)
  BY ElementFacts
<1>2. UNCHANGED <<num_threads, pc, task_ind, chunk_size, calls, map_data_size>>
  BY DEF vars
<1>3. /\ done'[p] = done[p] + 1 /\ \A q \in Thread : q # p => done'[q] = done[q]
      /\ done' \in [Thread -> Nat]
  BY <1>0 DEF BuildInv, DoneBounded, Treated
<1>8. \A q \in Thread : q # p => \A e : InDone(q, e)' <=> InDone(q, e)
  BY <1>2, <1>3 DEF InDone
<1>9. \A e : InDone(p, e)' <=> InDone(p, e) \/ e = c
  <2>1. \A e : e \in task_ind[p]..(task_ind[p] + (done[p] + 1) - 1)
                 <=> e \in task_ind[p]..(task_ind[p] + done[p] - 1) \/ e = task_ind[p] + done[p]
    BY <1>0
  <2> QED BY <1>0, <1>2, <1>3, <2>1 DEF InDone, Current
<1>10. TreatedSet' = TreatedSet \cup {c}
  <2>1. \A e : (\E q \in Thread : InDone(q, e)') <=> (\E q \in Thread : InDone(q, e)) \/ e = c
    BY <1>8, <1>9
  <2>2. \A e : e \in TreatedSet' <=>
          e \in 0..(NrAdds - 1) /\ (calls[e] = 1 \/ \E q \in Thread : InDone(q, e)')
    BY <1>2 DEF TreatedSet
  <2>3. \A e : e \in TreatedSet <=>
          e \in 0..(NrAdds - 1) /\ (calls[e] = 1 \/ \E q \in Thread : InDone(q, e))
    BY DEF TreatedSet
  <2>4. \A e : e \in TreatedSet' <=> e \in TreatedSet \cup {c}
    <3> HIDE DEF c
    <3> QED BY <1>0, <2>1, <2>2, <2>3
  <2> QED BY <2>4
<1>11. c \notin TreatedSet
  <2>1. calls[c] = 0
    <3>1. c \in Element
      BY <1>0, AddFacts
    <3> QED BY <1>0, <3>1 DEF PoolInv, CallsSoFar
  <2>2. ASSUME NEW q \in Thread, InDone(q, c) PROVE FALSE
    <3>1. /\ pc[q] = "call" /\ task_ind[q] \in Nat /\ chunk_size[q] \in Nat /\ done[q] \in Nat
          /\ done[q] <= chunk_size[q]
      BY <1>0, <2>2 DEF InDone, PoolInv, PoolType, BuildInv, DoneBounded
    <3>2. /\ c = task_ind[p] + done[p] /\ task_ind[q] <= c /\ c < task_ind[q] + done[q]
      BY <1>0, <2>2, <3>1 DEF InDone, Current
    <3>3. q # p
      BY <1>0, <3>2
    <3>4. \/ task_ind[p] + chunk_size[p] <= task_ind[q]
          \/ task_ind[q] + chunk_size[q] <= task_ind[p]
      BY <1>0, <3>1, <3>3 DEF PoolInv, ChunksApart
    <3> QED BY <1>0, <3>1, <3>2, <3>4
  <2> QED BY <2>1, <2>2 DEF TreatedSet
<1> QED BY <1>0, <1>10, <1>11 DEF All

(* What was treated stays so when the mapper returns. *)
LEMMA TreatedReturn ==
  ASSUME PoolInv, BuildInv, NEW p \in Thread, Return(p), phase # "plain"
  PROVE  TreatedSet' = TreatedSet
<1>0. /\ num_threads > 1 /\ pc[p] = "call" /\ pc' = [pc EXCEPT ![p] = "size"]
      /\ calls' = Mapped(task_ind[p], chunk_size[p])
      /\ UNCHANGED <<num_threads, map_data_size, chunk_size, task_ind>>
      /\ done' = [done EXCEPT ![p] = 0]
      /\ done[p] >= AsInt(chunk_size[p])
  BY DEF Return, Call, Goto, request, buffer
<1>1. /\ pc'[p] = "size" /\ \A q \in Thread : q # p => pc'[q] = pc[q]
      /\ done'[p] = 0 /\ \A q \in Thread : q # p => done'[q] = done[q]
  BY <1>0 DEF PoolInv, PoolType, BuildInv, DoneBounded
<1>2. /\ chunk_size[p] \in Nat /\ chunk_size[p] <= IntMax /\ task_ind[p] \in Nat
      /\ done[p] \in Nat /\ done[p] <= chunk_size[p] /\ IntMax \in Nat
  BY <1>0, SizeAssumption
     DEF PoolInv, PoolType, ChunksApart, BuildInv, DoneBounded
<1>3. AsInt(chunk_size[p]) = chunk_size[p]
  BY <1>2 DEF AsInt
<1>4. done[p] = chunk_size[p]
  BY <1>0, <1>2, <1>3
<1>5. \A e : InDone(p, e) <=> InChunk(p, e)
  BY <1>4 DEF InDone, InChunk
<1>6. \A e : ~ InDone(p, e)'
  BY <1>1 DEF InDone
<1>7. \A q \in Thread : q # p => \A e : InDone(q, e)' <=> InDone(q, e)
  BY <1>0, <1>1 DEF InDone
<1>8. ASSUME NEW e \in 0..(NrAdds - 1) PROVE calls'[e] = 1 <=> calls[e] = 1 \/ InChunk(p, e)
  <2>1. e \in Element
    BY AddFacts
  <2>2. calls'[e] = calls[e] + (IF InChunk(p, e) THEN 1 ELSE 0)
    BY <1>0, <1>3, <2>1 DEF Mapped, InChunk
  <2>3. calls[e] \in Nat
    BY <2>1 DEF PoolInv, PoolType
  <2>4. InChunk(p, e) => calls[e] = 0
    BY <1>0, <2>1 DEF PoolInv, CallsSoFar
  <2> QED BY <2>2, <2>3, <2>4
<1>9. \A e \in 0..(NrAdds - 1) :
        (calls'[e] = 1 \/ \E q \in Thread : InDone(q, e)')
          <=> (calls[e] = 1 \/ \E q \in Thread : InDone(q, e))
  BY <1>5, <1>6, <1>7, <1>8
<1> QED BY <1>9 DEF TreatedSet

LEMMA AddUnlockStep ==
  ASSUME PoolInv, BufferInv, BuildInv, NEW p \in Thread, AddUnlock(p)
  PROVE  BuildInv'
<1> DEFINE c == Current(p)
<1>0. /\ pc[p] = "call" /\ phase = "adds" /\ num_threads > 1
      /\ done[p] \in Nat /\ done[p] < chunk_size[p] /\ chunk_size[p] \in Nat
      /\ task_ind[p] \in Nat /\ InChunk(p, c) /\ c \in 0..(map_data_size - 1)
  <2>1. AtElement(p, "adds")
    BY DEF AddUnlock
  <2> QED BY <2>1, ElementFacts
<1>1. /\ UNCHANGED vars /\ UNCHANGED phase /\ nr_unlocks' = nr_unlocks + 1
      /\ done' = [done EXCEPT ![p] = @ + 1] /\ upc' = [upc EXCEPT ![p] = "check"]
  BY DEF AddUnlock, Treated, Buffer!Add, Buffer!Goto
<1>2. UNCHANGED <<num_threads, pc, task_ind, chunk_size, calls, map_data_size>>
  BY <1>1 DEF vars
<1>3. /\ done'[p] = done[p] + 1 /\ \A q \in Thread : q # p => done'[q] = done[q]
      /\ done' \in [Thread -> Nat]
  BY <1>0, <1>1 DEF BuildInv, DoneBounded
<1>4. Phases'
  BY <1>1, <1>2 DEF BuildInv, Phases
<1>5. DoneBounded'
  <2>1. done[p] + 1 <= chunk_size[p]
    BY <1>0
  <2> QED BY <1>0, <1>1, <1>2, <1>3, <2>1 DEF BuildInv, DoneBounded
<1>6. AddsInMap'
  <2>1. \A q \in Thread : q # p => upc'[q] = upc[q]
    BY <1>1 DEF BufferInv, BufferType
  <2> QED BY <1>0, <1>1, <1>2, <2>1 DEF BuildInv, AddsInMap
<1>7. map_data_size = NrAdds /\ nr_unlocks = Cardinality(TreatedSet) /\ c \in 0..(NrAdds - 1)
  BY <1>0 DEF BuildInv, AddsCounted
<1>10. c \notin TreatedSet /\ TreatedSet' = TreatedSet \cup {c}
  <2>1. AtElement(p, "adds") /\ Treated(p)
    BY DEF AddUnlock
  <2> QED BY <1>1, <1>7, <2>1, TreatedGrows
<1>12. AddsCounted'
  <2>1. TreatedSet \subseteq 0..(NrAdds - 1) /\ TreatedSet' \subseteq 0..(NrAdds - 1)
    BY DEF TreatedSet
  <2>2. IsFiniteSet(TreatedSet) /\ Cardinality(TreatedSet') <= NrAdds
    BY <2>1, WithinAdds
  <2>3. Cardinality(TreatedSet') = nr_unlocks'
    BY <1>1, <1>7, <1>10, <2>2, FS_AddElement
  <2> QED BY <1>2, <1>7, <2>2, <2>3 DEF AddsCounted
<1> QED BY <1>4, <1>5, <1>6, <1>12 DEF BuildInv

LEMMA CountStep ==
  ASSUME PoolInv, BuildInv, NEW p \in Thread, CountUnlock(p) \/ SortUnlock(p)
  PROVE  BuildInv'
<1>0. /\ pc[p] = "call" /\ phase \in {"counts", "sorts"} /\ num_threads > 1
      /\ done[p] \in Nat /\ done[p] < chunk_size[p] /\ chunk_size[p] \in Nat
  <2>1. AtElement(p, "counts") \/ AtElement(p, "sorts")
    BY DEF CountUnlock, SortUnlock
  <2> QED BY <2>1, ElementFacts
<1>1. /\ UNCHANGED vars /\ UNCHANGED <<phase, nr_unlocks, upc>>
      /\ done' = [done EXCEPT ![p] = @ + 1]
  BY DEF CountUnlock, SortUnlock, Treated, buffer
<1>2. UNCHANGED <<num_threads, pc, task_ind, chunk_size, calls, map_data_size>>
  BY <1>1 DEF vars
<1>3. /\ done'[p] = done[p] + 1 /\ \A q \in Thread : q # p => done'[q] = done[q]
      /\ done' \in [Thread -> Nat]
  BY <1>0, <1>1 DEF BuildInv, DoneBounded
<1>5. DoneBounded'
  <2>1. done[p] + 1 <= chunk_size[p]
    BY <1>0
  <2> QED BY <1>0, <1>1, <1>2, <1>3, <2>1 DEF BuildInv, DoneBounded
<1>6. Phases' /\ AddsCounted' /\ AddsInMap'
  BY <1>0, <1>1, <1>2 DEF BuildInv, Phases, AddsCounted, AddsInMap
<1> QED BY <1>5, <1>6 DEF BuildInv

LEMMA ReturnStep ==
  ASSUME PoolInv, BuildInv, NEW p \in Thread, Return(p)
  PROVE  BuildInv'
<1>0. /\ num_threads > 1 /\ pc[p] = "call" /\ pc' = [pc EXCEPT ![p] = "size"]
      /\ calls' = Mapped(task_ind[p], chunk_size[p])
      /\ UNCHANGED <<num_threads, map_data_size, chunk_size, task_ind>>
      /\ done' = [done EXCEPT ![p] = 0]
      /\ UNCHANGED <<nr_unlocks, upc, phase>>
      /\ phase # "plain" => done[p] >= AsInt(chunk_size[p]) /\ upc[p] = "idle"
  BY DEF Return, Call, Goto, request, buffer
<1>1. /\ pc'[p] = "size" /\ \A q \in Thread : q # p => pc'[q] = pc[q]
      /\ done'[p] = 0 /\ \A q \in Thread : q # p => done'[q] = done[q]
      /\ done' \in [Thread -> Nat]
  BY <1>0 DEF PoolInv, PoolType, BuildInv, DoneBounded
<1>2. Phases'
  BY <1>0 DEF BuildInv, Phases
<1>3. DoneBounded'
  BY <1>0, <1>1 DEF BuildInv, DoneBounded
<1>4. AddsInMap'
  <2>1. upc[p] = "idle"
    BY <1>0 DEF BuildInv, AddsInMap
  <2> QED BY <1>0, <1>1, <2>1 DEF BuildInv, AddsInMap
<1>5. AddsCounted'
  <2>1. CASE phase # "adds"
    BY <1>0, <2>1 DEF BuildInv, AddsCounted
  <2>2. CASE phase = "adds"
    <3>1. TreatedSet' = TreatedSet
      BY <2>2, TreatedReturn
    <3> QED BY <1>0, <3>1 DEF BuildInv, AddsCounted
  <2> QED BY <2>1, <2>2
<1> QED BY <1>2, <1>3, <1>4, <1>5 DEF BuildInv

LEMMA InAddStep ==
  ASSUME PoolInv, BufferInv, BuildInv, NEW p \in Thread, InAddUnlock(p)
  PROVE  BuildInv'
<1>1. /\ UNCHANGED vars /\ UNCHANGED <<phase, done, nr_unlocks>>
      /\ upc[p] # "idle"
      /\ \A q \in Thread : q # p => upc'[q] = upc[q]
  <2>1. UNCHANGED vars /\ UNCHANGED <<phase, done>> /\ Buffer!Step(p) /\ upc \in [Thread -> Label]
    BY DEF InAddUnlock, BufferInv, BufferType
  <2>2. /\ upc[p] # "idle" /\ nr_unlocks' = nr_unlocks
        /\ \A q \in Thread : q # p => upc'[q] = upc[q]
    <3>1. Buffer!Check(p) \/ Buffer!Spin(p) \/ Buffer!Guard(p) =>
            /\ upc[p] # "idle" /\ nr_unlocks' = nr_unlocks
            /\ \A q \in Thread : q # p => upc'[q] = upc[q]
      BY <2>1 DEF Buffer!Check, Buffer!Spin, Buffer!Guard, Buffer!Goto
    <3>2. Buffer!Load(p) \/ Buffer!Store(p) \/ Buffer!Complete(p) =>
            /\ upc[p] # "idle" /\ nr_unlocks' = nr_unlocks
            /\ \A q \in Thread : q # p => upc'[q] = upc[q]
      BY <2>1 DEF Buffer!Load, Buffer!Store, Buffer!Complete, Buffer!Goto
    <3>3. Buffer!Copy(p) \/ Buffer!Swap(p) \/ Buffer!Publish(p) =>
            /\ upc[p] # "idle" /\ nr_unlocks' = nr_unlocks
            /\ \A q \in Thread : q # p => upc'[q] = upc[q]
      BY <2>1 DEF Buffer!Copy, Buffer!Swap, Buffer!Publish, Buffer!Goto
    <3> QED BY <2>1, <3>1, <3>2, <3>3 DEF Buffer!Step
  <2> QED BY <2>1, <2>2
<1>2. UNCHANGED <<num_threads, pc, task_ind, chunk_size, calls, map_data_size>>
  BY <1>1 DEF vars
<1>3. TreatedSet' = TreatedSet
  BY <1>1, <1>2 DEF TreatedSet, InDone
<1>4. AddsInMap'
  BY <1>1, <1>2 DEF BuildInv, AddsInMap
<1> QED BY <1>1, <1>2, <1>3, <1>4 DEF BuildInv, Phases, DoneBounded, AddsCounted

LEMMA BuildKept ==
  ASSUME PoolInv, PoolInv', BufferInv, BuildInv, BuildNext \/ UNCHANGED allVars
  PROVE  BuildInv'
<1>1. CASE UNCHANGED allVars
  <2>1. UNCHANGED <<num_threads, pc, task_ind, chunk_size, calls, map_data_size,
                    phase, done, nr_unlocks, upc>>
    BY <1>1 DEF allVars, vars, buildVars, buffer
  <2>2. TreatedSet' = TreatedSet
    BY <2>1 DEF TreatedSet, InDone
  <2> QED BY <2>1, <2>2 DEF BuildInv, Phases, DoneBounded, AddsCounted, AddsInMap
<1>2. CASE UNCHANGED buildVars /\ phase = "plain"
  <2>1. UNCHANGED <<phase, done, nr_unlocks, upc>>
    BY <1>2 DEF buildVars, buffer
  <2>2. \A p \in Thread : done[p] = 0 /\ upc[p] = "idle"
    BY <1>2 DEF BuildInv, DoneBounded, AddsInMap
  <2>3. Phases' /\ AddsCounted' /\ AddsInMap'
    BY <1>2, <2>1, <2>2 DEF BuildInv, Phases, AddsCounted, AddsInMap
  <2>4. \A p \in Thread : chunk_size'[p] \in Nat
    BY DEF PoolInv, PoolType
  <2>5. DoneBounded'
    BY <2>1, <2>2, <2>4 DEF BuildInv, DoneBounded
  <2> QED BY <2>3, <2>5 DEF BuildInv
<1>3. ASSUME phase # "plain", UNCHANGED buildVars,
             \/ Clean \/ Open("wait") \/ Open("run") \/ CallAlone \/ Join \/ Gone
             \/ \E p \in Thread : PoolStep(p)
      PROVE  BuildInv'
  <2>1. num_threads > 1
    BY <1>3 DEF BuildInv, Phases
  <2>2. Between
    BY <1>3, <2>1, PoolBetween
  <2> QED BY <1>3, <2>1, <2>2, BetweenKeeps
<1>4. CASE Caller
  BY <1>4, CallerStep
<1>5. ASSUME NEW p \in Thread, MapperStep(p) PROVE BuildInv'
  BY <1>5, AddUnlockStep, InAddStep, CountStep, ReturnStep DEF MapperStep
<1> QED BY <1>1, <1>2, <1>3, <1>4, <1>5 DEF BuildNext, Pool

-----------------------------------------------------------------------------
(***************************************************************************)
(* The invariant holds, and what follows from it.                          *)
(***************************************************************************)
LEMMA InitHolds ==
  ASSUME BuildInit
  PROVE  IInv
<1>0. /\ Main \in Thread /\ Runner \subseteq Thread /\ Main \notin Runner
      /\ Thread = Runner \cup {Main} /\ IsFiniteSet(Thread)
      /\ Cardinality(Runner) \in Nat /\ Cardinality(Thread) = Cardinality(Runner) + 1
  BY ThreadFacts
<1>1. Init
  BY DEF BuildInit
<1>2. /\ num_threads \in Nat \ {0} /\ (num_threads > 1 => num_threads = Cardinality(Thread))
      /\ asleep = {} /\ woken = {} /\ posix \in BOOLEAN
      /\ count = [b \in {"run", "wait"} |-> 0]
      /\ map_data_size = 0 /\ map_data_count = 0 /\ map_data_chunk = 0
      /\ map_function = "NULL" /\ num_threads_running = 0
      /\ tid = [p \in Thread |-> 0] /\ chunk_size = [p \in Thread |-> 0]
      /\ task_ind = [p \in Thread |-> 0] /\ calls = [e \in Element |-> 0]
  BY <1>0, <1>1 DEF Init
<1>3. /\ pc \in [Thread -> MainLabel \cup RunnerLabel]
      /\ num_threads = 1 => pc[Main] = "idle" /\ \A r \in Runner : pc[r] = "gone"
      /\ num_threads # 1 => pc[Main] = "init" /\ \A r \in Runner : pc[r] = "wait"
  BY <1>0, <1>1 DEF Init, MainLabel, RunnerLabel
<1>4. Fits(0)
  BY AddFacts
<1>5. PoolType
  BY <1>0, <1>2, <1>3, <1>4 DEF PoolType, MainLabel, RunnerLabel
<1>6. Barriers
  <2>1. \A b \in {"run", "wait"} : Sleepers(b) = {} /\ count[b] = 0
    BY <1>2 DEF Sleepers
  <2> QED BY <1>2, <2>1, FS_EmptySet DEF Barriers
<1>7. num_threads > 1 => num_threads # 1
  BY <1>2
<1>8. Together /\ Request /\ Tids /\ CountBounded
  <2>1. Together
    BY <1>0, <1>2, <1>3, <1>7 DEF Together, Resting
  <2>2. Request
    BY <1>0, <1>2, <1>3, <1>7 DEF Request, Working
  <2> QED BY <1>2, <2>1, <2>2 DEF Tids, CountBounded, MapOn
<1>9. \A e \in Element : e \in Nat
  BY SizeAssumption DEF Element, Fits
<1>10. ChunksApart /\ CallsSoFar /\ Alone
  <2>1. \A p \in Thread : pc[p] # "call" /\ (num_threads # 1 => pc[p] # "get")
    BY <1>0, <1>3
  <2>2. ChunksApart
    BY <1>7, <2>1 DEF ChunksApart
  <2>3. \A e \in Element : calls[e] = 0 /\ ~ (e < map_data_size)
    BY <1>2, <1>9
  <2>4. CallsSoFar
    BY <2>3 DEF CallsSoFar
  <2> QED BY <1>0, <1>3, <2>1, <2>2, <2>3, <2>4 DEF Alone
<1>11. PoolInv
  BY <1>5, <1>6, <1>8, <1>10 DEF PoolInv
<1>12. /\ nr_unlocks = 0 /\ size_unlocks = InitSize /\ completed_unlock_writes = 0
       /\ unlocks = [k \in 0..(InitSize - 1) |-> Nothing] /\ version = 0
       /\ upc = [p \in Thread |-> "idle"] /\ ind = [p \in Thread |-> 0]
       /\ ptr = [p \in Thread |-> 0] /\ InitSize \in Nat \ {0}
  BY GraphAssumption DEF BuildInit, Buffer!Init
<1>13. BufferInv
  <2>1. BufferType
    BY <1>12 DEF BufferType, Label
  <2>2. \A p \in Thread : upc[p] = "idle"
    BY <1>12
  <2>3. Written = {}
    BY <1>12 DEF Written
  <2>4. WritesCounted
    BY <1>12, <2>3, FS_EmptySet DEF WritesCounted
  <2>5. IndexOwned /\ RoomChecked /\ NoneBelow /\ PointerCurrent
    BY <2>2 DEF IndexOwned, RoomChecked, NoneBelow, PointerCurrent, Growing, Installing
  <2>6. ArraySize
    BY <1>12, <2>2 DEF ArraySize
  <2> QED BY <2>1, <2>4, <2>5, <2>6 DEF BufferInv
<1>14. BuildInv
  <2>1. done = [p \in Thread |-> 0] /\ phase \in {"plain", "reset"}
        /\ (phase = "reset" => num_threads > 1)
    BY DEF BuildInit
  <2>2. Phases
    BY <2>1 DEF Phases
  <2>3. DoneBounded
    BY <1>2, <2>1 DEF DoneBounded
  <2>4. 0 <= NrAdds
    BY AddFacts
  <2> QED BY <1>12, <2>1, <2>2, <2>3, <2>4 DEF BuildInv, AddsCounted, AddsInMap
<1> QED BY <1>11, <1>13, <1>14 DEF IInv

LEMMA StepKeeps ==
  ASSUME IInv, [BuildNext]_allVars
  PROVE  IInv'
<1>1. PoolInv /\ BufferInv /\ BuildInv
  BY DEF IInv
<1>2. UNCHANGED allVars => UNCHANGED vars
  BY DEF allVars
<1>3. PoolInv'
  BY <1>1, <1>2, BuildIsPool, PoolKept
<1>4. BufferInv'
  BY <1>1, BufferKept
<1>5. BuildInv'
  BY <1>1, <1>3, BuildKept
<1> QED BY <1>3, <1>4, <1>5 DEF IInv

LEMMA InvariantHolds == BuildSpec => []IInv
<1>1. BuildInit => IInv
  BY InitHolds
<1>2. IInv /\ [BuildNext]_allVars => IInv'
  BY StepKeeps
<1> QED BY <1>1, <1>2, PTL DEF BuildSpec

(***************************************************************************)
(* When threadpool_map returns, every element of the array was given to    *)
(* the mapper once, nothing past the end of the array was, and no thread   *)
(* of the pool is still in the mapper: with POSIX barriers and with the    *)
(* ones of barrier.h, for any number of threads, sizes and chunks.         *)
(***************************************************************************)
THEOREM EveryElementOnce == BuildSpec => []MapComplete
<1>1. IInv => MapComplete
  <2> SUFFICES ASSUME IInv, pc[Main] = "idle"
               PROVE  /\ \A e \in Element : calls[e] = IF e < map_data_size THEN 1 ELSE 0
                      /\ \A r \in Runner : pc[r] \in {"wait", "run", "gone"}
    BY DEF MapComplete
  <2>0. PoolInv /\ PoolType
    BY DEF IInv, PoolInv
  <2>1. CASE num_threads = 1
    BY <2>0, <2>1 DEF PoolInv, Alone
  <2>2. CASE num_threads # 1
    <3>1. num_threads > 1
      BY <2>0, <2>2 DEF PoolType
    <3>2. \A p \in Thread : Resting(p)
      BY <2>0, <3>1, ThreadFacts DEF PoolInv, Together, Resting
    <3>3. \A p \in Thread : pc[p] \in {"idle", "init", "wait", "run", "clean"}
      BY <2>0, <3>2, RestingWhere
    <3>4. \A r \in Runner : pc[r] \in {"wait", "run", "gone"}
      BY <2>0, <3>3, ThreadFacts DEF PoolType, RunnerLabel
    <3>5. map_data_count >= map_data_size /\ map_data_count \in Nat /\ map_data_size \in Nat
      BY <2>0, <3>1 DEF PoolInv, Request, PoolType, Fits
    <3>6. \A e \in Element : e \in Nat
      BY SizeAssumption DEF Element, Fits
    <3>7. \A e \in Element : (e < map_data_count /\ e < map_data_size) <=> e < map_data_size
      BY <3>5, <3>6
    <3>8. \A e \in Element : ~ \E p \in Thread : InChunk(p, e)
      BY <3>3 DEF InChunk
    <3> QED BY <2>0, <3>1, <3>4, <3>7, <3>8 DEF PoolInv, CallsSoFar
  <2> QED BY <2>1, <2>2
<1> QED BY <1>1, InvariantHolds, PTL

(***************************************************************************)
(* The threads that work on a map at the same time have different numbers: *)
(* what atomic_inc gives the runners, and the caller's num_threads - 1.    *)
(***************************************************************************)
THEOREM NumbersDiffer == BuildSpec => []TidsDistinct
<1>1. IInv => TidsDistinct
  <2> SUFFICES ASSUME IInv, NEW p \in Thread, NEW q \in Thread, p # q,
                      pc[p] \in {"size", "get", "call"}, pc[q] \in {"size", "get", "call"}
               PROVE  tid[p] # tid[q]
    BY DEF TidsDistinct
  <2>0. PoolInv /\ PoolType
    BY DEF IInv, PoolInv
  <2>1. num_threads > 1
    <3>1. num_threads = 1 => p = Main /\ q = Main
      BY <2>0, ThreadFacts DEF PoolInv, Alone
    <3> QED BY <2>0, <3>1 DEF PoolType
  <2>2. MapOn
    <3>1. map_function = "f" /\ ~ Resting(p)
      BY <2>0, <2>1, ThreadFacts DEF PoolInv, Request, Resting, Working
    <3> QED BY <2>0, <2>1, <3>1, ThreadFacts DEF PoolInv, MapOn, Together
  <2>3. ASSUME NEW r \in Runner, pc[r] \in Working PROVE tid[r] < num_threads - 1
    <3>1. IsFiniteSet(Runner) /\ Taken \subseteq Runner
      BY ThreadAssumption DEF Taken
    <3>2. Cardinality(Taken) <= Cardinality(Runner)
      BY <3>1, FS_Subset
    <3>3. /\ tid[r] \in 0..(num_threads_running - 1) /\ num_threads_running = Cardinality(Taken)
          /\ num_threads = Cardinality(Thread) /\ num_threads_running \in Nat
      BY <2>0, <2>1, <2>2, <2>3 DEF PoolInv, Tids, PoolType
    <3>4. Cardinality(Runner) \in Nat /\ Cardinality(Thread) = Cardinality(Runner) + 1
      BY ThreadFacts
    <3> QED BY <3>2, <3>3, <3>4
  <2>4. pc[Main] \in Working => tid[Main] = num_threads - 1 /\ tid[Main] \in Int
    BY <2>0, <2>2, ThreadFacts DEF PoolInv, Tids, PoolType
  <2>5. CASE p \in Runner /\ q \in Runner
    BY <2>0, <2>2, <2>5 DEF PoolInv, Tids, Working
  <2>6. CASE p = Main /\ q \in Runner
    BY <2>3, <2>4, <2>6 DEF Working
  <2>7. CASE q = Main /\ p \in Runner
    BY <2>3, <2>4, <2>7 DEF Working
  <2> QED BY <2>5, <2>6, <2>7, ThreadFacts
<1> QED BY <1>1, InvariantHolds, PTL

(***************************************************************************)
(* scheduler_addunlock never writes to an array that was freed nor past    *)
(* the end of one: the thread that replaces the array waits for all writes *)
(* below its index, and whoever has a larger index has not yet read the    *)
(* pointer.                                                                *)
(***************************************************************************)
THEOREM NoWriteLost == BuildSpec => []WritesLand
<1>1. IInv => WritesLand
  <2> SUFFICES ASSUME IInv, NEW p \in Thread, upc[p] = "store"
               PROVE  Buffer!Lands(p)
    BY DEF WritesLand
  <2>0. BufferInv /\ size_unlocks \in Nat /\ ind[p] \in Nat
    BY DEF IInv, BufferInv, BufferType
  <2>1. ptr[p] = version /\ ind[p] < size_unlocks
    BY <2>0 DEF BufferInv, PointerCurrent, RoomChecked
  <2>2. ~ \E q \in Thread : upc[q] \in Installing
    <3>1. \A q \in Thread : upc[q] \in Installing => ind[p] >= size_unlocks
      BY <2>0 DEF BufferInv, NoneBelow
    <3> QED BY <2>0, <2>1, <3>1
  <2>3. DOMAIN unlocks = 0..(size_unlocks - 1)
    BY <2>0, <2>2 DEF BufferInv, ArraySize, Installing
  <2> QED BY <2>0, <2>1, <2>3 DEF Buffer!Lands
<1> QED BY <1>1, InvariantHolds, PTL

-----------------------------------------------------------------------------
(* The steps of a call of scheduler_addunlock neither add an entry to those *)
(* that are held nor take one away.                                         *)
HeldSame ==
  /\ Arrives'
  /\ \A k \in Written' : unlocks'[k] \in Deps
  /\ \A d \in Deps : Holding(d)' = Holding(d)

(* The thread stays in its call, and what was written is not changed. *)
LEMMA GoesHeld ==
  ASSUME BufferInv, NEW p \in Thread, NEW l, Goes(p, l), dep' = dep,
         \A k \in Written : unlocks'[k] = unlocks[k] /\ unlocks[k] \in Deps,
         Arrives'
  PROVE  HeldSame
<1>1. /\ Written' = Written /\ nr_unlocks' = nr_unlocks /\ ind' = ind
      /\ upc[p] # "idle" /\ upc'[p] # "idle" /\ \A q \in Thread : q # p => upc'[q] = upc[q]
  BY GoesKeeps DEF Goes
<1>2. \A k, d : OnItsWay(k, d)' <=> OnItsWay(k, d)
  BY <1>1 DEF OnItsWay
<1>3. \A d \in Deps : Holding(d)' = Holding(d)
  BY <1>1, <1>2 DEF Holding
<1> QED BY <1>1, <1>3 DEF HeldSame

LEMMA WalkHeld ==
  ASSUME BufferInv, Arrives, \A k \in Written : unlocks[k] \in Deps, NEW p \in Thread,
         \/ Buffer!Check(p) \/ Buffer!Spin(p) \/ Buffer!Guard(p) \/ Buffer!Load(p)
  PROVE  HeldSame
<1>0. upc \in [Thread -> Label]
  BY DEF BufferInv, BufferType
<1>1. PICK l \in {"grow", "spin", "guard", "grow2", "load", "store"} :
        upc' = [upc EXCEPT ![p] = l] /\ upc[p] # "idle"
  <2>1. CASE Buffer!Check(p)
    BY <2>1 DEF Buffer!Check, Buffer!Goto
  <2>2. CASE Buffer!Spin(p)
    <3>1. CASE UNCHANGED upc
      <4>1. upc' = [upc EXCEPT ![p] = "spin"] /\ upc[p] = "spin"
        BY <1>0, <2>2, <3>1 DEF Buffer!Spin
      <4> QED BY <4>1
    <3>2. CASE upc' = [upc EXCEPT ![p] = "guard"]
      BY <2>2, <3>2 DEF Buffer!Spin
    <3> QED BY <2>2, <3>1, <3>2 DEF Buffer!Spin, Buffer!Goto
  <2>3. CASE Buffer!Guard(p)
    BY <2>3 DEF Buffer!Guard, Buffer!Goto
  <2>4. CASE Buffer!Load(p)
    BY <2>4 DEF Buffer!Load, Buffer!Goto
  <2> QED BY <2>1, <2>2, <2>3, <2>4
<1>2. UNCHANGED <<nr_unlocks, size_unlocks, completed_unlock_writes, unlocks, fresh, ind, dep>>
  BY DEF Buffer!Check, Buffer!Spin, Buffer!Guard, Buffer!Load
<1>3. Goes(p, l)
  BY <1>1, <1>2 DEF Goes, Label
<1>4. Arrives'
  <2>1. \A q \in Thread : /\ upc'[q] # "idle" => upc[q] # "idle"
                          /\ upc'[q] = "complete" => upc[q] = "complete"
                          /\ upc'[q] \in {"swap", "swap2"} => upc[q] \in {"swap", "swap2"}
    BY <1>0, <1>1
  <2> QED BY <1>2, <2>1 DEF Arrives
<1> QED BY <1>2, <1>3, <1>4, GoesHeld

(* A write that is pending keeps the array from being replaced. *)
LEMMA WriteLands ==
  ASSUME BufferInv, NEW p \in Thread, upc[p] \in {"store", "complete"}
  PROVE  /\ \A q \in Thread : upc[q] \notin Installing
         /\ ind[p] \in DOMAIN unlocks /\ ind[p] \notin Written
         /\ upc[p] = "store" => Buffer!Lands(p)
<1>0. size_unlocks \in Nat /\ ind[p] \in Nat /\ ind[p] < size_unlocks
  BY DEF BufferInv, BufferType, RoomChecked
<1>1. \A q \in Thread : upc[q] \notin Installing
  BY <1>0 DEF BufferInv, NoneBelow
<1>2. DOMAIN unlocks = 0..(size_unlocks - 1)
  BY <1>1 DEF BufferInv, ArraySize, Installing
<1>3. ind[p] \in Pending
  BY DEF Pending
<1> QED BY <1>0, <1>1, <1>2, <1>3 DEF Buffer!Lands, BufferInv, PointerCurrent, Written

LEMMA StoreHeld ==
  ASSUME BufferInv, Arrives, \A k \in Written : unlocks[k] \in Deps, NEW p \in Thread,
         Buffer!Store(p)
  PROVE  HeldSame
<1>0. upc \in [Thread -> Label]
  BY DEF BufferInv, BufferType
<1>1. /\ upc[p] = "store" /\ upc' = [upc EXCEPT ![p] = "complete"]
      /\ UNCHANGED <<nr_unlocks, size_unlocks, completed_unlock_writes, fresh, ind, dep>>
  BY DEF Buffer!Store, Buffer!Goto
<1>2. /\ \A q \in Thread : upc[q] \notin Installing
      /\ ind[p] \in DOMAIN unlocks /\ ind[p] \notin Written
      /\ Buffer!Lands(p)
  BY <1>1, WriteLands
<1>3. unlocks' = [unlocks EXCEPT ![ind[p]] = dep[p]]
  BY <1>2 DEF Buffer!Store
<1>4. unlocks'[ind[p]] = dep[p] /\ \A k \in DOMAIN unlocks : k # ind[p] => unlocks'[k] = unlocks[k]
  BY <1>2, <1>3
<1>5. Goes(p, "complete")
  BY <1>1 DEF Goes, Label
<1>6. \A k \in Written : unlocks'[k] = unlocks[k]
  <2>1. Written \subseteq DOMAIN unlocks
    BY <1>2 DEF BufferInv, WritesCounted, ArraySize, Installing
  <2> QED BY <1>2, <1>4, <2>1
<1>7. Arrives'
  <2>1. \A q \in Thread : q # p => upc'[q] = upc[q]
    BY <1>0, <1>1
  <2>2. ASSUME NEW q \in Thread, upc'[q] = "complete" PROVE unlocks'[ind'[q]] = dep'[q]
    <3>1. CASE q = p
      BY <1>1, <1>4, <3>1
    <3>2. CASE q # p
      <4>1. upc[q] = "complete"
        BY <2>1, <2>2, <3>2
      <4>2. ind[q] # ind[p] /\ ind[q] \in DOMAIN unlocks
        BY <1>1, <3>2, <4>1, WriteLands DEF BufferInv, IndexOwned
      <4> QED BY <1>1, <1>4, <4>1, <4>2 DEF Arrives
    <3> QED BY <3>1, <3>2
  <2>3. \A q \in Thread : upc'[q] \notin {"swap", "swap2"}
    BY <1>0, <1>1, <1>2, <2>1 DEF Installing
  <2>4. \A q \in Thread : upc'[q] # "idle" => upc[q] # "idle"
    BY <1>1, <2>1
  <2> QED BY <1>1, <2>2, <2>3, <2>4 DEF Arrives
<1> QED BY <1>1, <1>5, <1>6, <1>7, GoesHeld

LEMMA CompleteHeld ==
  ASSUME BufferInv, Arrives, \A k \in Written : unlocks[k] \in Deps, NEW p \in Thread,
         Buffer!Complete(p)
  PROVE  HeldSame
<1>0. /\ upc \in [Thread -> Label] /\ nr_unlocks \in Nat /\ ind \in [Thread -> Nat]
  BY DEF BufferInv, BufferType
<1>1. /\ upc[p] = "complete" /\ upc' = [upc EXCEPT ![p] = "idle"]
      /\ ind' = [ind EXCEPT ![p] = 0] /\ dep' = [dep EXCEPT ![p] = Nothing]
      /\ UNCHANGED <<nr_unlocks, size_unlocks, unlocks, fresh>>
  BY DEF Buffer!Complete, Buffer!Goto
<1>2. /\ upc'[p] = "idle" /\ \A q \in Thread : q # p => upc'[q] = upc[q] /\ ind'[q] = ind[q]
  BY <1>0, <1>1
<1>3. \A q \in Thread : q # p => dep'[q] = dep[q]
  BY <1>1
<1>4. ind[p] \in 0..(nr_unlocks - 1) /\ unlocks[ind[p]] = dep[p] /\ dep[p] \in Deps
  BY <1>0, <1>1 DEF BufferInv, IndexOwned, Arrives
<1>5. Written' = Written \cup {ind[p]}
  <2>1. \A q \in Thread : q # p /\ upc[q] # "idle" => ind[q] # ind[p]
    BY <1>1 DEF BufferInv, IndexOwned
  <2>2. \A k : k \in Pending' <=> k \in Pending /\ k # ind[p]
    <3>1. \A k : k \in Pending' <=> \E q \in Thread : upc'[q] # "idle" /\ k = ind'[q]
      BY DEF Pending
    <3>2. \A k : k \in Pending <=> \E q \in Thread : upc[q] # "idle" /\ k = ind[q]
      BY DEF Pending
    <3> QED BY <1>1, <1>2, <2>1, <3>1, <3>2
  <2> QED BY <1>1, <1>4, <2>2 DEF Written
<1>6. \A k, d : OnItsWay(k, d) <=> OnItsWay(k, d)' \/ (k = ind[p] /\ d = dep[p])
  BY <1>1, <1>2, <1>3 DEF OnItsWay
<1>7. \A k, d : k = ind[p] => ~ OnItsWay(k, d)'
  BY <1>1, <1>2 DEF OnItsWay, BufferInv, IndexOwned
<1>8. ASSUME NEW d \in Deps PROVE Holding(d)' = Holding(d)
  <2>1. ASSUME NEW k \in 0..(nr_unlocks - 1)
        PROVE  (k \in Written' /\ unlocks[k] = d) \/ OnItsWay(k, d)'
                 <=> (k \in Written /\ unlocks[k] = d) \/ OnItsWay(k, d)
    <3>1. CASE k = ind[p]
      <4>1. k \notin Written
        BY <1>1, <3>1, WriteLands
      <4>2. OnItsWay(k, d) => d = dep[p]
        BY <1>6, <1>7, <3>1
      <4> QED BY <1>4, <1>5, <1>6, <3>1, <4>1, <4>2
    <3>2. CASE k # ind[p]
      BY <1>5, <1>6, <3>2
    <3> QED BY <3>1, <3>2
  <2>2. Holding(d)' = {k \in 0..(nr_unlocks - 1) : (k \in Written' /\ unlocks[k] = d) \/ OnItsWay(k, d)'}
    BY <1>1 DEF Holding
  <2> QED BY <2>1, <2>2 DEF Holding
<1>9. Arrives'
  BY <1>1, <1>2, <1>3 DEF Arrives
<1>10. \A k \in Written' : unlocks'[k] \in Deps
  BY <1>1, <1>4, <1>5
<1> QED BY <1>8, <1>9, <1>10 DEF HeldSame

LEMMA CopyHeld ==
  ASSUME BufferInv, Arrives, \A k \in Written : unlocks[k] \in Deps, NEW p \in Thread,
         Buffer!Copy(p)
  PROVE  HeldSame
<1>0. /\ upc \in [Thread -> Label] /\ size_unlocks \in Nat
  BY DEF BufferInv, BufferType
<1>1. /\ upc[p] \in {"grow", "grow2"}
      /\ UNCHANGED <<nr_unlocks, size_unlocks, completed_unlock_writes, unlocks, ind, dep>>
  BY DEF Buffer!Copy
<1>2. CASE UNCHANGED <<fresh, upc>>
  <2>1. Goes(p, upc[p])
    BY <1>0, <1>1, <1>2 DEF Goes, Label
  <2>2. Arrives'
    BY <1>1, <1>2 DEF Arrives
  <2> QED BY <1>1, <2>1, <2>2, GoesHeld
<1>3. CASE ~ UNCHANGED <<fresh, upc>>
  <2>1. PICK l \in {"swap", "swap2"} : fresh' = Buffer!Doubled /\ upc' = [upc EXCEPT ![p] = l]
    BY <1>3 DEF Buffer!Copy, Buffer!Goto
  <2>2. Goes(p, l)
    BY <1>1, <2>1 DEF Goes, Label
  <2>3. \A k \in 0..(size_unlocks - 1) : fresh'[k] = unlocks[k]
    BY <1>0, <2>1 DEF Buffer!Doubled
  <2>4. \A q \in Thread : /\ upc'[q] # "idle" => upc[q] # "idle"
                          /\ upc'[q] = "complete" => upc[q] = "complete"
    BY <1>0, <1>1, <2>1
  <2>5. Arrives'
    BY <1>1, <2>3, <2>4 DEF Arrives
  <2> QED BY <1>1, <2>2, <2>5, GoesHeld
<1> QED BY <1>2, <1>3

LEMMA SwapHeld ==
  ASSUME BufferInv, Arrives, \A k \in Written : unlocks[k] \in Deps, NEW p \in Thread,
         Buffer!Swap(p) \/ Buffer!Publish(p)
  PROVE  HeldSame
<1>0. /\ upc \in [Thread -> Label] /\ size_unlocks \in Nat
  BY DEF BufferInv, BufferType
<1>1. PICK l \in {"publish", "publish2", "spin", "load"} :
        upc' = [upc EXCEPT ![p] = l] /\ upc[p] \in Installing
  BY DEF Buffer!Swap, Buffer!Publish, Buffer!Goto, Installing
<1>2. UNCHANGED <<nr_unlocks, completed_unlock_writes, ind, dep>>
  BY DEF Buffer!Swap, Buffer!Publish
<1>3. Goes(p, l)
  BY <1>1, <1>2 DEF Goes, Label, Installing
<1>4. \A k \in Written : unlocks'[k] = unlocks[k]
  <2>1. CASE Buffer!Swap(p)
    <3>1. unlocks' = fresh /\ upc[p] \in {"swap", "swap2"}
      BY <2>1 DEF Buffer!Swap
    <3> QED BY <3>1 DEF Arrives, BufferInv, WritesCounted
  <2>2. CASE Buffer!Publish(p)
    BY <2>2 DEF Buffer!Publish
  <2> QED BY <2>1, <2>2
<1>5. Arrives'
  <2>1. \A q \in Thread : upc[q] # "complete"
    BY <1>1, WriteLands
  <2>2. \A q \in Thread : q # p => upc[q] \notin Installing
    BY <1>1, OneGrower DEF Growing
  <2>3. \A q \in Thread : /\ upc'[q] # "idle" => upc[q] # "idle"
                          /\ upc'[q] # "complete" /\ upc'[q] \notin {"swap", "swap2"}
    BY <1>0, <1>1, <2>1, <2>2 DEF Installing
  <2> QED BY <1>2, <2>3 DEF Arrives
<1> QED BY <1>2, <1>3, <1>4, <1>5, GoesHeld

LEMMA InAddHeld ==
  ASSUME BufferInv, Arrives, \A k \in Written : unlocks[k] \in Deps, NEW p \in Thread,
         Buffer!Step(p)
  PROVE  HeldSame
BY WalkHeld, StoreHeld, CompleteHeld, CopyHeld, SwapHeld DEF Buffer!Step

LEMMA InAddSort ==
  ASSUME PoolInv, BufferInv, BuildInv, SortInv, NEW p \in Thread, InAddUnlock(p)
  PROVE  SortInv'
<1>1. Buffer!Step(p) /\ UNCHANGED vars /\ UNCHANGED <<phase, done>>
  BY DEF InAddUnlock
<1>2. upc[p] # "idle"
  BY <1>1 DEF Buffer!Step, Buffer!Check, Buffer!Spin, Buffer!Guard, Buffer!Load, Buffer!Store,
              Buffer!Complete, Buffer!Copy, Buffer!Swap, Buffer!Publish
<1>3. phase = "adds"
  BY <1>2 DEF BuildInv, AddsInMap
<1>4. HeldSame
  BY <1>1, <1>3, InAddHeld DEF SortInv, EntriesAreAdds
<1>5. TreatedSet' = TreatedSet
  BY <1>1 DEF TreatedSet, InDone, vars
<1>6. EntriesAreAdds'
  BY <1>1, <1>3, <1>4, <1>5 DEF SortInv, EntriesAreAdds, HeldSame, AddsOf
<1>7. CountsSoFar' /\ SortsSoFar' /\ UnlocksAsAdded'
  BY <1>1, <1>3 DEF CountsSoFar, SortsSoFar, UnlocksAsAdded
<1> QED BY <1>4, <1>6, <1>7 DEF SortInv, HeldSame

(* One more element in a set, if a condition holds. *)
LEMMA OneMore ==
  ASSUME NEW S, IsFiniteSet(S), NEW T, NEW x, x \notin S,
         NEW c \in BOOLEAN, T = IF c THEN S \cup {x} ELSE S
  PROVE  Cardinality(T) = Cardinality(S) + (IF c THEN 1 ELSE 0) /\ Cardinality(S) \in Nat
<1>1. Cardinality(S) \in Nat
  BY FS_CardinalityType
<1>2. Cardinality(S \cup {x}) = Cardinality(S) + 1
  BY FS_AddElement
<1> QED BY <1>1, <1>2

LEMMA AllFacts ==
  /\ IsFiniteSet(All) /\ Cardinality(All) = NrAdds /\ NrAdds \in Nat
  /\ \A S \in SUBSET All : IsFiniteSet(S) /\ Cardinality(S) \in Nat
  /\ TreatedSet \subseteq All
<1>1. NrAdds \in Nat
  BY AddFacts
<1>2. IsFiniteSet(All) /\ Cardinality(All) = NrAdds
  BY <1>1, FS_Interval DEF All
<1>3. ASSUME NEW S \in SUBSET All PROVE IsFiniteSet(S) /\ Cardinality(S) \in Nat
  BY <1>2, FS_Subset, FS_CardinalityType
<1>4. TreatedSet \subseteq All
  BY DEF TreatedSet, All
<1> QED BY <1>1, <1>2, <1>3, <1>4

LEMMA AddUnlockSort ==
  ASSUME PoolInv, BufferInv, BuildInv, SortInv, NEW p \in Thread, AddUnlock(p)
  PROVE  SortInv'
<1> DEFINE c == Current(p)
<1>0. /\ nr_unlocks \in Nat /\ upc \in [Thread -> Label] /\ ind \in [Thread -> Nat]
      /\ Adds \in [All -> Deps]
  BY GraphAssumption DEF BufferInv, BufferType, All, Deps
<1>1. /\ AtElement(p, "adds") /\ Buffer!Add(p, Adds[c]) /\ Treated(p)
      /\ UNCHANGED vars /\ UNCHANGED phase
  BY DEF AddUnlock
<1>2. phase = "adds" /\ map_data_size = NrAdds
  BY <1>1 DEF AtElement, BuildInv, AddsCounted
<1>3. c \in All /\ c \notin TreatedSet /\ TreatedSet' = TreatedSet \cup {c}
  BY <1>1, <1>2, TreatedGrows
<1> HIDE DEF c
<1>4. /\ upc[p] = "idle" /\ upc' = [upc EXCEPT ![p] = "check"]
      /\ ind' = [ind EXCEPT ![p] = nr_unlocks] /\ dep' = [dep EXCEPT ![p] = Adds[c]]
      /\ nr_unlocks' = nr_unlocks + 1
      /\ UNCHANGED <<size_unlocks, unlocks, fresh>>
  BY <1>1 DEF Buffer!Add, Buffer!Goto
<1>5. /\ upc'[p] = "check" /\ ind'[p] = nr_unlocks
      /\ \A q \in Thread : q # p => upc'[q] = upc[q] /\ ind'[q] = ind[q]
  BY <1>0, <1>4
<1>6. \A q \in Thread : q # p => dep'[q] = dep[q]
  BY <1>4
<1>7. dep'[p] = Adds[c]
  <2>1. p \in DOMAIN dep
    BY DEF SortInv, Arrives
  <2> QED BY <1>4, <2>1
<1>8. Written' = Written
  <2>1. \A k : k \in Pending' <=> k \in Pending \/ k = nr_unlocks
    <3>1. \A k : k \in Pending' <=> \E q \in Thread : upc'[q] # "idle" /\ k = ind'[q]
      BY DEF Pending
    <3>2. \A k : k \in Pending <=> \E q \in Thread : upc[q] # "idle" /\ k = ind[q]
      BY DEF Pending
    <3> QED BY <1>4, <1>5, <3>1, <3>2
  <2> QED BY <1>0, <1>4, <2>1 DEF Written
<1>9. \A k, d : OnItsWay(k, d)' <=> OnItsWay(k, d) \/ (k = nr_unlocks /\ d = Adds[c])
  BY <1>4, <1>5, <1>6, <1>7 DEF OnItsWay
<1>10. ASSUME NEW d \in Deps
       PROVE  Cardinality(Holding(d)') = Cardinality(AddsOf(TreatedSet', d))
  <2>1. nr_unlocks \notin Holding(d) /\ nr_unlocks \notin Written
    BY <1>0 DEF Holding, Written
  <2>2. Holding(d)' = IF d = Adds[c] THEN Holding(d) \cup {nr_unlocks} ELSE Holding(d)
    <3>1. \A k : OnItsWay(k, d) => k \in 0..(nr_unlocks - 1)
      BY <1>0 DEF OnItsWay, BufferInv, IndexOwned
    <3>2. \A k : k \in Written => k \in 0..(nr_unlocks - 1)
      BY DEF Written
    <3>3. \A k : k \in Holding(d)' <=>
            k \in 0..nr_unlocks /\ ((k \in Written /\ unlocks[k] = d) \/ OnItsWay(k, d)')
      BY <1>0, <1>4, <1>8 DEF Holding
    <3>4. \A k : k \in Holding(d) <=>
            k \in 0..(nr_unlocks - 1) /\ ((k \in Written /\ unlocks[k] = d) \/ OnItsWay(k, d))
      BY DEF Holding
    <3>5. \A k : k \in Holding(d)' <=> k \in Holding(d) \/ (k = nr_unlocks /\ d = Adds[c])
      BY <1>0, <1>9, <3>1, <3>2, <3>3, <3>4
    <3> QED BY <3>5
  <2>3. IsFiniteSet(Holding(d))
    <3>1. IsFiniteSet(0..(nr_unlocks - 1))
      BY <1>0, FS_Interval
    <3> QED BY <3>1, FS_Subset DEF Holding
  <2>4. Cardinality(Holding(d)') = Cardinality(Holding(d)) + (IF d = Adds[c] THEN 1 ELSE 0)
    BY <2>1, <2>2, <2>3, OneMore
  <2>5. AddsOf(TreatedSet', d) = IF d = Adds[c] THEN AddsOf(TreatedSet, d) \cup {c} ELSE AddsOf(TreatedSet, d)
    BY <1>3 DEF AddsOf
  <2>6. IsFiniteSet(AddsOf(TreatedSet, d)) /\ c \notin AddsOf(TreatedSet, d)
    BY <1>3, AllFacts DEF AddsOf
  <2>7. Cardinality(AddsOf(TreatedSet', d)) = Cardinality(AddsOf(TreatedSet, d)) + (IF d = Adds[c] THEN 1 ELSE 0)
    BY <2>5, <2>6, OneMore
  <2>8. Cardinality(Holding(d)) = Cardinality(AddsOf(TreatedSet, d))
    BY <1>2 DEF SortInv, EntriesAreAdds
  <2> QED BY <2>4, <2>7, <2>8
<1>11. EntriesAreAdds'
  BY <1>1, <1>2, <1>4, <1>8, <1>10 DEF SortInv, EntriesAreAdds, AddsOf
<1>12. Arrives'
  <2>1. Adds[c] \in Deps
    BY <1>0, <1>3
  <2> QED BY <1>4, <1>5, <1>6, <1>7, <2>1 DEF SortInv, Arrives
<1>13. CountsSoFar' /\ SortsSoFar' /\ UnlocksAsAdded'
  BY <1>1, <1>2 DEF CountsSoFar, SortsSoFar, UnlocksAsAdded
<1> QED BY <1>11, <1>12, <1>13 DEF SortInv

-----------------------------------------------------------------------------
(* After the adds every entry is written. *)
LEMMA EntryFacts ==
  ASSUME BufferInv, BuildInv, SortInv, phase \in {"counts", "sorts"}
  PROVE  /\ nr_unlocks = NrAdds /\ map_data_size = NrAdds /\ Written = All
         /\ NrAdds <= size_unlocks /\ size_unlocks \in Nat
         /\ \A k \in All : /\ unlocks[k] \in Deps /\ unlocks[k][1] \in Tasks
                           /\ unlocks[k][2] \in Tasks
                           /\ unlocks[k] = <<unlocks[k][1], unlocks[k][2]>>
<1>1. nr_unlocks = NrAdds /\ map_data_size = NrAdds
  BY DEF SortInv, EntriesAreAdds
<1>2. \A p \in Thread : upc[p] = "idle"
  BY DEF BuildInv, AddsInMap
<1>3. Written = All
  BY <1>1, <1>2 DEF Written, Pending, All
<1>4. NrAdds \in Nat /\ size_unlocks \in Nat
  BY AddFacts DEF BufferInv, BufferType
<1>5. NrAdds <= size_unlocks
  <2>1. CASE NrAdds = 0
    BY <1>4, <2>1
  <2>2. CASE NrAdds # 0
    <3>1. NrAdds - 1 \in All
      BY <1>4, <2>2 DEF All
    <3> QED BY <1>3, <1>4, <3>1 DEF BufferInv, WritesCounted
  <2> QED BY <2>1, <2>2
<1>6. ASSUME NEW k \in All
      PROVE  /\ unlocks[k] \in Deps /\ unlocks[k][1] \in Tasks /\ unlocks[k][2] \in Tasks
             /\ unlocks[k] = <<unlocks[k][1], unlocks[k][2]>>
  <2>1. unlocks[k] \in Deps
    BY <1>3 DEF SortInv, EntriesAreAdds
  <2> QED BY <2>1 DEF Deps
<1> QED BY <1>1, <1>3, <1>4, <1>5, <1>6

LEMMA SameHeld ==
  ASSUME UNCHANGED buffer
  PROVE  /\ Arrives' <=> Arrives
         /\ Written' = Written
         /\ \A d : Holding(d)' = Holding(d)
<1>1. UNCHANGED <<nr_unlocks, size_unlocks, unlocks, fresh, upc, ind, dep>>
  BY DEF buffer
<1>2. Written' = Written
  BY <1>1 DEF Written, Pending
<1>3. \A k, d : OnItsWay(k, d)' <=> OnItsWay(k, d)
  BY <1>1 DEF OnItsWay
<1> QED BY <1>1, <1>2, <1>3 DEF Arrives, Holding

LEMMA CountSort ==
  ASSUME PoolInv, BufferInv, BuildInv, SortInv, NEW p \in Thread, CountUnlock(p)
  PROVE  SortInv'
<1> DEFINE c == Current(p)
           ta == unlocks[c][1]
<1>1. /\ AtElement(p, "counts") /\ Treated(p)
      /\ counts' = [counts EXCEPT ![ta] = @ + 1]
      /\ UNCHANGED vars /\ UNCHANGED phase /\ UNCHANGED buffer
  BY DEF CountUnlock
<1>2. phase = "counts" /\ UNCHANGED <<nr_unlocks, unlocks, map_data_size>>
  BY <1>1 DEF AtElement, vars, buffer
<1>3. /\ nr_unlocks = NrAdds /\ map_data_size = NrAdds
      /\ \A k \in All : unlocks[k][1] \in Tasks
  BY <1>2, EntryFacts
<1>4. c \in All /\ c \notin TreatedSet /\ TreatedSet' = TreatedSet \cup {c}
  BY <1>1, <1>3, TreatedGrows
<1> HIDE DEF c
<1>5. ta \in Tasks
  BY <1>3, <1>4
<1> HIDE DEF ta
<1>6. counts = [t \in Tasks |-> Cardinality(Of(TreatedSet, t))]
  BY <1>2 DEF SortInv, CountsSoFar
<1>7. ASSUME NEW t \in Tasks
      PROVE  Cardinality(Of(TreatedSet', t)) = counts[t] + (IF t = ta THEN 1 ELSE 0)
  <2>1. Of(TreatedSet', t) = IF t = ta THEN Of(TreatedSet, t) \cup {c} ELSE Of(TreatedSet, t)
    BY <1>4 DEF Of, ta
  <2>2. IsFiniteSet(Of(TreatedSet, t)) /\ c \notin Of(TreatedSet, t)
    BY <1>4, AllFacts DEF Of
  <2>3. Cardinality(Of(TreatedSet', t)) = Cardinality(Of(TreatedSet, t)) + (IF t = ta THEN 1 ELSE 0)
    BY <2>1, <2>2, OneMore
  <2> QED BY <1>6, <2>3
<1>8. \A t \in Tasks : counts[t] \in Nat
  BY <1>6, AllFacts DEF Of
<1>9. counts' = [t \in Tasks |-> Cardinality(Of(TreatedSet', t))]
  <2>1. counts' = [t \in Tasks |-> counts[t] + (IF t = ta THEN 1 ELSE 0)]
    BY <1>1, <1>5, <1>6, <1>8
  <2> QED BY <1>7, <2>1
<1>10. CountsSoFar'
  BY <1>1, <1>2, <1>9 DEF CountsSoFar, Of
<1>11. Arrives' /\ EntriesAreAdds'
  BY <1>1, <1>2, SameHeld DEF SortInv, EntriesAreAdds, AddsOf
<1>12. SortsSoFar' /\ UnlocksAsAdded'
  BY <1>1, <1>2 DEF SortsSoFar, UnlocksAsAdded
<1> QED BY <1>10, <1>11, <1>12 DEF SortInv

(* The blocks of the tasks follow each other and fit in the array. *)
LEMMA BlocksApart ==
  ASSUME BufferInv, BuildInv, SortInv, phase \in {"counts", "sorts"}, NEW t \in Tasks
  PROVE  /\ Start(t) \in Nat /\ Cardinality(Of(All, t)) \in Nat
         /\ Start(t) + Cardinality(Of(All, t)) <= NrAdds
         /\ \A u \in Tasks : t < u => Start(t) + Cardinality(Of(All, t)) <= Start(u)
<1>1. \A k \in All : unlocks[k][1] \in Tasks
  BY EntryFacts
<1>2. \A k \in All : unlocks[k][1] \in Int
  BY <1>1, GraphAssumption DEF Tasks
<1>3. t \in Int
  BY GraphAssumption DEF Tasks
<1> DEFINE B == Before(t) \cup Of(All, t)
<1>4. /\ Before(t) \subseteq All /\ Of(All, t) \subseteq All /\ B \subseteq All
      /\ Before(t) \cap Of(All, t) = {}
  BY <1>2, <1>3 DEF Before, Of
<1>5. /\ IsFiniteSet(Before(t)) /\ Cardinality(Before(t)) \in Nat
      /\ IsFiniteSet(Of(All, t)) /\ Cardinality(Of(All, t)) \in Nat
  BY <1>4, AllFacts
<1>6. Cardinality(B) = Start(t) + Cardinality(Of(All, t))
  <2>1. Cardinality(B) = Cardinality(Before(t)) + Cardinality(Of(All, t))
                           - Cardinality(Before(t) \cap Of(All, t))
    BY <1>5, FS_Union
  <2>2. Cardinality(Before(t) \cap Of(All, t)) = 0
    BY <1>4, FS_EmptySet
  <2> QED BY <1>5, <2>1, <2>2 DEF Start
<1>7. Cardinality(B) <= NrAdds
  BY <1>4, AllFacts, FS_Subset
<1>8. ASSUME NEW u \in Tasks, t < u PROVE Cardinality(B) <= Start(u)
  <2>1. u \in Int
    BY GraphAssumption DEF Tasks
  <2>2. B \subseteq Before(u)
    <3>1. \A k \in All : unlocks[k][1] < t \/ unlocks[k][1] = t => unlocks[k][1] < u
      BY <1>2, <1>3, <1>8, <2>1
    <3> QED BY <3>1 DEF Before, Of
  <2>3. IsFiniteSet(Before(u))
    BY AllFacts DEF Before
  <2> QED BY <2>2, <2>3, FS_Subset DEF Start
<1> QED BY <1>5, <1>6, <1>7, <1>8 DEF Start

(* An entry that is still to be sorted has a place in its block. *)
LEMMA PlaceFree ==
  ASSUME BufferInv, BuildInv, SortInv, phase = "sorts", NEW t \in Tasks,
         NEW c \in All, c \notin TreatedSet, unlocks[c][1] = t
  PROVE  /\ offsets[t] \in Nat /\ offsets[t] < Start(t) + Cardinality(Of(All, t))
         /\ Start(t) <= offsets[t]
<1>1. TreatedSet \subseteq All
  BY AllFacts
<1>2. IsFiniteSet(Of(TreatedSet, t)) /\ IsFiniteSet(Of(All, t)) /\ Cardinality(Of(TreatedSet, t)) \in Nat
      /\ Cardinality(Of(All, t)) \in Nat
  BY <1>1, AllFacts DEF Of
<1>3. Of(TreatedSet, t) \subseteq Of(All, t) /\ c \in Of(All, t) /\ c \notin Of(TreatedSet, t)
  BY <1>1 DEF Of
<1>4. Cardinality(Of(TreatedSet, t)) < Cardinality(Of(All, t))
  <2>1. /\ Cardinality(Of(TreatedSet, t)) <= Cardinality(Of(All, t))
        /\ Cardinality(Of(All, t)) = Cardinality(Of(TreatedSet, t)) => Of(All, t) = Of(TreatedSet, t)
    BY <1>2, <1>3, FS_Subset
  <2> QED BY <1>2, <1>3, <2>1
<1>5. offsets[t] = Start(t) + Cardinality(Of(TreatedSet, t)) /\ Start(t) \in Nat
  BY BlocksApart DEF SortInv, SortsSoFar
<1> QED BY <1>2, <1>4, <1>5

LEMMA OffsetBounded ==
  ASSUME BufferInv, BuildInv, SortInv, phase = "sorts", NEW t \in Tasks
  PROVE  /\ Start(t) \in Nat /\ offsets[t] \in Nat /\ Start(t) <= offsets[t]
         /\ offsets[t] = Start(t) + Cardinality(Of(TreatedSet, t))
         /\ offsets[t] <= Start(t) + Cardinality(Of(All, t))
<1>1. Of(TreatedSet, t) \subseteq Of(All, t) /\ Of(All, t) \subseteq All
  BY AllFacts DEF Of
<1>2. IsFiniteSet(Of(All, t)) /\ Cardinality(Of(All, t)) \in Nat
  BY <1>1, AllFacts
<1>3. Cardinality(Of(TreatedSet, t)) \in Nat /\ Cardinality(Of(TreatedSet, t)) <= Cardinality(Of(All, t))
  BY <1>1, <1>2, FS_Subset, FS_CardinalityType
<1>4. Start(t) \in Nat
  BY BlocksApart
<1>5. offsets[t] = Start(t) + Cardinality(Of(TreatedSet, t))
  BY DEF SortInv, SortsSoFar
<1> QED BY <1>2, <1>3, <1>4, <1>5

LEMMA SortSort ==
  ASSUME PoolInv, BufferInv, BuildInv, SortInv, NEW p \in Thread, SortUnlock(p)
  PROVE  SortInv'
<1> DEFINE c == Current(p)
           ta == unlocks[c][1]
           tb == unlocks[c][2]
           o == offsets[ta]
<1>1. /\ AtElement(p, "sorts") /\ Treated(p)
      /\ sorted' = [sorted EXCEPT ![o] = tb]
      /\ offsets' = [offsets EXCEPT ![ta] = @ + 1]
      /\ UNCHANGED vars /\ UNCHANGED <<phase, counts>> /\ UNCHANGED buffer
  BY DEF SortUnlock
<1>2. phase = "sorts" /\ UNCHANGED <<nr_unlocks, size_unlocks, unlocks, map_data_size>>
  BY <1>1 DEF AtElement, vars, buffer
<1>3. /\ nr_unlocks = NrAdds /\ map_data_size = NrAdds
      /\ NrAdds <= size_unlocks /\ size_unlocks \in Nat /\ NrAdds \in Nat
      /\ \A k \in All : /\ unlocks[k][1] \in Tasks /\ unlocks[k][2] \in Tasks
                        /\ unlocks[k] = <<unlocks[k][1], unlocks[k][2]>>
  BY <1>2, EntryFacts, AddFacts
<1>4. c \in All /\ c \notin TreatedSet /\ TreatedSet' = TreatedSet \cup {c}
  BY <1>1, <1>3, TreatedGrows
<1> HIDE DEF c
<1>5. ta \in Tasks /\ tb \in Tasks /\ unlocks[c] = <<ta, tb>>
  BY <1>3, <1>4
<1> HIDE DEF tb
<1>6. /\ o \in Nat /\ o < Start(ta) + Cardinality(Of(All, ta)) /\ Start(ta) <= o
      /\ Start(ta) \in Nat
  <2>1. /\ o \in Nat /\ o < Start(ta) + Cardinality(Of(All, ta)) /\ Start(ta) <= o
    BY <1>2, <1>4, <1>5, PlaceFree
  <2> QED BY <1>2, <1>5, <2>1, BlocksApart
<1> HIDE DEF ta
<1>7. o \in 0..(size_unlocks - 1)
  <2>1. /\ Start(ta) + Cardinality(Of(All, ta)) <= NrAdds
        /\ Cardinality(Of(All, ta)) \in Nat
    BY <1>2, <1>5, BlocksApart
  <2> HIDE DEF o
  <2> QED BY <1>3, <1>6, <2>1
<1>8. /\ offsets = [t \in Tasks |-> Start(t) + Cardinality(Of(TreatedSet, t))]
      /\ DOMAIN sorted = 0..(size_unlocks - 1)
  BY <1>2 DEF SortInv, SortsSoFar
<1>9. /\ offsets'[ta] = o + 1 /\ \A t \in Tasks : t # ta => offsets'[t] = offsets[t]
      /\ DOMAIN offsets' = Tasks
  BY <1>1, <1>5, <1>8
<1>10. /\ DOMAIN sorted' = 0..(size_unlocks - 1) /\ sorted'[o] = tb
       /\ \A j \in 0..(size_unlocks - 1) : j # o => sorted'[j] = sorted[j]
  <2> HIDE DEF o
  <2> QED BY <1>1, <1>7, <1>8
<1>11. \A t : Start(t)' = Start(t)
  BY <1>2 DEF Start, Before
<1>12. ASSUME NEW t \in Tasks
       PROVE  offsets'[t] = Start(t) + Cardinality(Of(TreatedSet', t))
  <2>1. Of(TreatedSet', t) = IF t = ta THEN Of(TreatedSet, t) \cup {c} ELSE Of(TreatedSet, t)
    BY <1>4 DEF Of, ta
  <2>2. IsFiniteSet(Of(TreatedSet, t)) /\ c \notin Of(TreatedSet, t)
    BY <1>4, AllFacts DEF Of
  <2>3. /\ Cardinality(Of(TreatedSet', t)) = Cardinality(Of(TreatedSet, t)) + (IF t = ta THEN 1 ELSE 0)
        /\ Cardinality(Of(TreatedSet, t)) \in Nat
    BY <2>1, <2>2, OneMore
  <2>4. Start(t) \in Nat /\ offsets[t] = Start(t) + Cardinality(Of(TreatedSet, t))
    BY <1>2, OffsetBounded
  <2>5. CASE t = ta
    BY <1>9, <2>3, <2>4, <2>5
  <2>6. CASE t # ta
    BY <1>9, <2>3, <2>4, <2>6
  <2> QED BY <2>5, <2>6
<1>13. \A t : Of(TreatedSet, t)' = Of(TreatedSet', t)
  BY <1>2 DEF Of
<1>14. offsets' = [t \in Tasks |-> Start(t)' + Cardinality(Of(TreatedSet, t)')]
  <2>1. offsets' = [t \in Tasks |-> offsets'[t]]
    BY <1>1, <1>8
  <2>2. \A t \in Tasks : offsets'[t] = Start(t)' + Cardinality(Of(TreatedSet, t)')
    BY <1>11, <1>12, <1>13
  <2> QED BY <2>1, <2>2
<1>15. ASSUME NEW t \in Tasks, NEW u \in Tasks
       PROVE  Cardinality(Filled(t, u)') = Cardinality(Equal(TreatedSet, <<t, u>>)')
  <2>1. /\ Start(t) \in Nat /\ offsets[t] \in Nat /\ Start(t) <= offsets[t]
        /\ offsets[t] <= Start(t) + Cardinality(Of(All, t))
        /\ Cardinality(Of(All, t)) \in Nat
        /\ Start(t) + Cardinality(Of(All, t)) <= NrAdds
    BY <1>2, OffsetBounded, BlocksApart
  <2>2. Equal(TreatedSet, <<t, u>>)' =
          IF t = ta /\ u = tb THEN Equal(TreatedSet, <<t, u>>) \cup {c} ELSE Equal(TreatedSet, <<t, u>>)
    BY <1>2, <1>4, <1>5 DEF Equal
  <2>3. IsFiniteSet(Equal(TreatedSet, <<t, u>>)) /\ c \notin Equal(TreatedSet, <<t, u>>)
    BY <1>4, AllFacts DEF Equal
  <2>4. Cardinality(Equal(TreatedSet, <<t, u>>)') =
          Cardinality(Equal(TreatedSet, <<t, u>>)) + (IF t = ta /\ u = tb THEN 1 ELSE 0)
    BY <2>2, <2>3, OneMore
  <2>5. o \notin Start(t)..(offsets[t] - 1)
    <3>1. CASE t = ta
      BY <2>1, <3>1
    <3>2. CASE t # ta
      <4>1. t \in Int /\ ta \in Int
        BY <1>5, GraphAssumption DEF Tasks
      <4>2. CASE t < ta
        <5>1. Start(t) + Cardinality(Of(All, t)) <= Start(ta)
          BY <1>2, <1>5, <4>2, BlocksApart
        <5> HIDE DEF o
        <5> QED BY <1>6, <2>1, <5>1
      <4>3. CASE ta < t
        <5>1. Start(ta) + Cardinality(Of(All, ta)) <= Start(t) /\ Cardinality(Of(All, ta)) \in Nat
          BY <1>2, <1>5, <4>3, BlocksApart
        <5> HIDE DEF o
        <5> QED BY <1>6, <2>1, <5>1
      <4> QED BY <3>2, <4>1, <4>2, <4>3
    <3> QED BY <3>1, <3>2
  <2>6. Filled(t, u)' = IF t = ta /\ u = tb THEN Filled(t, u) \cup {o} ELSE Filled(t, u)
    <3>1. Filled(t, u)' = {j \in Start(t)..(offsets'[t] - 1) : sorted'[j] = u}
      BY <1>11 DEF Filled
    <3>2. \A j \in Start(t)..(offsets[t] - 1) : j \in 0..(size_unlocks - 1)
      BY <1>3, <2>1
    <3>3. CASE t = ta
      <4>1. offsets[t] = o /\ offsets'[t] = o + 1
        BY <1>9, <3>3
      <4> HIDE DEF o
      <4>2. \A j : j \in Start(t)..((o + 1) - 1) <=> j \in Start(t)..(o - 1) \/ j = o
        BY <1>6, <3>3
      <4>3. \A j \in Start(t)..(o - 1) : j # o
        BY <1>6, <3>3
      <4>4. \A j \in Start(t)..(o - 1) : sorted'[j] = sorted[j]
        BY <1>10, <3>2, <4>1, <4>3
      <4>5. \A j : j \in Filled(t, u)' <=> j \in Filled(t, u) \/ (j = o /\ tb = u)
        BY <1>10, <3>1, <4>1, <4>2, <4>4 DEF Filled
      <4> QED BY <3>3, <4>5
    <3>4. CASE t # ta
      <4>1. offsets'[t] = offsets[t]
        BY <1>9, <3>4
      <4>2. ASSUME NEW j \in Start(t)..(offsets[t] - 1) PROVE sorted'[j] = u <=> sorted[j] = u
        <5>1. j # o
          BY <2>5
        <5> QED BY <1>10, <3>2, <5>1
      <4> QED BY <3>1, <3>4, <4>1, <4>2 DEF Filled
    <3> QED BY <3>3, <3>4
  <2>7. IsFiniteSet(Filled(t, u))
    <3>1. Start(t) \in Int /\ offsets[t] - 1 \in Int
      BY <2>1
    <3>2. IsFiniteSet(Start(t)..(offsets[t] - 1))
      BY <3>1, FS_Interval
    <3> QED BY <3>2, FS_Subset DEF Filled
  <2>8. Cardinality(Filled(t, u)') = Cardinality(Filled(t, u)) + (IF t = ta /\ u = tb THEN 1 ELSE 0)
    <3>1. o \notin Filled(t, u)
      BY <2>5 DEF Filled
    <3> HIDE DEF o
    <3> QED BY <2>6, <2>7, <3>1, OneMore
  <2>9. Cardinality(Filled(t, u)) = Cardinality(Equal(TreatedSet, <<t, u>>))
    BY <1>2 DEF SortInv, SortsSoFar
  <2> QED BY <2>4, <2>8, <2>9
<1>16. SortsSoFar'
  BY <1>2, <1>10, <1>14, <1>15 DEF SortsSoFar
<1>17. CountsSoFar'
  BY <1>1, <1>2 DEF SortInv, CountsSoFar, Of
<1>18. Arrives' /\ EntriesAreAdds'
  BY <1>1, <1>2, SameHeld DEF SortInv, EntriesAreAdds, AddsOf
<1>19. UnlocksAsAdded'
  BY <1>1, <1>2 DEF UnlocksAsAdded
<1> QED BY <1>16, <1>17, <1>18, <1>19 DEF SortInv

LEMMA LessWF == IsWellFoundedOn({ss \in Nat \X Nat : ss[1] < ss[2]}, Nat)
  BY NatLessThanWellFounded, Zenon DEF OpToRel

(* A set of naturals that is not empty has a least element: the form in    *)
(* which the proofs below use induction.                                   *)
LEMMA Least ==
  ASSUME NEW S \in SUBSET Nat, S # {}
  PROVE  \E x \in S : \A y \in S : x <= y
<1>1. \E x \in S : \A y \in S : ~ (<<y, x>> \in {ss \in Nat \X Nat : ss[1] < ss[2]})
  BY LessWF, WFMin, Zenon
<1>2. PICK x \in S : \A y \in S : ~ (<<y, x>> \in {ss \in Nat \X Nat : ss[1] < ss[2]})
  BY <1>1
<1>3. ASSUME NEW y \in S PROVE x <= y
  <2>1. ~(y < x)
    BY <1>2
  <2> QED
    BY <2>1
<1> QED
  BY <1>3

(* f is the array of prefix sums of the counts. *)
IsSum(f) == f = [t \in Tasks |-> IF t = 0 THEN 0 ELSE f[t - 1] + counts[t - 1]]

LEMMA SumUnique ==
  ASSUME NEW f, NEW g, IsSum(f), IsSum(g)
  PROVE  f = g
<1> DEFINE S == {t \in Tasks : f[t] # g[t]}
<1>1. \A t \in Tasks : f[t] = IF t = 0 THEN 0 ELSE f[t - 1] + counts[t - 1]
  BY DEF IsSum
<1>2. \A t \in Tasks : g[t] = IF t = 0 THEN 0 ELSE g[t - 1] + counts[t - 1]
  BY DEF IsSum
<1>3. NrTasks \in Nat
  BY GraphAssumption
<1>4. S = {}
  <2> SUFFICES ASSUME S # {} PROVE FALSE
    OBVIOUS
  <2>1. S \in SUBSET Nat
    BY <1>3 DEF Tasks
  <2>2. PICK t \in S : \A u \in S : t <= u
    <3> HIDE DEF S
    <3> QED BY <2>1, Least
  <2>3. t \in Tasks /\ f[t] # g[t]
    OBVIOUS
  <2>4. t # 0 /\ t - 1 \in Tasks
    BY <1>1, <1>2, <1>3, <2>3 DEF Tasks
  <2>5. t - 1 \notin S
    BY <1>3, <2>1, <2>2
  <2>6. f[t - 1] = g[t - 1]
    BY <2>4, <2>5
  <2> QED BY <1>1, <1>2, <2>3, <2>4, <2>6
<1>5. f = [t \in Tasks |-> f[t]] /\ g = [t \in Tasks |-> g[t]]
  BY DEF IsSum
<1> QED BY <1>4, <1>5

(* The prefix sums of the counts are where the blocks start. *)
LEMMA OffsetsAre ==
  ASSUME BufferInv, BuildInv, SortInv, phase \in {"counts", "sorts"},
         counts = [t \in Tasks |-> Cardinality(Of(All, t))]
  PROVE  Offsets = [t \in Tasks |-> Start(t)]
<1> DEFINE g == [t \in Tasks |-> Start(t)]
<1>0. NrTasks \in Nat /\ \A k \in All : unlocks[k][1] \in Tasks
  BY GraphAssumption, EntryFacts
<1>1. ASSUME NEW t \in Tasks, t = 0 PROVE Start(t) = 0
  <2>1. Before(t) = {}
    BY <1>0, <1>1 DEF Before, Tasks
  <2> QED BY <2>1, FS_EmptySet DEF Start
<1>2. ASSUME NEW t \in Tasks, t # 0
      PROVE  t - 1 \in Tasks /\ Start(t) = Start(t - 1) + counts[t - 1]
  <2>1. t - 1 \in Tasks
    BY <1>0, <1>2 DEF Tasks
  <2>2. /\ Before(t) = Before(t - 1) \cup Of(All, t - 1)
        /\ Before(t - 1) \cap Of(All, t - 1) = {}
    <3>1. \A k \in All : unlocks[k][1] \in Nat
      BY <1>0 DEF Tasks
    <3>2. t \in Nat
      BY <1>0 DEF Tasks
    <3> QED BY <1>2, <3>1, <3>2 DEF Before, Of
  <2>3. /\ IsFiniteSet(Before(t - 1)) /\ Cardinality(Before(t - 1)) \in Nat
        /\ IsFiniteSet(Of(All, t - 1)) /\ Cardinality(Of(All, t - 1)) \in Nat
    BY AllFacts DEF Before, Of
  <2>4. Cardinality(Before(t)) = Cardinality(Before(t - 1)) + Cardinality(Of(All, t - 1))
    <3>1. Cardinality(Before(t)) = Cardinality(Before(t - 1)) + Cardinality(Of(All, t - 1))
                                     - Cardinality(Before(t - 1) \cap Of(All, t - 1))
      BY <2>2, <2>3, FS_Union
    <3>2. Cardinality(Before(t - 1) \cap Of(All, t - 1)) = 0
      BY <2>2, FS_EmptySet
    <3> QED BY <2>3, <3>1, <3>2
  <2> QED BY <2>1, <2>4 DEF Start
<1>3. IsSum(g)
  <2>1. ASSUME NEW t \in Tasks PROVE g[t] = IF t = 0 THEN 0 ELSE g[t - 1] + counts[t - 1]
    BY <1>1, <1>2
  <2> QED BY <2>1 DEF IsSum
<1>4. IsSum(Offsets)
  <2>1. \E f : f = [t \in Tasks |-> IF t = 0 THEN 0 ELSE f[t - 1] + counts[t - 1]]
    BY <1>3 DEF IsSum
  <2> QED BY <2>1, Zenon DEF Offsets, IsSum
<1> HIDE DEF g
<1>5. Offsets = g
  BY <1>3, <1>4, SumUnique
<1> QED BY <1>5 DEF g

(* Steps that treat no element and leave the arrays alone. *)
LEMMA SortSame ==
  ASSUME SortInv, UNCHANGED buffer, UNCHANGED <<phase, counts, offsets, sorted>>,
         UNCHANGED <<nr_unlock_tasks, unlock_tasks>>,
         phase \in {"adds", "counts", "sorts"} =>
           TreatedSet' = TreatedSet /\ map_data_size' = map_data_size
  PROVE  SortInv'
<1>1. UNCHANGED <<nr_unlocks, size_unlocks, unlocks>>
  BY DEF buffer
<1>2. Arrives' /\ EntriesAreAdds'
  <2>1. phase = "adds" => \A d \in Deps : AddsOf(TreatedSet, d)' = AddsOf(TreatedSet, d)
    BY DEF AddsOf
  <2>2. \A d : AddsOf(All, d)' = AddsOf(All, d)
    BY DEF AddsOf
  <2> QED BY <1>1, <2>1, <2>2, SameHeld DEF SortInv, EntriesAreAdds
<1>3. CountsSoFar'
  BY <1>1 DEF SortInv, CountsSoFar, Of
<1>4. SortsSoFar'
  <2> SUFFICES ASSUME phase = "sorts" PROVE SortsSoFar'
    BY DEF SortsSoFar
  <2>1. \A t : Start(t)' = Start(t) /\ Of(TreatedSet, t)' = Of(TreatedSet, t)
    BY <1>1 DEF Start, Before, Of
  <2>2. \A t, u : Filled(t, u)' = Filled(t, u)
    BY <2>1 DEF Filled
  <2>3. \A d : Equal(TreatedSet, d)' = Equal(TreatedSet, d)
    BY <1>1 DEF Equal
  <2> QED BY <1>1, <2>1, <2>2, <2>3 DEF SortInv, SortsSoFar
<1>5. UnlocksAsAdded'
  <2>1. \A t, u : Unlocks(t, u)' = Unlocks(t, u)
    BY <1>1 DEF Unlocks
  <2> QED BY <2>1 DEF SortInv, UnlocksAsAdded
<1> QED BY <1>2, <1>3, <1>4, <1>5 DEF SortInv

LEMMA StartAddsSort ==
  ASSUME PoolInv, BufferInv, BuildInv, SortInv, num_threads > 1, StartAdds
  PROVE  SortInv'
<1>1. /\ Buffer!Reset /\ Map(NrAdds, auto_chunk_size) /\ phase' = "adds"
  BY DEF StartAdds
<1>2. /\ nr_unlocks' = 0 /\ UNCHANGED <<size_unlocks, unlocks, fresh, upc, ind, dep>>
      /\ \A p \in Thread : upc[p] = "idle"
  BY <1>1 DEF Buffer!Reset
<1>3. TreatedSet' = {}
  BY <1>1, TreatedNone
<1>4. Written' = {}
  BY <1>2 DEF Written
<1>5. Arrives'
  BY <1>2 DEF SortInv, Arrives
<1>6. EntriesAreAdds'
  <2>1. \A d : Holding(d)' = {} /\ AddsOf(TreatedSet, d)' = {}
    BY <1>2, <1>3 DEF Holding, AddsOf
  <2> QED BY <1>1, <1>4, <2>1 DEF EntriesAreAdds
<1>7. CountsSoFar' /\ SortsSoFar' /\ UnlocksAsAdded'
  BY <1>1 DEF CountsSoFar, SortsSoFar, UnlocksAsAdded
<1> QED BY <1>5, <1>6, <1>7 DEF SortInv

LEMMA StartCountsSort ==
  ASSUME PoolInv, BufferInv, BuildInv, SortInv, num_threads > 1, StartCounts
  PROVE  SortInv'
<1>1. /\ phase = "adds" /\ Map(nr_unlocks, auto_chunk_size) /\ phase' = "counts"
      /\ counts' = Zeroes /\ UNCHANGED buffer
  BY DEF StartCounts
<1>2. pc[Main] = "idle" /\ map_data_size' = nr_unlocks /\ map_data_size = NrAdds
  BY <1>1 DEF Map, BuildInv, AddsCounted
<1>3. TreatedSet = All /\ TreatedSet' = {}
  BY <1>1, <1>2, TreatedAll, TreatedNone
<1>4. nr_unlocks = NrAdds /\ nr_unlocks' = NrAdds
  BY <1>1, <1>3, AllFacts DEF BuildInv, AddsCounted, buffer
<1>5. Arrives' /\ EntriesAreAdds'
  <2>1. \A d \in Deps : Cardinality(Holding(d)) = Cardinality(AddsOf(All, d))
    BY <1>1, <1>3 DEF SortInv, EntriesAreAdds
  <2>2. \A d : AddsOf(All, d)' = AddsOf(All, d)
    BY DEF AddsOf
  <2>3. \A k \in Written : unlocks'[k] \in Deps
    BY <1>1 DEF SortInv, EntriesAreAdds, buffer
  <2> QED BY <1>1, <1>2, <1>4, <2>1, <2>2, <2>3, SameHeld DEF SortInv, EntriesAreAdds
<1>6. CountsSoFar'
  <2>1. \A t : Of(TreatedSet, t)' = {}
    BY <1>3 DEF Of
  <2> QED BY <1>1, <2>1, FS_EmptySet DEF CountsSoFar, Zeroes
<1>7. SortsSoFar' /\ UnlocksAsAdded'
  BY <1>1 DEF SortsSoFar, UnlocksAsAdded
<1> QED BY <1>5, <1>6, <1>7 DEF SortInv

LEMMA StartSortsSort ==
  ASSUME PoolInv, BufferInv, BuildInv, SortInv, num_threads > 1, StartSorts
  PROVE  SortInv'
<1>1. /\ phase = "counts" /\ Map(nr_unlocks, auto_chunk_size) /\ phase' = "sorts"
      /\ offsets' = Offsets /\ sorted' = Blank(size_unlocks)
      /\ UNCHANGED buffer /\ counts' = counts
  BY DEF StartSorts
<1>2. /\ pc[Main] = "idle" /\ map_data_size' = nr_unlocks /\ map_data_size = NrAdds
      /\ nr_unlocks = NrAdds
  BY <1>1 DEF Map, SortInv, EntriesAreAdds
<1>3. TreatedSet = All /\ TreatedSet' = {}
  BY <1>1, <1>2, TreatedAll, TreatedNone
<1>4. UNCHANGED <<nr_unlocks, size_unlocks, unlocks>>
  BY <1>1 DEF buffer
<1>5. Arrives' /\ EntriesAreAdds'
  <2>1. \A d : AddsOf(All, d)' = AddsOf(All, d)
    BY DEF AddsOf
  <2> QED BY <1>1, <1>2, <1>4, <2>1, SameHeld DEF SortInv, EntriesAreAdds
<1>6. counts = [t \in Tasks |-> Cardinality(Of(All, t))]
  BY <1>1, <1>3 DEF SortInv, CountsSoFar
<1>7. CountsSoFar'
  BY <1>1, <1>4, <1>6 DEF CountsSoFar, Of
<1>8. offsets' = [t \in Tasks |-> Start(t)]
  BY <1>1, <1>6, OffsetsAre
<1>9. SortsSoFar'
  <2>1. DOMAIN sorted' = 0..(size_unlocks' - 1)
    BY <1>1, <1>4 DEF Blank
  <2>2. \A t : Start(t)' = Start(t)
    BY <1>4 DEF Start, Before
  <2>3. ASSUME NEW t \in Tasks PROVE Start(t) \in Nat /\ Cardinality(Of(TreatedSet, t)') = 0
    <3>1. Of(TreatedSet, t)' = {}
      BY <1>3 DEF Of
    <3> QED BY <1>1, <3>1, FS_EmptySet, BlocksApart
  <2>4. offsets' = [t \in Tasks |-> Start(t)' + Cardinality(Of(TreatedSet, t)')]
    <3>1. \A t \in Tasks : Start(t) = Start(t)' + Cardinality(Of(TreatedSet, t)')
      BY <2>2, <2>3
    <3> QED BY <1>8, <3>1
  <2>5. ASSUME NEW t \in Tasks, NEW u \in Tasks
        PROVE  Cardinality(Filled(t, u)') = Cardinality(Equal(TreatedSet, <<t, u>>)')
    <3>1. Equal(TreatedSet, <<t, u>>)' = {}
      BY <1>3 DEF Equal
    <3>2. Filled(t, u)' = {}
      <4>1. offsets'[t] = Start(t) /\ Start(t) \in Nat
        BY <1>8, <2>3
      <4>2. Start(t)..(Start(t) - 1) = {}
        BY <4>1
      <4> QED BY <2>2, <4>1, <4>2 DEF Filled
    <3> QED BY <3>1, <3>2
  <2> QED BY <1>1, <2>1, <2>4, <2>5 DEF SortsSoFar
<1>10. UnlocksAsAdded'
  BY <1>1 DEF UnlocksAsAdded
<1> QED BY <1>5, <1>7, <1>9, <1>10 DEF SortInv

(* Counting from the start of a block. *)
LEMMA Shifted ==
  ASSUME NEW a \in Nat, NEW n \in Nat, NEW S \in SUBSET (a..(a + n - 1))
  PROVE  Cardinality({k \in 0..(n - 1) : a + k \in S}) = Cardinality(S)
<1> DEFINE K == {k \in 0..(n - 1) : a + k \in S}
           f == [k \in K |-> a + k]
<1>1. IsFiniteSet(K)
  <2>1. IsFiniteSet(0..(n - 1))
    <3>1. 0 \in Int /\ n - 1 \in Int
      OBVIOUS
    <3> QED BY <3>1, FS_Interval
  <2>2. K \in SUBSET (0..(n - 1))
    OBVIOUS
  <2> HIDE DEF K
  <2> QED BY <2>1, <2>2, FS_Subset
<1>2. f \in [K -> S]
  OBVIOUS
<1>3. \A x, y \in K : f[x] = f[y] => x = y
  OBVIOUS
<1>4. ASSUME NEW s \in S PROVE \E k \in K : f[k] = s
  <2>1. s - a \in K /\ a + (s - a) = s
    OBVIOUS
  <2> QED BY <2>1
<1>5. f \in Bijection(K, S)
  <2> HIDE DEF f, K
  <2> QED BY <1>2, <1>3, <1>4 DEF Bijection, Injection, Surjection, IsInjective
<1>6. ExistsBijection(K, S)
  <2> HIDE DEF f, K
  <2> QED BY <1>5 DEF ExistsBijection
<1> HIDE DEF K
<1>7. Cardinality(S) = Cardinality(K)
  BY <1>1, <1>6, FS_Bijection
<1> QED BY <1>7 DEF K

LEMMA SetUnlocksSort ==
  ASSUME PoolInv, BufferInv, BuildInv, SortInv, num_threads > 1, SetUnlocks
  PROVE  SortInv'
<1>1. /\ phase = "sorts" /\ pc[Main] = "idle" /\ phase' = "rank"
      /\ unlocks' = [k \in DOMAIN unlocks |->
           IF unlocks[k] = Nothing THEN Nothing ELSE <<unlocks[k][1], sorted[k]>>]
      /\ nr_unlock_tasks' = counts /\ unlock_tasks' = Offsets
      /\ UNCHANGED <<vars, nr_unlocks, size_unlocks, fresh, upc, ind, dep>>
  BY DEF SetUnlocks
<1>2. /\ map_data_size = NrAdds /\ Written = All /\ NrAdds \in Nat /\ nr_unlocks = NrAdds
      /\ NrAdds <= size_unlocks /\ size_unlocks \in Nat
      /\ \A k \in All : unlocks[k] \in Deps /\ unlocks[k][1] \in Tasks
  BY <1>1, EntryFacts, AddFacts
<1>3. TreatedSet = All
  BY <1>1, <1>2, TreatedAll
<1>4. \A p \in Thread : upc[p] = "idle"
  BY <1>1, NoneInMap
<1>5. counts = [t \in Tasks |-> Cardinality(Of(All, t))]
  BY <1>1 DEF SortInv, CountsSoFar
<1>6. unlock_tasks' = [t \in Tasks |-> Start(t)]
  BY <1>1, <1>5, OffsetsAre
<1>7. DOMAIN unlocks = 0..(size_unlocks - 1)
  BY <1>4 DEF BufferInv, ArraySize
<1>8. ASSUME NEW j \in All
      PROVE  j \in DOMAIN unlocks /\ unlocks'[j] = <<unlocks[j][1], sorted[j]>>
  <2>1. j \in DOMAIN unlocks
    BY <1>2, <1>7 DEF All
  <2>2. unlocks[j] # Nothing
    BY <1>2, GraphAssumption DEF Deps
  <2> QED BY <1>1, <2>1, <2>2
<1>9. ASSUME NEW t \in Tasks, NEW u \in Tasks
      PROVE  Unlocks(t, u)' = Cardinality(AddsOf(All, <<t, u>>))
  <2> DEFINE a == Start(t)
             n == Cardinality(Of(All, t))
  <2>1. a \in Nat /\ n \in Nat /\ a + n <= NrAdds
    BY <1>1, BlocksApart
  <2>2. offsets[t] = a + n
    BY <1>1, <1>3 DEF SortInv, SortsSoFar
  <2>3. counts[t] = n /\ unlock_tasks'[t] = a /\ nr_unlock_tasks'[t] = n
    BY <1>1, <1>5, <1>6
  <2>4. Filled(t, u) = {j \in a..(a + n - 1) : sorted[j] = u}
    <3>1. offsets[t] - 1 = a + n - 1
      BY <2>1, <2>2
    <3>2. Filled(t, u) = {j \in a..(offsets[t] - 1) : sorted[j] = u}
      BY Zenon DEF Filled
    <3> HIDE DEF a, n
    <3> QED BY <3>1, <3>2, Zenon
  <2> HIDE DEF a, n
  <2>5. ASSUME NEW k \in 0..(n - 1)
        PROVE  (/\ a + k \in DOMAIN unlocks' /\ unlocks'[a + k] # Nothing
                /\ unlocks'[a + k][2] = u) <=> a + k \in Filled(t, u)
    <3>1. a + k \in All /\ a + k \in a..(a + n - 1)
      BY <1>2, <2>1 DEF All
    <3>2. a + k \in DOMAIN unlocks' /\ unlocks'[a + k] = <<unlocks[a + k][1], sorted[a + k]>>
      BY <1>1, <1>8, <3>1
    <3>3. unlocks'[a + k][2] = sorted[a + k]
      BY <3>2
    <3>4. sorted[a + k] = u => unlocks'[a + k] # Nothing
      BY <1>2, <3>1, <3>2, GraphAssumption
    <3> QED BY <2>4, <3>1, <3>2, <3>3, <3>4
  <2>6. Unlocks(t, u)' = Cardinality({k \in 0..(n - 1) : a + k \in Filled(t, u)})
    <3>1. Unlocks(t, u)' = Cardinality({k \in 0..(n - 1) :
            /\ a + k \in DOMAIN unlocks' /\ unlocks'[a + k] # Nothing
            /\ unlocks'[a + k][2] = u})
      BY <2>3 DEF Unlocks
    <3>2. {k \in 0..(n - 1) :
            /\ a + k \in DOMAIN unlocks' /\ unlocks'[a + k] # Nothing
            /\ unlocks'[a + k][2] = u} = {k \in 0..(n - 1) : a + k \in Filled(t, u)}
      BY <2>5
    <3> QED BY <3>1, <3>2
  <2>7. Unlocks(t, u)' = Cardinality(Filled(t, u))
    <3>1. Filled(t, u) \in SUBSET (a..(a + n - 1))
      BY <2>4
    <3> QED BY <2>1, <2>6, <3>1, Shifted
  <2>8. Cardinality(Filled(t, u)) = Cardinality(Equal(All, <<t, u>>))
    BY <1>1, <1>3 DEF SortInv, SortsSoFar
  <2>9. Equal(All, <<t, u>>) = Holding(<<t, u>>)
    <3>1. \A k : ~ OnItsWay(k, <<t, u>>)
      BY <1>4 DEF OnItsWay
    <3> QED BY <1>2, <3>1 DEF Equal, Holding, All
  <2>10. Cardinality(Holding(<<t, u>>)) = Cardinality(AddsOf(All, <<t, u>>))
    <3>1. <<t, u>> \in Deps
      BY DEF Deps
    <3> QED BY <1>1, <3>1 DEF SortInv, EntriesAreAdds
  <2> QED BY <2>7, <2>8, <2>9, <2>10
<1>10. UnlocksAsAdded'
  <2>1. DOMAIN Adds = All
    BY AddFacts DEF All
  <2> QED BY <1>9, <2>1 DEF UnlocksAsAdded, AddsOf
<1>11. Arrives'
  BY <1>1, <1>4 DEF SortInv, Arrives
<1>12. EntriesAreAdds' /\ CountsSoFar' /\ SortsSoFar'
  BY <1>1 DEF EntriesAreAdds, CountsSoFar, SortsSoFar
<1> QED BY <1>10, <1>11, <1>12 DEF SortInv

-----------------------------------------------------------------------------
LEMMA CallerSort ==
  ASSUME PoolInv, BufferInv, BuildInv, SortInv, Caller
  PROVE  SortInv'
<1>0. num_threads > 1
  <2>1. phase # "plain"
    BY DEF Caller, StartAdds, StartCounts, StartSorts, SetUnlocks, RankTasks
  <2> QED BY <2>1 DEF BuildInv, Phases
<1>1. CASE RankTasks
  <2>1. /\ phase = "rank" /\ phase' = "built" /\ UNCHANGED buffer
        /\ UNCHANGED <<nr_unlock_tasks, unlock_tasks>>
    BY <1>1 DEF RankTasks
  <2>2. \A t, u : Unlocks(t, u)' = Unlocks(t, u)
    BY <2>1 DEF Unlocks, buffer
  <2>3. UnlocksAsAdded'
    BY <2>1, <2>2 DEF SortInv, UnlocksAsAdded
  <2>4. Arrives'
    BY <2>1, SameHeld DEF SortInv
  <2>5. EntriesAreAdds' /\ CountsSoFar' /\ SortsSoFar'
    BY <2>1 DEF EntriesAreAdds, CountsSoFar, SortsSoFar
  <2> QED BY <2>3, <2>4, <2>5 DEF SortInv
<1> QED BY <1>0, <1>1, StartAddsSort, StartCountsSort, StartSortsSort, SetUnlocksSort DEF Caller

LEMMA ReturnSort ==
  ASSUME PoolInv, BuildInv, SortInv, NEW p \in Thread, Return(p)
  PROVE  SortInv'
<1>1. /\ UNCHANGED buffer /\ UNCHANGED <<phase, counts, offsets, sorted>>
      /\ UNCHANGED <<nr_unlock_tasks, unlock_tasks>> /\ map_data_size' = map_data_size
  BY DEF Return, Call, request, fields
<1>2. phase # "plain" => TreatedSet' = TreatedSet
  BY TreatedReturn
<1> QED BY <1>1, <1>2, SortSame

LEMMA SortKept ==
  ASSUME PoolInv, PoolInv', BufferInv, BuildInv, SortInv, BuildNext \/ UNCHANGED allVars
  PROVE  SortInv'
<1>1. CASE UNCHANGED allVars
  <2>1. UNCHANGED <<pc, task_ind, calls, map_data_size, phase, done, counts, offsets, sorted>>
        /\ UNCHANGED buffer /\ UNCHANGED <<nr_unlock_tasks, unlock_tasks>>
    BY <1>1 DEF allVars, vars, buildVars, fields
  <2>2. TreatedSet' = TreatedSet
    BY <2>1 DEF TreatedSet, InDone
  <2> QED BY <2>1, <2>2, SortSame
<1>2. CASE UNCHANGED buildVars /\ phase = "plain"
  <2>1. /\ UNCHANGED buffer /\ UNCHANGED <<phase, counts, offsets, sorted>>
        /\ UNCHANGED <<nr_unlock_tasks, unlock_tasks>>
    BY <1>2 DEF buildVars, fields
  <2> QED BY <1>2, <2>1, SortSame
<1>3. ASSUME phase # "plain", UNCHANGED buildVars,
             \/ Clean \/ Open("wait") \/ Open("run") \/ CallAlone \/ Join \/ Gone
             \/ \E p \in Thread : PoolStep(p)
      PROVE  SortInv'
  <2>1. num_threads > 1
    BY <1>3 DEF BuildInv, Phases
  <2>2. Between
    BY <1>3, <2>1, PoolBetween
  <2>3. /\ UNCHANGED buffer /\ UNCHANGED <<phase, done, counts, offsets, sorted>>
        /\ UNCHANGED <<nr_unlock_tasks, unlock_tasks>>
    BY <1>3 DEF buildVars, fields
  <2>4. TreatedSet' = TreatedSet /\ map_data_size' = map_data_size
    BY <2>1, <2>2, <2>3, TreatedBetween DEF Between
  <2> QED BY <2>3, <2>4, SortSame
<1>4. CASE Caller
  BY <1>4, CallerSort
<1>5. ASSUME NEW p \in Thread, MapperStep(p) PROVE SortInv'
  BY <1>5, AddUnlockSort, InAddSort, CountSort, SortSort, ReturnSort DEF MapperStep
<1> QED BY <1>1, <1>2, <1>3, <1>4, <1>5 DEF BuildNext, Pool

LEMMA SortInit ==
  ASSUME BuildInit
  PROVE  SortInv
<1>1. /\ nr_unlocks = 0 /\ upc = [p \in Thread |-> "idle"] /\ dep = [p \in Thread |-> Nothing]
      /\ phase \in {"plain", "reset"}
  BY DEF BuildInit, Buffer!Init
<1>2. Written = {}
  BY <1>1 DEF Written
<1>3. Arrives
  BY <1>1 DEF Arrives
<1>4. EntriesAreAdds /\ CountsSoFar /\ SortsSoFar /\ UnlocksAsAdded
  BY <1>1, <1>2 DEF EntriesAreAdds, CountsSoFar, SortsSoFar, UnlocksAsAdded
<1> QED BY <1>3, <1>4 DEF SortInv

LEMMA SortInvariant == BuildSpec => []SortInv
<1>1. BuildInit => SortInv
  BY SortInit
<1>2. IInv /\ IInv' /\ SortInv /\ [BuildNext]_allVars => SortInv'
  BY SortKept DEF IInv
<1> QED BY <1>1, <1>2, InvariantHolds, PTL DEF BuildSpec

(***************************************************************************)
(* After scheduler_set_unlocks each task unlocks exactly the tasks that    *)
(* were added for it, as often as they were added, for any number of       *)
(* threads that add, count and sort the dependencies, and through any      *)
(* number of copies of the array.                                          *)
(***************************************************************************)
THEOREM NoUnlockLost == BuildSpec => []UnlocksAsAdded
<1>1. SortInv => UnlocksAsAdded
  BY DEF SortInv
<1> QED BY <1>1, SortInvariant, PTL

-----------------------------------------------------------------------------
(***************************************************************************)
(* The ranks.                                                              *)
(***************************************************************************)
NaturalUnlocks == \A t, u \in Tasks : Unlocks(t, u) \in Nat

Arrows(S, u) == UNION {{t} \X (1..Unlocks(t, u)) : t \in S}

LEMMA ArrowsAre ==
  ASSUME NEW S, NEW u, NEW x
  PROVE  x \in Arrows(S, u) <=> \E t \in S : \E i \in 1..Unlocks(t, u) : x = <<t, i>>
BY DEF Arrows

LEMMA ArrowsFinite ==
  ASSUME NaturalUnlocks, NEW S \in SUBSET Tasks, NEW u \in Tasks
  PROVE  /\ IsFiniteSet(Arrows(S, u)) /\ UnlocksBy(S, u) = Cardinality(Arrows(S, u))
         /\ UnlocksBy(S, u) \in Nat
<1> DEFINE F == [t \in S |-> {t} \X (1..Unlocks(t, u))]
<1>1. IsFiniteSet(S)
  <2>1. 0 \in Int /\ NrTasks - 1 \in Int
    BY GraphAssumption
  <2>2. IsFiniteSet(Tasks)
    BY <2>1, FS_Interval DEF Tasks
  <2> QED BY <2>2, FS_Subset
<1>2. ASSUME NEW t \in S PROVE IsFiniteSet({t} \X (1..Unlocks(t, u)))
  <2>1. Unlocks(t, u) \in Int /\ 1 \in Int
    BY DEF NaturalUnlocks
  <2>2. IsFiniteSet(1..Unlocks(t, u))
    BY <2>1, FS_Interval
  <2>3. IsFiniteSet({t})
    BY FS_Singleton
  <2> QED BY <2>2, <2>3, FS_Product
<1> DEFINE R == {{t} \X (1..Unlocks(t, u)) : t \in S}
<1>3. F \in Surjection(S, R)
  <2>1. F \in [S -> R]
    OBVIOUS
  <2>2. \A x \in R : \E t \in S : F[t] = x
    OBVIOUS
  <2> HIDE DEF F, R
  <2> QED BY <2>1, <2>2 DEF Surjection
<1>4. IsFiniteSet(R)
  <2> HIDE DEF F, R
  <2> QED BY <1>1, <1>3, FS_Surjection
<1>5. \A T \in R : IsFiniteSet(T)
  BY <1>2
<1>6. IsFiniteSet(UNION R)
  <2> HIDE DEF R
  <2> QED BY <1>4, <1>5, FS_UNION
<1>7. IsFiniteSet(Arrows(S, u))
  BY <1>6 DEF Arrows
<1>8. UnlocksBy(S, u) = Cardinality(Arrows(S, u))
  BY DEF UnlocksBy, Arrows
<1> QED BY <1>7, <1>8, FS_CardinalityType

LEMMA ArrowsAdd ==
  ASSUME NaturalUnlocks, NEW S \in SUBSET Tasks, NEW T \in SUBSET S, NEW u \in Tasks
  PROVE  UnlocksBy(S \ T, u) = UnlocksBy(S, u) - UnlocksBy(T, u)
<1>1. Arrows(S, u) = Arrows(S \ T, u) \cup Arrows(T, u)
  BY ArrowsAre
<1>2. Arrows(S \ T, u) \cap Arrows(T, u) = {}
  BY ArrowsAre
<1>3. S \ T \in SUBSET Tasks /\ T \in SUBSET Tasks
  OBVIOUS
<1>4. /\ IsFiniteSet(Arrows(S \ T, u)) /\ UnlocksBy(S \ T, u) = Cardinality(Arrows(S \ T, u))
      /\ UnlocksBy(S \ T, u) \in Nat
  BY <1>3, ArrowsFinite
<1>5. /\ IsFiniteSet(Arrows(T, u)) /\ UnlocksBy(T, u) = Cardinality(Arrows(T, u))
      /\ UnlocksBy(T, u) \in Nat
  BY <1>3, ArrowsFinite
<1>6. UnlocksBy(S, u) = Cardinality(Arrows(S, u))
  BY ArrowsFinite
<1>7. Cardinality(Arrows(S, u)) = Cardinality(Arrows(S \ T, u)) + Cardinality(Arrows(T, u))
                                    - Cardinality(Arrows(S \ T, u) \cap Arrows(T, u))
  BY <1>1, <1>4, <1>5, FS_Union
<1>8. Cardinality(Arrows(S \ T, u) \cap Arrows(T, u)) = 0
  BY <1>2, FS_EmptySet
<1> QED BY <1>4, <1>5, <1>6, <1>7, <1>8

LEMMA ArrowsFewer ==
  ASSUME NaturalUnlocks, NEW S \in SUBSET Tasks, NEW T \in SUBSET S, NEW u \in Tasks
  PROVE  UnlocksBy(T, u) <= UnlocksBy(S, u)
<1>1. T \in SUBSET Tasks
  OBVIOUS
<1>2. Arrows(T, u) \in SUBSET Arrows(S, u)
  BY ArrowsAre
<1>3. IsFiniteSet(Arrows(S, u)) /\ UnlocksBy(S, u) = Cardinality(Arrows(S, u))
  BY ArrowsFinite
<1>4. UnlocksBy(T, u) = Cardinality(Arrows(T, u))
  BY <1>1, ArrowsFinite
<1>5. Cardinality(Arrows(T, u)) <= Cardinality(Arrows(S, u))
  BY <1>2, <1>3, FS_Subset
<1> QED BY <1>3, <1>4, <1>5

LEMMA ArrowsNone ==
  ASSUME NaturalUnlocks, NEW S \in SUBSET Tasks, NEW u \in Tasks, UnlocksBy(S, u) = 0,
         NEW t \in S
  PROVE  Unlocks(t, u) = 0
<1>1. Arrows(S, u) = {}
  BY ArrowsFinite, FS_EmptySet
<1>2. Unlocks(t, u) \in Nat
  BY DEF NaturalUnlocks
<1>3. ASSUME Unlocks(t, u) # 0 PROVE FALSE
  <2>1. 1 \in 1..Unlocks(t, u)
    BY <1>2, <1>3
  <2>2. <<t, 1>> \in Arrows(S, u)
    BY <2>1, ArrowsAre
  <2> QED BY <1>1, <2>2
<1> QED BY <1>3

-----------------------------------------------------------------------------
(* The rounds of scheduler_ranktasks. *)
Layer(f, r) == {t \in Tasks : f[r - 1][t] = 0 /\ (r > 1 => f[r - 2][t] > 0)}

Round(f, r) ==
  IF r = 0 THEN [u \in Tasks |-> UnlocksBy(Tasks, u)]
  ELSE [u \in Tasks |-> f[r - 1][u] - UnlocksBy(Layer(f, r), u)]

Rounds(f, n) == f = [r \in 0..n |-> Round(f, r)]

LEMMA RoundSame ==
  ASSUME NEW f, NEW g, NEW r \in Nat,
         r > 0 => f[r - 1] = g[r - 1], r > 1 => f[r - 2] = g[r - 2]
  PROVE  Round(f, r) = Round(g, r)
<1>1. CASE r = 0
  BY <1>1 DEF Round
<1>2. CASE r # 0
  <2>1. f[r - 1] = g[r - 1]
    BY <1>2
  <2>2. Layer(f, r) = Layer(g, r)
    BY <2>1 DEF Layer
  <2> QED BY <1>2, <2>1, <2>2 DEF Round
<1> QED BY <1>1, <1>2

LEMMA RoundsExist ==
  ASSUME NEW n \in Nat
  PROVE  \E f : Rounds(f, n)
<1> DEFINE S == {m \in Nat : ~ \E f : Rounds(f, m)}
<1>1. ASSUME S # {} PROVE FALSE
  <2>1. S \in SUBSET Nat
    OBVIOUS
  <2>2. PICK m \in S : \A k \in S : m <= k
    <3> HIDE DEF S
    <3> QED BY <1>1, <2>1, Least
  <2>3. m \in Nat /\ ~ \E f : Rounds(f, m)
    OBVIOUS
  <2>4. CASE m = 0
    <3> DEFINE g == [r \in 0..0 |-> Round(<<>>, 0)]
    <3>1. \A r \in 0..0 : Round(g, r) = Round(<<>>, 0)
      <4> HIDE DEF g
      <4> QED BY DEF Round
    <3>2. Rounds(g, 0)
      <4>1. g = [r \in 0..0 |-> Round(g, r)]
        <5>1. g = [r \in 0..0 |-> Round(<<>>, 0)]
          OBVIOUS
        <5> HIDE DEF g
        <5> QED BY <3>1, <5>1
      <4> QED BY <4>1 DEF Rounds
    <3> QED BY <2>3, <2>4, <3>2
  <2>5. CASE m # 0
    <3>1. m - 1 \in Nat /\ m - 1 \notin S
      BY <2>2, <2>3, <2>5
    <3>2. PICK f : Rounds(f, m - 1)
      BY <3>1
    <3> DEFINE g == [r \in 0..m |-> IF r = m THEN Round(f, m) ELSE f[r]]
    <3> HIDE DEF S
    <3>3. \A r \in 0..(m - 1) : g[r] = f[r] /\ f[r] = Round(f, r)
      BY <2>3, <3>2 DEF Rounds
    <3>4. ASSUME NEW r \in 0..m PROVE Round(g, r) = Round(f, r)
      <4>1. r > 0 => g[r - 1] = f[r - 1]
        <5>1. r > 0 => r - 1 \in 0..(m - 1)
          BY <2>3
        <5> HIDE DEF g
        <5> QED BY <3>3, <5>1
      <4>2. r > 1 => g[r - 2] = f[r - 2]
        <5>1. r > 1 => r - 2 \in 0..(m - 1)
          BY <2>3
        <5> HIDE DEF g
        <5> QED BY <3>3, <5>1
      <4>3. r \in Nat
        BY <2>3
      <4> HIDE DEF g
      <4> QED BY <4>1, <4>2, <4>3, RoundSame
    <3>5. ASSUME NEW r \in 0..m PROVE g[r] = Round(g, r)
      <4>1. CASE r = m
        <5>1. g[r] = Round(f, r)
          BY <4>1
        <5> HIDE DEF g
        <5> QED BY <3>4, <5>1
      <4>2. CASE r # m
        <5>1. r \in 0..(m - 1)
          BY <2>3, <4>2
        <5> HIDE DEF g
        <5> QED BY <3>3, <3>4, <5>1
      <4> QED BY <4>1, <4>2
    <3>6. g = [r \in 0..m |-> g[r]]
      OBVIOUS
    <3> HIDE DEF g
    <3>7. Rounds(g, m)
      BY <3>5, <3>6 DEF Rounds
    <3> QED BY <2>3, <3>7
  <2> QED BY <2>4, <2>5
<1> HIDE DEF S
<1>2. S = {}
  BY <1>1
<1> QED BY <1>2 DEF S

LEMMA WaitsAreRounds == Rounds(Waits, NrTasks)
<1>1. NrTasks \in Nat
  BY GraphAssumption
<1>2. \E f : Rounds(f, NrTasks)
  BY <1>1, RoundsExist
<1> QED BY <1>2, Zenon DEF Waits, Rounds, Round, Layer

(* The tasks that are still to be ranked before round r. *)
Unranked(f, r) == {t \in Tasks : \A q \in 0..(r - 1) : f[q][t] # 0}

(* The waits of a task are the unlocks by tasks that are still unranked. *)
LEMMA WaitsAre ==
  ASSUME NaturalUnlocks, NEW f, Rounds(f, NrTasks)
  PROVE  \A r \in 0..NrTasks : \A u \in Tasks : f[r][u] = UnlocksBy(Unranked(f, r), u)
<1> DEFINE Good(r) == \A u \in Tasks : f[r][u] = UnlocksBy(Unranked(f, r), u)
           S == {r \in 0..NrTasks : ~ Good(r)}
<1>0. NrTasks \in Nat
  BY GraphAssumption
<1>1. ASSUME S # {} PROVE FALSE
  <2>1. S \in SUBSET Nat
    BY <1>0
  <2>2. PICK r \in S : \A q \in S : r <= q
    <3> HIDE DEF S
    <3> QED BY <1>1, <2>1, Least
  <2>3. r \in 0..NrTasks /\ ~ Good(r)
    OBVIOUS
  <2>4. \A q \in 0..NrTasks : q < r => Good(q)
    <3>1. \A q \in 0..NrTasks : q < r => q \notin S
      <4> HIDE DEF S
      <4> QED BY <1>0, <2>2, <2>3
    <3> QED BY <3>1
  <2>5. f[r] = Round(f, r)
    BY <2>3 DEF Rounds
  <2> HIDE DEF S
  <2>6. CASE r = 0
    <3>1. 0..(r - 1) = {}
      BY <2>6
    <3>2. Unranked(f, r) = Tasks
      BY <3>1 DEF Unranked
    <3> QED BY <2>3, <2>5, <2>6, <3>2 DEF Round
  <2>7. CASE r # 0
    <3>1. r \in Nat /\ r - 1 \in 0..NrTasks /\ r - 1 < r
      BY <1>0, <2>3, <2>7
    <3>2. Good(r - 1)
      BY <2>4, <3>1
    <3>3. Layer(f, r) \subseteq Unranked(f, r - 1)
      <4> SUFFICES ASSUME NEW t \in Layer(f, r), NEW q \in 0..((r - 1) - 1), f[q][t] = 0
                   PROVE  FALSE
        BY DEF Layer, Unranked
      <4>1. r > 1 /\ r - 2 \in 0..NrTasks /\ r - 2 < r /\ q \in 0..NrTasks /\ q <= r - 2 /\ q < r
        BY <1>0, <2>3, <3>1
      <4>2. t \in Tasks /\ f[r - 2][t] > 0
        BY <4>1 DEF Layer
      <4>3. f[q][t] = UnlocksBy(Unranked(f, q), t) /\ f[r - 2][t] = UnlocksBy(Unranked(f, r - 2), t)
        BY <2>4, <4>1, <4>2
      <4>4. Unranked(f, r - 2) \in SUBSET Unranked(f, q) /\ Unranked(f, q) \in SUBSET Tasks
        <5>1. \A k \in 0..(q - 1) : k \in 0..((r - 2) - 1)
          BY <4>1
        <5> QED BY <5>1 DEF Unranked
      <4>5. UnlocksBy(Unranked(f, r - 2), t) <= UnlocksBy(Unranked(f, q), t)
        BY <4>2, <4>4, ArrowsFewer
      <4>6. UnlocksBy(Unranked(f, r - 2), t) \in Nat
        BY <4>2, <4>4, ArrowsFinite
      <4> QED BY <4>2, <4>3, <4>5, <4>6
    <3>4. Unranked(f, r) = Unranked(f, r - 1) \ Layer(f, r)
      <4>1. \A t \in Tasks : t \in Unranked(f, r) <=> t \in Unranked(f, r - 1) /\ f[r - 1][t] # 0
        <5>1. \A q : q \in 0..(r - 1) <=> q \in 0..((r - 1) - 1) \/ q = r - 1
          BY <3>1, <2>7
        <5> QED BY <5>1 DEF Unranked
      <4>2. ASSUME NEW t \in Unranked(f, r - 1), f[r - 1][t] = 0 PROVE t \in Layer(f, r)
        <5>1. t \in Tasks
          BY DEF Unranked
        <5>2. ASSUME r > 1 PROVE f[r - 2][t] > 0
          <6>1. r - 2 \in 0..((r - 1) - 1) /\ r - 2 \in 0..NrTasks /\ r - 2 < r
            BY <1>0, <2>3, <3>1, <5>2
          <6>2. f[r - 2][t] # 0
            BY <6>1 DEF Unranked
          <6>3. f[r - 2][t] = UnlocksBy(Unranked(f, r - 2), t)
            BY <2>4, <5>1, <6>1
          <6>4. Unranked(f, r - 2) \in SUBSET Tasks
            BY DEF Unranked
          <6>5. UnlocksBy(Unranked(f, r - 2), t) \in Nat
            BY <5>1, <6>4, ArrowsFinite
          <6> QED BY <6>2, <6>3, <6>5
        <5> QED BY <4>2, <5>1, <5>2 DEF Layer
      <4>3. \A t \in Layer(f, r) : f[r - 1][t] = 0
        BY DEF Layer
      <4>4. Unranked(f, r) \subseteq Tasks /\ Unranked(f, r - 1) \subseteq Tasks
        BY DEF Unranked
      <4> QED BY <4>1, <4>2, <4>3, <4>4
    <3>5. ASSUME NEW u \in Tasks PROVE f[r][u] = UnlocksBy(Unranked(f, r), u)
      <4>1. f[r][u] = f[r - 1][u] - UnlocksBy(Layer(f, r), u)
        BY <2>5, <2>7 DEF Round
      <4>2. f[r - 1][u] = UnlocksBy(Unranked(f, r - 1), u)
        BY <3>2
      <4>3. Unranked(f, r - 1) \in SUBSET Tasks
        BY DEF Unranked
      <4>4. UnlocksBy(Unranked(f, r - 1) \ Layer(f, r), u)
              = UnlocksBy(Unranked(f, r - 1), u) - UnlocksBy(Layer(f, r), u)
        BY <3>3, <4>3, ArrowsAdd
      <4> QED BY <3>4, <4>1, <4>2, <4>4
    <3> QED BY <2>3, <3>5
  <2> QED BY <2>6, <2>7
<1> HIDE DEF S
<1>2. S = {}
  BY <1>1
<1> QED BY <1>2 DEF S

LEMMA WaitsFall ==
  ASSUME NaturalUnlocks, NEW f, Rounds(f, NrTasks), NEW t \in Tasks, NEW r \in 0..NrTasks
  PROVE  /\ f[r][t] \in Nat
         /\ \A q \in 0..NrTasks : q <= r /\ f[q][t] = 0 => f[r][t] = 0
<1>0. NrTasks \in Nat
  BY GraphAssumption
<1>1. \A q \in 0..NrTasks : f[q][t] = UnlocksBy(Unranked(f, q), t)
  BY WaitsAre
<1>2. \A q : Unranked(f, q) \in SUBSET Tasks
  BY DEF Unranked
<1>3. f[r][t] \in Nat
  BY <1>1, <1>2, ArrowsFinite
<1>4. ASSUME NEW q \in 0..NrTasks, q <= r, f[q][t] = 0 PROVE f[r][t] = 0
  <2>1. Unranked(f, r) \in SUBSET Unranked(f, q)
    <3>1. \A k \in 0..(q - 1) : k \in 0..(r - 1)
      BY <1>0, <1>4
    <3> QED BY <3>1 DEF Unranked
  <2>2. UnlocksBy(Unranked(f, r), t) <= UnlocksBy(Unranked(f, q), t)
    BY <1>2, <2>1, ArrowsFewer
  <2> QED BY <1>1, <1>3, <1>4, <2>2
<1> QED BY <1>3, <1>4

(* The rank is the first round before which the task has no waits. *)
LEMMA RankIs ==
  ASSUME NaturalUnlocks, NEW f, Rounds(f, NrTasks), NEW t \in Tasks,
         NEW m \in 0..NrTasks, f[m][t] = 0, \A q \in 0..NrTasks : q < m => f[q][t] # 0
  PROVE  Cardinality({r \in 0..NrTasks : f[r][t] > 0}) = m
<1>0. NrTasks \in Nat
  BY GraphAssumption
<1>1. ASSUME NEW r \in 0..NrTasks PROVE f[r][t] > 0 <=> r < m
  <2>1. f[r][t] \in Nat
    BY WaitsFall
  <2>2. CASE r < m
    BY <2>1, <2>2
  <2>3. CASE ~(r < m)
    <3>1. m <= r
      BY <1>0, <2>3
    <3>2. f[r][t] = 0
      BY <3>1, WaitsFall
    <3> QED BY <2>3, <3>2
  <2> QED BY <2>2, <2>3
<1>2. {r \in 0..NrTasks : f[r][t] > 0} = 0..(m - 1)
  <2>1. \A r : r \in 0..(m - 1) <=> r \in 0..NrTasks /\ r < m
    BY <1>0
  <2> QED BY <1>1, <2>1
<1>3. m \in Nat /\ 0 \in Int /\ m - 1 \in Int
  BY <1>0
<1>4. Cardinality(0..(m - 1)) = IF 0 > m - 1 THEN 0 ELSE (m - 1) - 0 + 1
  BY <1>3, FS_Interval
<1>5. Cardinality(0..(m - 1)) = m
  BY <1>3, <1>4
<1> QED BY <1>2, <1>5

LEMMA FirstRound ==
  ASSUME NEW f, NEW t \in Tasks, NEW r \in 0..NrTasks, f[r][t] = 0
  PROVE  \E m \in 0..NrTasks : /\ m <= r /\ f[m][t] = 0
                               /\ \A q \in 0..NrTasks : q < m => f[q][t] # 0
<1> DEFINE S == {q \in 0..NrTasks : f[q][t] = 0}
<1>0. NrTasks \in Nat
  BY GraphAssumption
<1>1. S \in SUBSET Nat /\ r \in S
  BY <1>0
<1>2. PICK m \in S : \A q \in S : m <= q
  <2> HIDE DEF S
  <2> QED BY <1>1, Least
<1>3. \A q \in 0..NrTasks : q < m => q \notin S
  <2>1. m \in Nat
    BY <1>1
  <2> HIDE DEF S
  <2> QED BY <1>0, <1>2, <2>1
<1> QED BY <1>1, <1>2, <1>3

LEMMA RankStep ==
  ASSUME SortInv, RankTasks
  PROVE  RanksRespectUnlocks'
<1>1. /\ phase = "rank"
      /\ \A t \in Tasks : \E r \in 0..NrTasks : Waits[r][t] = 0
      /\ rank' = [t \in Tasks |-> Cardinality({r \in 0..NrTasks : Waits[r][t] > 0})]
      /\ wait' = Waits[NrTasks]
  BY DEF RankTasks
<1>2. \A t, u \in Tasks : Unlocks(t, u) = Cardinality(AddsOf(All, <<t, u>>))
  <2>1. DOMAIN Adds = All
    BY AddFacts DEF All
  <2> QED BY <1>1, <2>1 DEF SortInv, UnlocksAsAdded, AddsOf
<1>3. NaturalUnlocks
  <2>1. \A d : AddsOf(All, d) \in SUBSET All
    BY DEF AddsOf
  <2> QED BY <1>2, <2>1, AllFacts DEF NaturalUnlocks
<1>4. Rounds(Waits, NrTasks) /\ NrTasks \in Nat
  BY WaitsAreRounds, GraphAssumption
<1>5. ASSUME NEW t \in Tasks PROVE wait'[t] = 0
  <2>1. PICK r \in 0..NrTasks : Waits[r][t] = 0
    BY <1>1
  <2>2. NrTasks \in 0..NrTasks /\ r <= NrTasks
    BY <1>4
  <2>3. Waits[NrTasks][t] = 0
    BY <1>3, <1>4, <2>1, <2>2, WaitsFall
  <2> QED BY <1>1, <2>3
<1>6. ASSUME NEW e \in DOMAIN Adds PROVE rank'[Adds[e][1]] < rank'[Adds[e][2]]
  <2> DEFINE a == Adds[e][1]
             b == Adds[e][2]
  <2>1. e \in All /\ a \in Tasks /\ b \in Tasks /\ Adds[e] = <<a, b>>
    BY AddFacts, GraphAssumption DEF All
  <2> HIDE DEF a, b
  <2>2. Unlocks(a, b) # 0
    <3>1. e \in AddsOf(All, <<a, b>>) /\ AddsOf(All, <<a, b>>) \in SUBSET All
      BY <2>1 DEF AddsOf
    <3>2. Cardinality(AddsOf(All, <<a, b>>)) # 0
      BY <3>1, AllFacts, FS_EmptySet
    <3> QED BY <1>2, <2>1, <3>2
  <2>3. PICK n \in 0..NrTasks : /\ Waits[n][b] = 0
                                /\ \A q \in 0..NrTasks : q < n => Waits[q][b] # 0
    <3>1. PICK r \in 0..NrTasks : Waits[r][b] = 0
      BY <1>1, <2>1
    <3> QED BY <2>1, <3>1, FirstRound
  <2>4. UnlocksBy(Unranked(Waits, n), b) = 0
    BY <1>3, <1>4, <2>1, <2>3, WaitsAre
  <2>5. a \notin Unranked(Waits, n)
    <3>1. Unranked(Waits, n) \in SUBSET Tasks
      BY DEF Unranked
    <3> QED BY <1>3, <2>1, <2>2, <2>4, <3>1, ArrowsNone
  <2>6. PICK q \in 0..(n - 1) : Waits[q][a] = 0
    BY <2>1, <2>5 DEF Unranked
  <2>7. q \in 0..NrTasks /\ q < n
    BY <1>4
  <2>8. PICK m \in 0..NrTasks : /\ m <= q /\ Waits[m][a] = 0
                                /\ \A k \in 0..NrTasks : k < m => Waits[k][a] # 0
    BY <2>1, <2>6, <2>7, FirstRound
  <2>9. Cardinality({r \in 0..NrTasks : Waits[r][a] > 0}) = m
    BY <1>3, <1>4, <2>1, <2>8, RankIs
  <2>10. Cardinality({r \in 0..NrTasks : Waits[r][b] > 0}) = n
    BY <1>3, <1>4, <2>1, <2>3, RankIs
  <2>11. rank'[a] = m /\ rank'[b] = n
    BY <1>1, <2>1, <2>9, <2>10
  <2>12. rank'[a] < rank'[b]
    BY <1>4, <2>7, <2>8, <2>11
  <2> QED BY <2>12 DEF a, b
<1> QED BY <1>5, <1>6 DEF RanksRespectUnlocks

(***************************************************************************)
(* scheduler_ranktasks, when it does not stop with unsatisfiable           *)
(* dependencies, gives a task a smaller rank than all it unlocks and       *)
(* leaves all the waits at zero, for any number of tasks and any           *)
(* dependencies, double ones included.                                     *)
(***************************************************************************)
THEOREM RanksOrdered == BuildSpec => []RanksRespectUnlocks
<1>1. BuildInit => RanksRespectUnlocks
  <2>1. BuildInit => phase # "built"
    BY DEF BuildInit
  <2> QED BY <2>1 DEF RanksRespectUnlocks
<1>2. ASSUME SortInv, RanksRespectUnlocks, [BuildNext]_allVars
      PROVE  RanksRespectUnlocks'
  <2>1. CASE RankTasks
    BY <1>2, <2>1, RankStep
  <2>2. CASE phase' # "built"
    BY <2>2 DEF RanksRespectUnlocks
  <2>3. CASE UNCHANGED <<phase, rank, wait>>
    BY <1>2, <2>3 DEF RanksRespectUnlocks
  <2>4. UNCHANGED buildVars => UNCHANGED <<phase, rank, wait>>
    BY DEF buildVars, fields
  <2>5. UNCHANGED allVars => UNCHANGED buildVars
    BY DEF allVars
  <2>6. ASSUME NEW p \in Thread, MapperStep(p) PROVE UNCHANGED <<phase, rank, wait>>
    BY <2>6 DEF MapperStep, AddUnlock, InAddUnlock, CountUnlock, SortUnlock, Return, fields
  <2>7. Caller => RankTasks \/ phase' # "built"
    BY DEF Caller, StartAdds, StartCounts, StartSorts, SetUnlocks
  <2> QED BY <1>2, <2>1, <2>2, <2>3, <2>4, <2>5, <2>6, <2>7 DEF BuildNext, Pool
<1>3. SortInv /\ RanksRespectUnlocks /\ [BuildNext]_allVars => RanksRespectUnlocks'
  BY <1>2
<1> QED BY <1>1, <1>3, SortInvariant, PTL DEF BuildSpec
=============================================================================
