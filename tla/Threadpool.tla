----------------------------- MODULE Threadpool -----------------------------
(***************************************************************************)
(* The threadpool (threadpool.c): threadpool_map hands an array out to the *)
(* runner threads and to its caller in chunks.  The runners rest between   *)
(* two barriers: they wait at the run barrier for the next map and at the  *)
(* wait barrier for each other.  A POSIX barrier is one step here, which   *)
(* lets all of its threads through at once when they are all there; where  *)
(* POSIX barriers are missing, barrier.h makes one of a mutex, a condition *)
(* and a counter, whose threads come and go one by one.                    *)
(*                                                                         *)
(* The sizes and counts are size_t: the difference of the size and of a    *)
(* count that has run past it wraps.                                       *)
(***************************************************************************)
EXTENDS Integers, FiniteSets

CONSTANTS
  Runner,         \* the threads of the pool
  Main,           \* the thread that calls threadpool_map
  ChunkRatio,     \* threadpool_default_chunk_ratio
  IntMax,         \* INT_MAX
  SizeMod,        \* 2^(bits of a size_t)
  Sizes,          \* bound: the sizes of the arrays that are mapped
  Chunks          \* bound: the chunk sizes asked for

auto_chunk_size == 0
uniform_chunk_size == -1

ASSUME ThreadAssumption == IsFiniteSet(Runner) /\ Main \notin Runner

(* A size_t has room for what the threads add to the count once the array  *)
(* is used up: an int each, 2^31 beside 2^64.                              *)
Fits(n) == n \in Nat /\ n + (Cardinality(Runner) + 2) * IntMax < SizeMod

ASSUME SizeAssumption ==
  /\ ChunkRatio \in Nat \ {0}
  /\ IntMax \in Nat \ {0}
  /\ SizeMod \in Nat \ {0}
  /\ \A n \in Sizes : Fits(n)
  /\ Chunks \subseteq {auto_chunk_size, uniform_chunk_size} \cup Nat

VARIABLES
  num_threads,            \* the caller included; never changes
  posix,                  \* does the system have barriers?  never changes
  count,                  \* count[b]: barrier->count of the two barriers
  asleep,                 \* the threads in pthread_cond_wait
  woken,                  \* those of them the broadcast has released
  map_data_size, map_data_count, map_data_chunk,
  map_function,           \* "NULL" or "f"
  num_threads_running,
  pc, tid, chunk_size, task_ind,
  calls       \* calls[e]: how often element e was mapped in this map

barriers == <<count, asleep, woken>>

vars == <<num_threads, posix, barriers, map_data_size, map_data_count, map_data_chunk,
          map_function, num_threads_running, pc, tid, chunk_size, task_ind, calls>>

Thread == Runner \cup {Main}

(* What threadpool_map is asked to do. *)
request == <<num_threads, posix, map_data_size, map_data_chunk, map_function>>

Element == UNION {0..(n - 1) : n \in Sizes}

(***************************************************************************)
(* threadpool_init: the threads have been started, unless the pool has no  *)
(* thread but its caller.                                                  *)
(***************************************************************************)
Init ==
  /\ num_threads \in {1, Cardinality(Thread)}
  /\ posix \in BOOLEAN
  /\ count = [b \in {"run", "wait"} |-> 0]
  /\ asleep = {}
  /\ woken = {}
  /\ map_data_size = 0
  /\ map_data_count = 0
  /\ map_data_chunk = 0
  /\ map_function = "NULL"
  /\ num_threads_running = 0
  /\ pc = [p \in Thread |-> IF num_threads = 1
                            THEN IF p = Main THEN "idle" ELSE "gone"
                            ELSE IF p = Main THEN "init" ELSE "wait"]
  /\ tid = [p \in Thread |-> 0]
  /\ chunk_size = [p \in Thread |-> 0]
  /\ task_ind = [p \in Thread |-> 0]
  /\ calls = [e \in Element |-> 0]

Goto(p, label) == pc' = [pc EXCEPT ![p] = label]

(* The number of elements the mapper is given: an int, which a size that   *)
(* does not fit leaves negative.                                           *)
AsInt(n) == IF n <= IntMax THEN n ELSE n - 2 * (IntMax + 1)

(* The elements of the chunk that starts at i and has n elements. *)
Mapped(i, n) ==
  [e \in Element |-> calls[e] + (IF e \in i..(i + AsInt(n) - 1) THEN 1 ELSE 0)]

-----------------------------------------------------------------------------
(***************************************************************************)
(* threadpool_map with a pool of one thread: direct calls, with at most    *)
(* INT_MAX elements each.                                                  *)
(***************************************************************************)
MapAlone(n) ==
  /\ num_threads = 1
  /\ pc[Main] = "idle"
  /\ map_data_size' = n
  /\ \/ /\ n <= IntMax
        /\ calls' = [e \in Element |-> IF e < n THEN 1 ELSE 0]
        /\ UNCHANGED <<pc, chunk_size, task_ind>>
     \/ /\ n > IntMax
        /\ calls' = [e \in Element |-> 0]
        /\ chunk_size' = [chunk_size EXCEPT ![Main] = IntMax]
        /\ task_ind' = [task_ind EXCEPT ![Main] = 0]
        /\ Goto(Main, "call")
  /\ UNCHANGED <<num_threads, posix, barriers, map_data_count, map_data_chunk,
                 map_function, num_threads_running, tid>>

(* One call of the loop; task_ind is data_count. *)
CallAlone ==
  /\ num_threads = 1
  /\ pc[Main] = "call"
  /\ LET data_count == task_ind[Main] + chunk_size[Main]
     IN /\ calls' = Mapped(task_ind[Main], chunk_size[Main])
        /\ \/ /\ data_count >= map_data_size
              /\ Goto(Main, "idle")
              /\ chunk_size' = [chunk_size EXCEPT ![Main] = 0]
              /\ task_ind' = [task_ind EXCEPT ![Main] = 0]
           \/ /\ data_count < map_data_size
              /\ task_ind' = [task_ind EXCEPT ![Main] = data_count]
              /\ chunk_size' = [chunk_size EXCEPT ![Main] =
                   IF data_count + @ > map_data_size THEN map_data_size - data_count ELSE @]
              /\ UNCHANGED pc
  /\ UNCHANGED <<request, barriers, map_data_count, num_threads_running, tid>>

-----------------------------------------------------------------------------
(***************************************************************************)
(* threadpool_map                                                          *)
(***************************************************************************)
(* Set the map data and go to the run barrier. *)
Map(n, chunk) ==
  /\ num_threads > 1
  /\ pc[Main] = "idle"
  /\ map_data_size' = n
  /\ map_data_count' = 0
  /\ map_data_chunk' =
       IF chunk # auto_chunk_size THEN chunk
       ELSE IF n \div (num_threads * ChunkRatio) > 1
            THEN n \div (num_threads * ChunkRatio) ELSE 1
  /\ map_function' = "f"
  /\ num_threads_running' = 0
  /\ calls' = [e \in Element |-> 0]
  /\ Goto(Main, "run")
  /\ UNCHANGED <<num_threads, posix, barriers, tid, chunk_size, task_ind>>

-----------------------------------------------------------------------------
(***************************************************************************)
(* The barriers: where a thread waits, and where it goes when it is let    *)
(* through.  The caller works on the map as well, or shuts the pool down.  *)
(***************************************************************************)
AtBarrier(p) ==
  CASE num_threads > 1 /\ pc[p] \in {"init", "wait"} -> "wait"
    [] num_threads > 1 /\ pc[p] \in {"run", "clean"} -> "run"
    [] OTHER -> "none"

Beyond(p) ==
  CASE pc[p] = "clean"                   -> "join"
    [] pc[p] = "init"                    -> "idle"
    [] pc[p] = "wait" /\ p = Main        -> "idle"
    [] pc[p] = "wait" /\ p # Main        -> "run"
    [] pc[p] = "run" /\ p = Main         -> "size"
    [] pc[p] = "run" /\ p # Main         -> "test"

(* The threads of S go on; the caller has a fixed number in the map. *)
LetThrough(S) ==
  /\ pc' = [p \in Thread |-> IF p \in S THEN Beyond(p) ELSE pc[p]]
  /\ tid' = IF Main \in S /\ pc[Main] = "run"
            THEN [tid EXCEPT ![Main] = num_threads - 1] ELSE tid

(* pthread_barrier_wait: all are there. *)
Open(b) ==
  /\ posix
  /\ \A p \in Thread : AtBarrier(p) = b
  /\ LetThrough(Thread)
  /\ UNCHANGED <<request, barriers, map_data_count, num_threads_running,
                 chunk_size, task_ind, calls>>

(* Mutant: the counter is not reset for the next use. *)
BarrierWaitOnce(p) ==
  /\ ~posix
  /\ AtBarrier(p) # "none" /\ p \notin asleep \cup woken
  /\ count' = [count EXCEPT ![AtBarrier(p)] = IF @ + 1 < num_threads THEN @ + 1 ELSE @]
  /\ \/ /\ count[AtBarrier(p)] + 1 < num_threads
        /\ asleep' = asleep \cup {p}
        /\ UNCHANGED <<woken, pc, tid>>
     \/ /\ count[AtBarrier(p)] + 1 >= num_threads
        /\ woken' = woken \cup {q \in asleep : AtBarrier(q) = AtBarrier(p)}
        /\ asleep' = {q \in asleep : AtBarrier(q) # AtBarrier(p)}
        /\ LetThrough({p})
  /\ UNCHANGED <<request, map_data_count, num_threads_running, chunk_size,
                 task_ind, calls>>

(* The ersatz swift_barrier_wait, one critical section of barrier->mutex:  *)
(* sleep while threads are still running, or release all sleepers and      *)
(* re-initialise the barrier.                                              *)
BarrierWait(p) ==
  /\ ~posix
  /\ AtBarrier(p) # "none" /\ p \notin asleep \cup woken
  /\ \/ /\ count[AtBarrier(p)] + 1 < num_threads
        /\ count' = [count EXCEPT ![AtBarrier(p)] = @ + 1]
        /\ asleep' = asleep \cup {p}
        /\ UNCHANGED <<woken, pc, tid>>
     \/ /\ count[AtBarrier(p)] + 1 >= num_threads
        /\ count' = [count EXCEPT ![AtBarrier(p)] = 0]
        /\ woken' = woken \cup {q \in asleep : AtBarrier(q) = AtBarrier(p)}
        /\ asleep' = {q \in asleep : AtBarrier(q) # AtBarrier(p)}
        /\ LetThrough({p})
  /\ UNCHANGED <<request, map_data_count, num_threads_running, chunk_size,
                 task_ind, calls>>

(* pthread_cond_wait gets the mutex back and returns. *)
BarrierLeave(p) ==
  /\ p \in woken
  /\ woken' = woken \ {p}
  /\ LetThrough({p})
  /\ UNCHANGED <<request, count, asleep, map_data_count, num_threads_running,
                 chunk_size, task_ind, calls>>

-----------------------------------------------------------------------------
(* If no map function is specified, just die. *)
TestFunction(r) ==
  /\ pc[r] = "test"
  /\ Goto(r, IF map_function = "NULL" THEN "gone" ELSE "tid")
  /\ UNCHANGED <<request, barriers, map_data_count, num_threads_running, tid,
                 chunk_size, task_ind, calls>>

(* Mutant: the number is read and counted up in two steps. *)
TakeTidStale(r) ==
  /\ pc[r] = "tid"
  /\ tid' = [tid EXCEPT ![r] = num_threads_running]
  /\ num_threads_running' =
       IF \E q \in Runner \ {r} : pc[q] = "tid" THEN num_threads_running
       ELSE num_threads_running + 1
  /\ Goto(r, "size")
  /\ UNCHANGED <<request, barriers, map_data_count, chunk_size, task_ind, calls>>

(* atomic_inc(&tp->num_threads_running) *)
TakeTid(r) ==
  /\ pc[r] = "tid"
  /\ tid' = [tid EXCEPT ![r] = num_threads_running]
  /\ num_threads_running' = num_threads_running + 1
  /\ Goto(r, "size")
  /\ UNCHANGED <<request, barriers, map_data_count, chunk_size, task_ind, calls>>

-----------------------------------------------------------------------------
(***************************************************************************)
(* threadpool_chomp                                                        *)
(***************************************************************************)
(* Compute the desired chunk size. *)
ChunkSize(p) ==
  LET share == ((tid[p] + 1) * map_data_size) \div num_threads
                 - (tid[p] * map_data_size) \div num_threads
      rest == ((map_data_size - map_data_count) % SizeMod) \div (2 * num_threads)
      desired == IF map_data_chunk = uniform_chunk_size THEN share
                 ELSE IF rest > map_data_chunk THEN map_data_chunk ELSE rest
  IN IF desired < 1 THEN 1 ELSE IF desired > IntMax THEN IntMax ELSE desired

Size(p) ==
  /\ pc[p] = "size"
  /\ chunk_size' = [chunk_size EXCEPT ![p] = ChunkSize(p)]
  /\ Goto(p, "get")
  /\ UNCHANGED <<request, barriers, map_data_count, num_threads_running, tid, task_ind,
                 calls>>

(* No chunk is left: go to the wait barrier, and the locals are gone. *)
Leave(p) ==
  /\ Goto(p, "wait")
  /\ chunk_size' = [chunk_size EXCEPT ![p] = 0]
  /\ task_ind' = [task_ind EXCEPT ![p] = 0]
  /\ tid' = [tid EXCEPT ![p] = 0]

(* Get a chunk and check its size: atomic_add(&tp->map_data_count, ...) *)
Get(p) ==
  /\ pc[p] = "get"
  /\ map_data_count' = (map_data_count + chunk_size[p]) % SizeMod
  /\ \/ /\ map_data_count >= map_data_size
        /\ Leave(p)
     \/ /\ map_data_count < map_data_size
        /\ task_ind' = [task_ind EXCEPT ![p] = map_data_count]
        /\ chunk_size' = [chunk_size EXCEPT ![p] =
             IF map_data_count + @ > map_data_size
             THEN map_data_size - map_data_count ELSE @]
        /\ Goto(p, "call")
        /\ UNCHANGED tid
  /\ UNCHANGED <<request, barriers, num_threads_running, calls>>

(* The mapper function returns from its chunk. *)
Call(p) ==
  /\ num_threads > 1
  /\ pc[p] = "call"
  /\ calls' = Mapped(task_ind[p], chunk_size[p])
  /\ Goto(p, "size")
  /\ UNCHANGED <<request, barriers, map_data_count, num_threads_running, tid,
                 chunk_size, task_ind>>

-----------------------------------------------------------------------------
(***************************************************************************)
(* threadpool_clean                                                        *)
(***************************************************************************)
Clean ==
  /\ pc[Main] = "idle"
  /\ map_function' = IF num_threads > 1 THEN "NULL" ELSE map_function
  /\ Goto(Main, IF num_threads > 1 THEN "clean" ELSE "gone")
  /\ UNCHANGED <<num_threads, posix, barriers, map_data_size, map_data_count,
                 map_data_chunk, num_threads_running, tid, chunk_size, task_ind,
                 calls>>

Join ==
  /\ pc[Main] = "join"
  /\ \A r \in Runner : pc[r] = "gone"
  /\ Goto(Main, "gone")
  /\ UNCHANGED <<request, barriers, map_data_count, num_threads_running, tid,
                 chunk_size, task_ind, calls>>

Gone == (\A p \in Thread : pc[p] = "gone") /\ UNCHANGED vars

-----------------------------------------------------------------------------
Begin == Clean \/ \E n \in Sizes : MapAlone(n) \/ \E c \in Chunks : Map(n, c)

(* What a thread does outside mapper functions. *)
PoolStep(p) ==
  \/ BarrierWait(p) \/ BarrierLeave(p)
  \/ Size(p) \/ Get(p)
  \/ p \in Runner /\ (TestFunction(p) \/ TakeTid(p))

-----------------------------------------------------------------------------
(***************************************************************************)
(* When threadpool_map returns, each element of the array was mapped, once *)
(* and no more, and nothing past its end, whatever the threads read of the *)
(* count when they chose their chunks; and no runner is still in a mapper. *)
(***************************************************************************)
MapComplete ==
  pc[Main] = "idle" =>
    /\ \A e \in Element : calls[e] = IF e < map_data_size THEN 1 ELSE 0
    /\ \A r \in Runner : pc[r] \in {"wait", "run", "gone"}

(***************************************************************************)
(* The threads at work in a map have different numbers, as the mappers     *)
(* that index arrays with threadpool_gettid rely on.                       *)
(***************************************************************************)
TidsDistinct ==
  \A p, q \in Thread :
    p # q /\ pc[p] \in {"size", "get", "call"} /\ pc[q] \in {"size", "get", "call"}
      => tid[p] # tid[q]

(***************************************************************************)
(* Every map returns, and the pool can always be shut down: no thread is   *)
(* left behind at a barrier.                                               *)
(***************************************************************************)
CallsReturn == (pc[Main] # "idle") ~> (pc[Main] \in {"idle", "gone"})
=============================================================================
