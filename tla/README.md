# SWIFT in TLA+

SWIFT is a cosmology and astrophysics code (`src/src/`, C) that parallelises a
time step as a graph of tasks: a *scheduler* hands tasks to *runner* threads,
tasks take hierarchical *locks* on the cells of an octree, and everything that
is not a task (building the graph, sorting, friends-of-friends initialisation)
is mapped over arrays by a *threadpool*.  Nearly all of the physics is written
as if it were sequential; that it may be is the business of a few hundred lines
of lock-free C.  Most of these modules are about those lines; one is about what
the tasks of a step do to the time steps of the particles, each of which has its
own.

Contents: [parts of the system](#1-the-parts-of-the-system) ·
[modules](#2-modules-and-code) · [runs](#3-what-is-model-checked) ·
[fairness](#4-fairness) · [proofs](#5-what-is-proved) ·
[findings](#6-findings) · [limits](#7-what-is-not-modelled) · [plan](#8-plan)

To check a run: `tlc -workers 2 -config MCCellLock.cfg MCCellLock`, and so on
for each line of `PROJECT.json`; to check the proofs: `tlapm CellLockProofs.tla`,
and so on for `TaskLockProofs`, `QueueRingProofs`, `QueueHeapProofs`,
`SchedulerProofs`, `GraphBuildProofs`, `TimeIntegrationProofs` and `FofProofs`.

## 1. The parts of the system

| part | state it keeps | operations | used by |
|---|---|---|---|
| **Cell tree locks** `cell_lock.c`, `lock.h` | per cell and kind of data (parts, gparts, multipole, sparts, sinks, bparts): a lock word and a counter `hold` of locked cells below | `cell_*locktree`, `cell_*unlocktree` (six copies) | task locks |
| **Task locks** `task.c` | none of its own | `task_lock`, `task_unlock`: the tree locks each type and subtype needs | queues, `scheduler_done` |
| **Task queues** `queue.c` | a ring of incoming tasks with three wrapping counters; a binary heap of (task, weight); a lock | `queue_init`, `queue_insert` (any thread, no lock), `queue_get_incoming`, `queue_gettask` | scheduler |
| **Scheduler** `scheduler.c`, with `engine_launch` and `runner_main` | per task `wait`, `skip`; `waiting`; the queues; `sleep_mutex`/`sleep_cond` | `scheduler_activate`, `scheduler_start` and its mappers, `scheduler_enqueue`, `scheduler_gettask`, `scheduler_done`, `scheduler_reset` | engine, runners |
| **Dependency buffer** `scheduler.c` | two parallel growing arrays, `nr_unlocks`, `completed_unlock_writes`, `size_unlocks` | `scheduler_addunlock`, `scheduler_extend_unlocks` | graph construction, from threadpool mappers |
| **Task graph construction** `engine_maketasks.c`, `scheduler.c` | tasks, dependencies, ranks, weights | make, split, counting sort of dependencies, ranking, reweighting | engine, at a rebuild |
| **Threadpool** `threadpool.c` | the current map (data, size, chunk), a count of the elements taken, two barriers | `threadpool_init`, `threadpool_map`, `threadpool_clean` | everything outside the task graph |
| **Barrier** `barrier.h` | POSIX barrier, or a count with a mutex and condition variable where there is none | `swift_barrier_wait` | threadpool, engine and runners |
| **Friends-of-friends** `fof.c` | `group_index`, a union-find forest that all threads share without locks | `fof_find`, `fof_union`, the searches of a cell and of two | FOF tasks |
| **Activation** `cell_unskip.c`, `engine_unskip.c`, `engine_marktasks.c` | which tasks a step needs, limiter, synchronisation and drift flags of cells | tree walks | engine, each step |
| **Timeline** `timeline.h`, `timestep*.h`, `runner_time_integration.c` | per particle a time bin, a wake-up bin, a flag for synchronisation; per cell the first end and last beginning of its particles' steps, and flags for limiter and synchronisation | kick2, timestep, limiter loops, limiter, sync, kick1, collect | step tasks |
| **Space and cells** `space*.c`, `cell*.c` | the octree, particle arrays, free cells | rebuild, split, recycle, drift | engine |
| **Unique identifiers** `space_unique_id.c` | two batches of identifiers and a lock | draw an identifier, renew the batches | star formation and splitting |
| **Engine** `engine*.c`, `collectgroup.c`, `output_list.c` | times of outputs, rebuild conditions, end-of-step counters | `engine_step`, collection, outputs | `main` |
| **Restart files** `restart.c` | files on disk | save, rotate, read | engine |
| **MPI exchange** `proxy.c`, `engine_strays.c`, `engine_redistribute.c`, send and recv tasks | proxies, requests, foreign cells | exchange of cells, particles and time bins | engine, scheduler |
| **Hash map, buffers, parser, diagnostics** `hashmap.c`, `particle_buffer.c`, `parser.c`, … | their own | the usual ones | various |
| **Physics** `hydro/`, `gravity/`, `stars/`, … | particle properties | floating-point kernels | tasks |

How they interact.  `engine_launch` lets the runners through a barrier and then
loads the active tasks from threadpool mappers; runners and loaders concurrently
decrement waits, enqueue tasks and count `waiting`.  A runner in
`scheduler_gettask` tries its own queue, then steals, then sleeps; inside
`queue_gettask` it calls `task_lock` on entry after entry of a heap that this
same scan re-weights; `task_lock` makes up to four calls of `cell_*locktree`,
each of which may fail because of another call that is going to fail itself.
`scheduler_done` releases the locks, decrements waits and wakes the sleepers.
What is launched is decided step by step: the engine jumps to the earliest end of
a step that a cell knows of, un-skips the tasks of the cells that are active then,
and the tasks themselves choose the particles' next steps, shorten those of
neighbours and write the cells' times from which the next jump is made.

What is hard.  (i) Interleavings of atomics without locks: the climb of
`cell_locktree`, the ring of the queue, the doubling of the dependency buffer,
the union-find forest.  (ii) Lost wakeups and early departures: `waiting`,
`sleep_cond`, the extra count of `engine_launch`.  (iii) Values that are stale
when used: the count of `threadpool_chomp`, the root of `fof_union`, the list of
queues worth stealing from.  (iv) Counters at their limits: the 32-bit tickets of
the ring, chunks beyond `INT_MAX`, a heap or a buffer that is full.  (v) Two
long switches (`task_lock`, `task_unlock`) that must agree on some sixty cases.
(vi) Bookkeeping spread over many tasks: a particle's half kicks, wake-ups and
requests for synchronisation are set, used and cleared by different tasks of
different cells, and a cell's times are a cache of all that.
There is no persistence in these parts, so no crash recovery; message loss
belongs to MPI.  `PROJECT.json` lists the hazards line by line with the
properties meant to catch them.

What makes each part correct.
*Tree locks*: two granted cells never share a branch; failed calls leave no trace.
*Queues*: no task lost, duplicated or stranded; the heap stays a heap; a NULL
means that each task was tried.
*Scheduler*: each active task runs once, after its dependencies, never beside a
conflicting task; a launch returns, and only when all is done.
*Graph construction*: no write into freed memory, no dependency lost or
misplaced, no circle of waits, ranks that follow the dependencies.
*Threadpool and barrier*: each element mapped once; distinct thread numbers; maps
return.
*Time integration*: each particle is kicked without gap or overlap, no wake-up or
request is forgotten, cells' times are exact, no step is overslept.
*Friends-of-friends*: groups are exactly the connected components; no cycles.

## 2. Modules and code

| module | models | state | its actions are |
|---|---|---|---|
| `TreeLock` | the promise of the tree locks | who was granted which cell | grant, give back |
| `CellLock` | `cell_locktree`, `cell_unlocktree` | `lock`, `hold`, a program counter and the fingers of each call | each read of `hold`, compare-and-swap and increment |
| `TaskLock` | `task_lock`, `task_unlock` | who was granted which cell for which kind of data; `without_atomics` chooses the build | taking and returning one tree lock of the sequence |
| `QueueRing` | `queue_insert`, `queue_get_incoming`, the locking of `queue_gettask` | ring, counters modulo `UIntMod`, the tasks in the heap as a set | each atomic operation |
| `QueueHeap` | the same with the heap and the scan; EXTENDS `QueueRing` | entries with weights, the array's size | one try of an entry; sift operations are pure functions |
| `TaskGraph` | the promise of the scheduler | active, running and done tasks | launch, run, finish, return |
| `Scheduler` | `engine_launch`, `scheduler_start` with its mappers, `_enqueue`, `_gettask`, `_done`, `runner_main` | waits, skips, `waiting`, queues as sets, mutex, sleepers, who was refused a ready task | each atomic decrement, insert and mutex operation |
| `TaskFetch` | `scheduler_gettask` and `queue_gettask` with the locks in full; EXTENDS `CellLock` | runners, queues, mutex, sleepers and all of `CellLock`'s state | one visit of a queue, one try of a task, one step of a tree lock |
| `UnlockBuffer` | `scheduler_addunlock`, `scheduler_extend_unlocks`, `scheduler_reset`'s counters | the array, which of its copies is current, the counters, local copies of the pointer | each atomic operation, read of a shared variable, and write |
| `Threadpool` | `threadpool_init`, `_map`, `_chomp`, `_runner`, `_clean`, and both builds of `swift_barrier_wait` | the request, `map_data_count`, what was mapped; the ersatz barriers' counts and sleepers | size of the chunk, taking it, calling the mapper; opening of a POSIX barrier, or the two critical sections of the ersatz |
| `GraphBuild` | dependencies added, counted and sorted from mapper functions, `scheduler_set_unlocks`, `scheduler_ranktasks`; EXTENDS `Threadpool`, INSTANCEs `UnlockBuffer` | the temporary arrays, the tasks' `unlock_tasks`, `nr_unlock_tasks`, `wait`, `rank` | one element of a chunk, one phase of the caller |
| `TimeIntegration` | `engine_step` as far as time goes: un-skipping or rebuild, `runner_do_kick2`, `_timestep`, the limiter loops, `_limiter`, `_sync`, `_kick1`, `_timestep_collect`, collection of the next time | per particle: bin, time kicked to, wake-up, request; per cell: times and flags; the activated tasks | one task |
| `Fof` | `fof_find`, `atomic_update_root`, `fof_union`, the loops of the searches | `group_index`, locals of each thread | each read of `group_index` and each compare-and-swap |
| `CellLockProofs`, `TaskLockProofs`, `QueueRingProofs`, `QueueHeapProofs`, `SchedulerProofs`, `GraphBuildProofs`, `TimeIntegrationProofs`, `FofProofs` | theorems about the module of that name | | |
| `MC*` | small instances | | |

How they fit together.  `CellLock` implements `TreeLock`, which `TaskLock` uses
as its lock; `TaskFetch` composes `CellLock` with the fetching loop;
`QueueHeap` refines `QueueRing`'s set of tasks to an array (`HeapImplementsRing`); `GraphBuild` runs
`UnlockBuffer`'s calls in the mapper functions of `Threadpool`'s maps and makes
the `Unlocks` that are a constant of `Scheduler`; `Scheduler` implements `TaskGraph` with queues as sets and `task_lock` as one step, which is
what the modules below it justify: that step is refused when a conflicting task
runs, and may be when another runner is trying tasks at the moment (`Contended`).
`TaskFetch` has those calls in full.  `TimeIntegration` relies on the scheduler in
turn: a launch runs each activated task once, after those it depends on.

Abstractions worth knowing.
* Memory is sequentially consistent.  The shared words are read through `volatile`
  or the `__sync`/`atomic_*` builtins, which are full barriers; the x86 and ARM
  reorderings of the few plain reads are not explored.
* `lock.h` is modelled in its default variant, a compare-and-swap on a word.
* A weight is a float; halving ends at 0 by underflow.  `QueueHeap` counts
  weights in units of the smallest float, and halving rounds to even there.
* Physics inside a task, timers, logging, the debugging checks and thread
  affinity are left out.  Errors that the code raises (`error("Negative
  wait!")`, `error("Failed to unlock cell.")`) appear as properties.
* `task_lock`'s tests of `hold` at the head of each case are hints that can only
  add refusals; `TaskLock` allows a refusal at any point.
* The tables `LockPair`, `UnlockPair` etc. of `TaskLock` are one per `switch`, so
  that they can disagree where the switches do; `UndoPair` etc. have the rollback of
  each single refusal, read off the code case by case.
* `TimeIntegration` is about gas particles; gravity, stars, sinks, black holes and
  radiation have copies of the same code on fields of their own.  A task is one
  step: it works on its own super-cell, or on two cells that it locks.  What a
  particle's own criteria ask for is any member of `Wishes[p]`; which particles are
  neighbours is the constant `Ngb`.  Sorting and the pruning along an axis only spare
  the loops comparisons that would fail and are left out.  The limiter's loops treat a
  particle at the level of the tree its smoothing length asks for; `LimiterLoop` takes
  for each particle either the level of the task's cells or that of the leaves, and
  leaves out the levels between, as all that the level decides is which two particles
  that reach each other are treated as one pair.  Feedback hits any set of particles
  of its two cells.  `ti_kick` is a field of the debugging build, kept to say where a particle
  stands; `torn` and `cap` are history variables.  A shift `1LL << n` is the
  recursive function `Pow2`, about which, unlike `2^n`, the provers can reason.
* In `GraphBuild` which dependencies are added is the constant `Adds`, one for each
  element of the map.  The graph is built with POSIX barriers by three threads; maps
  with the ersatz barrier, and by one thread, are those of phase "plain".  Adding a
  dependency of a task on itself, or a circle of them, is allowed; `RankTasks` is
  then not enabled, as `scheduler_ranktasks` stops the program.
* In `Fof` the recursion to leaf cells only decides which pairs of cells are
  compared; it is the constant `Rows`.  `raced` is a history variable.

Names follow the code; definitions called after a fault (`UndoNothing`,
`GuardMissing`, …) are deliberate mutants, each next to the definition it would
replace, kept to show that a property notices the fault.

## 3. What is model-checked

| run | instance | what it shows |
|---|---|---|
| `cell_lock` | a top cell, two children, one grandchild; 3 calls | `TreeExclusion`: granted cells never share a branch. `LockWordOwned`, `HoldIsCount`: words and counters are exact on every path, failed climbs included. `ImplementsTreeLock`. `SomeCallGranted`: mutual refusals do not go on for ever |
| `task_lock` | 3 cells, every type and subtype, 2 threads, both builds | `NoLockLeaked`, `ReleasesOwnLocks`: the two switches agree, and so do the rollbacks. `RunningApart`: tasks that run together have locked different branches |
| `task_lock_gravity` | gravity tasks of one cell, 2 threads | **violation**, see findings |
| `queue_ring` | 3 threads, 3 tasks, ring of 2, counters modulo 5 | `TaskInOnePlace`, `CountIncomingExact` (which may pass below 0), `NotStranded` across the wrap, `InsertsFinish` although nobody fetches |
| `queue_heap` | 6 tasks, 1 thread, ring of 1, array of 1 that doubles | `HeapOrdered` whenever the lock is free, `EntriesMatch`, `NullMeansAllTried` although the scan moves entries under its cursor, `ScanEnds` |
| `scheduler` | 4 tasks (one implicit, two in conflict), launches of three different sets of them in any order, 3 runners, 1 loader, stealing | `NoNegativeWait`, `WaitingIsInFlight`, `HomeMeansDone`, `ImplementsTaskGraph`; `LaunchEndsUnlessSpurned`: no wakeup is lost; a launch ends unless all runners sleep and one of them over a ready task that only another call refused to it |
| `task_fetch_steal` | 3 runners | **violation** of `SomeoneAwake`, see findings |
| `graph_build` | 3 threads or 1, both barriers, sizes 0, 1, 3, 4, 7, the three kinds of chunk; 3 tasks with 3 dependencies, array of 1 entry, built twice | `MapComplete`, also when an array is longer than `INT_MAX`; `TidsDistinct`; `WritesLand` and `UnlocksAsAdded`: no dependency is lost or misplaced by the doubling or by the parallel counting sort; `RanksRespectUnlocks`; `CallsReturn`: no circle among barriers and busy waits |
| `time_integration` | 5 cells in two trees, 2 super-cells, 3 gas particles, 4 time bins, from the beginning of the time line to its end, rebuilds between two layouts, feedback | `KicksContiguous`, `HalfKicked`: half kicks follow each other whatever interrupts a step. `CellTimesExact`, `NoneOverslept`: cells' times are exact, the engine misses no step. `WokenTreated`, `NothingLeftFlagged`: nothing is left to be done when a step ends. `LimitKept`: also a particle that is woken up and synchronised at once ends with a bin its wakers allow. `ReachesEnd` |
| `time_integration_recouple` | the same, with requests made in kick1 | **violation** of `WokenTreated`, see findings |
| `fof` | 3 threads, 6 cells, 7 particles, 5 tasks | `LinksDescend`, `OnlyFriends`, `SearchEnds`; `UnionsKeptUnlessRaced`: no group is split unless a root was linked between its find and its update |
| `fof_raced` | 2 threads | **violation** of `UnionsKept`, see findings |

`cell_lock` also checks a type invariant; those of `TaskLock`, `QueueRing`,
`QueueHeap`, `Scheduler` and `Fof` are proved.

Bounds, and why they are enough for the case in question.
* `UIntMod = 5`, `RingSize = 2`: the real ring (10240) does not divide 2^32
  either, and the wrap is where tickets and drain could come to disagree.  The
  run goes round the counters any number of times.  With fewer slots than tasks,
  inserters meet full slots; the real code relies on the same help.
* `SizeInit = 1`, `InitSize = 1`: arrays that are full at once and grow repeatedly.
* Six heap entries are the smallest number at which the last entry can be heavier
  than the parent of a removed one in the other branch; one thread is enough as
  the lock serialises the scans, and `queue_ring` has the threads.
* `WaitMax = 5` is more than a task of the instance can ever wait for (two tasks
  and the loader), so that no wait wraps.
* Three runners in `scheduler`: the fewest with which the exception that
  `LaunchEndsUnlessSpurned` makes, `AsleepOverReady`, is reached.  With two, the
  runner whose call refused the other's task is alone when it looks for the last
  time, and finds what there is.  To leave room for three, the instance launches
  three sets of tasks only (`Activations`): all of them; two without the implicit
  task between them, which leaves a wait behind; and two without their dependant.
  That the safety properties hold for any sets and graphs is what `SchedulerProofs`
  proves.
* Each runner of the instance has a queue and each queue a runner, as by default
  (`nr_queues` is the number of threads).  `Scheduler:nr_queues` may be larger; then
  the last try of `scheduler_gettask` looks into no queue that has no runner, and
  `LaunchEndsUnlessSpurned` says nothing of tasks left there.
* `IntMax = 2`, `SizeMod = 64`, sizes up to 7: chunks must be cut, and the
  difference of size and an overshot count wraps.
* `MaxTries = 2` is the code's own value (`scheduler_maxtries`).
* Three calls in `cell_lock`: one that fails because of a second that fails
  because of a third.
* Three dependencies and `InitSize = 1` make two doublings, with the call of index
  2 pending while the array has one entry, so that it has to double the array
  itself; `MaxBuilds = 2`: the second graph finds the array grown and filled.
* `time_integration`: `NumBins = 4` with a difference of two bins allowed lets a
  particle in bin 4 be woken by one in bin 1, and a step of bin 4 be interrupted at
  any of its quarters and eighths.  Particle `b` (bin 1 or 2) reaches `a` and `c`,
  in the other leaf of its super-cell or in the other tree, depending on the layout.  One tree has
  a level above its super-cell and leaves below it, the other is a single cell.
  `MaxFeedback = 1`: the one pair of cells with stars acts or does not in a step.
* `task_fetch_steal` has the smallest number of runners for which the property
  fails; with two it holds, which would say nothing of the real number.
* `task_fetch_steal` uses the constraint `ThiefIsLate`; it only narrows where the
  violation is looked for, and a behaviour found under it is a behaviour of
  `FetchSpec`.
* Deadlock checking is on everywhere except in `time_integration`, where the end of
  the time line ends the simulation (that nothing else ends it is `ReachesEnd`);
  where another run may end (all runners home, all particles linked) the
  specification has an explicit stuttering step.

## 4. Fairness

Weak fairness of each thread's own steps, no more: the operating system runs
every thread, tasks and mapper functions return, and a barrier whose threads
have all arrived opens (for POSIX barriers one step in `Threadpool`; a thread that
the ersatz barrier has signalled wakes up).  There is no strong fairness:
the sleep mutex may be handed out unfairly, compare-and-swaps may lose, and
`trylock` may be refused each time it is tried.  `Scheduler`'s spurious wakeups
are allowed and not assumed: `LaunchEndsUnlessSpurned` is about the behaviours in
which they stop, so it does not lean on them; a new launch is never forced.  Nor is
it assumed that a runner ever finds the cells it needs free of other calls for the
moment of its last try, which is why the property has its proviso.  `CellLock` also assumes that runners keep asking (they poll
their queues), which is why `SomeCallGranted` is about *some* call: an individual
call may starve.  In `QueueRing` the fairness covers calls already begun and
fetches of nothing, not further fetches or inserts.  `TimeIntegration` has weak
fairness of its next-state relation as a whole: activated tasks are run until none
is left (which is what `LaunchEndsUnlessSpurned` of `Scheduler` promises: a launch in
which finding 2 happens is not modelled there), and `main` calls `engine_step` until
the simulation is over; no task is preferred.  `TaskLock` and `TaskFetch`
have no liveness property.

## 5. What is proved

**`CellLockProofs`** (760 obligations), for every tree of cells and every finite
set of calls.  Assumptions: `PathAssumption` (a path starts at its cell, goes
through cells and repeats none), `LockerAssumption` (finitely many calls),
`NoCellAssumption`.  The inductive invariant is

    IInv == LooseType /\ FingerInv /\ LockWordOwned /\ HoldIsCount /\ NoHoldInv

`TreeExclusion` is not inductive: it says nothing of calls on their way.
`HoldIsCount` ties the counter to the set of calls that hold a cell, so a call
that reads `hold = 0` while it owns the cell's word knows that nobody holds it;
as a hold is put only on a cell whose word one owns, none will be until it lets
go (`NoHoldInv`); two granted cells of one branch would contradict this, as the
lower one holds the upper.  `LooseType` leaves `hold` an integer, that it is
never negative follows from its being a cardinality.  Theorems: `TypeCorrect`,
`LockWords`, `HoldCounts`, `Exclusion`, and `Refinement`: `Spec` implements
`TreeLock` (a grant is the last step of the climb, everything else stutters).

**`TaskLockProofs`** (675 obligations), for every tree, every set of tasks of the
types and subtypes of `task.h`, any number of threads, with and without atomics.
Assumptions: `CellAssumption` (a path of cells starts at its cell),
`JobAssumption` (types and subtypes).

    IInv == TypeOK /\ LocksTrackTask /\ NoLockTwice /\ GrantsApart

The heart is the lemma `SwitchesAgree`: case by case, `task_unlock` gives back the
sequence that `task_lock` takes.  `UndosAgree` and `GivesBackAll` are their
counterpart for the rollbacks: refused at the n-th lock, `task_lock` gives back the n - 1
before it.  With them the locks of a thread are a beginning of
that sequence while it locks, all of it while the task runs, and an end of it
while it unlocks (`LocksTrackTask`).  This alone is not enough: had a task the same
lock twice, the first release would give away what the second still needs, so
`NoLockTwice` is part of the invariant; it holds because a tree lock is refused to
anyone, its owner included, when the branch is taken.  Theorems: `TypeCorrect`,
`LocksGivenBack` (`NoLockLeaked`), `OnlyOwnReleased` (`ReleasesOwnLocks`),
`RunApart` (`RunningApart`).

**`QueueRingProofs`** (768 obligations), for any finite sets of threads and tasks,
any positive size of the ring and *any* width of the counters, also when the size of
the ring does not divide their range.  Assumptions: `TaskAssumption`,
`ThreadAssumption`, `RingAssumption`.

    IInv == /\ RingTypeOK /\ LockOwned /\ LocalsMatch
            /\ TaskInOnePlace /\ CountIncomingExact /\ TicketsMatch

`TaskInOnePlace` and `CountIncomingExact` need only the lock and the locals.
`NotStranded` needs to know where the drain will look: `TicketsMatch` says that the
tickets that are out, from `first_incoming` to `last_incoming`, can be matched one
to one with the tasks in the ring or on their way to it, each in the slot of its
ticket.  The matching cannot be the one by which tickets were drawn: an inserter
that finds its slot full may be overtaken by the next one for the same slot when
that is emptied, and the two then exchange tickets.  Theorems: `TypeCorrect`,
`NoTaskLost`, `CountRight`, `NoneStranded`.

**`QueueHeapProofs`** (2277 obligations), for any threads, tasks and weights, any
first size of the array and any factor of growth.  Assumptions: those of `QueueRing`,
`WeightAssumption` and `SizeAssumption` (weights are naturals; the array is never
empty and grows).  `HeapImplementsRing`: every step on the array is one of
`QueueRing`'s on the set of tasks in it, so that `QueueRing`'s theorems hold of the
heap as well.  The invariant on top of it is

    HeapInv == TypeOK /\ Content /\ Ordered /\ Scanned

A sift is a walk along one branch: `SiftStep` and `BubbleUpStep` say that the walk
from an index is one exchange of neighbours and then the walk from the neighbour.
An array that is a heap but for the pairs at the walker is one again when the walk
ends (`SiftDownHeap`, `BubbleUpHeap`), and no entry is lost or doubled
(`ExchangeKeeps`).  The subtle parts are the removal, after which the last entry may
have to rise or to sink, and the scan: `Scanned` says that what lies before its place
has been tried, which holds because a refused entry, its weight halved, sinks and
changes nothing before its place.  `Ordered` has an exception: between the drop of an
incoming task at the end and its rise the array is a heap but for its last entry.
Theorems: `HeapImplementsRing`, `HeapTypeCorrect`, `EntriesAreTheTasks`
(`EntriesMatch`), `AlwaysAHeap` (`HeapOrdered`), `NoTaskOverlooked`
(`NullMeansAllTried`).

**`SchedulerProofs`** (2405 obligations), for any finite sets of tasks and threads,
any queues, and any dependencies without a cycle.  Assumptions: `TaskAssumption`
(no dependency is listed twice: `scheduler_set_unlocks` looks for duplicates in
the debugging build), `AcyclicAssumption` (`scheduler_ranktasks` stops the program
on a cycle), `ConflictAssumption` (conflict is symmetric), `ThreadAssumption` (there
is a runner), `WaitAssumption` (a wait has room for the tasks one task depends on).

    IInv == /\ Shape /\ OwedFinite /\ WaitCounts /\ HeldOnce /\ HeldWhenReady
            /\ SkipWhenDone /\ WaitingIsInFlight /\ HomeMeansDone

`NoNegativeWait` alone says nothing of who is going to decrement.  `WaitCounts`
accounts for every unit of a wait: the task's own turn to be loaded, the decrements
that threads have on their lists, and the active tasks before it that are not done;
finishing a task turns a unit of the last kind into one of the second.  A task
whose wait is 0 is done or in exactly one place (`HeldOnce`, `HeldWhenReady`), which
makes `waiting` a count of what is in flight; at `waiting = 0`, if a task were not
done, a first one in the order of the dependencies would have a wait of 0 and be in
flight after all, which is where the absence of cycles is used.  Theorems:
`TypeCorrect`, `WaitNeverNegative`, `WaitingRight`, `NobodyLeavesEarly`, and
`Refines`: `Spec` implements `TaskGraph`, that is, each active task runs once, after
all it depends on, never beside a task it conflicts with, and a launch returns only
when all is done.

**`GraphBuildProofs`** (5169 obligations), for any number of threads, size of array
and chunk and sequence of dependencies, with both kinds of barrier.  Assumptions:
`ThreadAssumption`, `SizeAssumption` (a `size_t` has room for the size of the array
and an `int` per thread on top, which is how far the count can overshoot),
`GraphAssumption` (types of the parameters, and that the mark of an unwritten entry
is no dependency).  The invariant is `PoolInv /\ BufferInv /\ BuildInv /\ SortInv`:
* `PoolInv`: the count of an ersatz barrier is the number of its sleepers
  (`Barriers`), so that all threads are on one side of the barriers or all on the
  other (`Together`), and the request changes on one side only (`Request`); the
  count of elements does not wrap (`CountBounded`), chunks in hand are disjoint
  (`ChunksApart`), and what lies below the count and in no hand was mapped once
  (`CallsSoFar`).  A pool of one thread is a case of its own (`Alone`).
* `BufferInv`: an index drawn has one owner until its write is counted
  (`IndexOwned`, `WritesCounted`).  The one thread that doubles the array waits for
  `size_unlocks` writes; by the count no write to the old array is then pending
  (`NoneBelow`), and whoever writes has read the pointer after it found room
  (`RoomChecked`, `PointerCurrent`).
* `BuildInv`: each element of the map draws one index, so indices number the
  dependencies (`AddsCounted`).
* `SortInv` follows the dependencies themselves, counted with their multiplicity, as
  the order in the array is up to the threads.  While they are added, those in the
  array and those with a call that is going to write them are the ones added so far
  (`EntriesAreAdds`), also while the array is copied (`Arrives`).  In the two passes
  of the counting sort, the count of a task is the number of its entries treated so
  far (`CountsSoFar`); a task's block begins after the entries of all smaller tasks,
  which is what the prefix sums compute, and is filled from there to its offset with
  the tasks its treated entries unlock (`SortsSoFar`).  Blocks do not overlap, so that
  a write into one disturbs no other.

For the ranks, `WaitsAre` says that before each round a task waits for as many
dependencies as there are on tasks not yet ranked; a task that is ranked in a round
therefore depends on tasks of earlier rounds only.

Theorems: `EveryElementOnce` (`MapComplete`), `NumbersDiffer` (`TidsDistinct`),
`NoWriteLost` (`WritesLand`), `NoUnlockLost` (`UnlocksAsAdded`), `RanksOrdered`
(`RanksRespectUnlocks`).

**`TimeIntegrationProofs`** (4563 obligations), for every tree of cells, any particles,
neighbours and placements, any number of time bins, and any order of tasks that the
dependencies allow.  Assumptions: `AncestorAssumption` (the tree is finite, and the
cells above a cell are a chain that ends at a top-level cell), `SuperAssumption` (no
super-cell is below another, every leaf is below one; tasks are at or below
super-cells), `BinAssumption` (there is a bin), `PartAssumption` (particles are in
leaves, no leaf is empty, a particle asks for some bin); and, as a hypothesis of the
theorems, `~Recouples`, as they are false for the builds of finding 4: a request that
outlives its step makes the limiter leave a particle to a synchronisation that never
runs.  There are two invariants.

`FlagInv` follows a request from where it is made to the
task that treats it: the limiter loops and feedback find their cells flagged
(`LoopsFlagged`, `StarsFlagged`), so a woken-up or requested particle is in a
flagged cell (`WokenFlagged`, `RequestsFlagged`); the cells between that cell and its
super-cell have the sub-flag, and the super-cell's task is still to run
(`FlagsClimb`), so that its recursion finds the cell (`TreatsFlagged`).  The awkward
case is a particle both woken up and to be synchronised, which the limiter leaves
to the synchronisation: `WokenFlagged` carries that it stays inactive and requested
until then.  Theorems: `EveryWakeupTreated` (`WokenTreated`) and `NoFlagSurvives`
(`NothingLeftFlagged`).

`StepInv` adds what holds of the times at every moment of a step:

    StepInv == Typed /\ TodoInv /\ BinInv /\ WakeInv /\ KickInv /\ CellInv

* `TodoInv`: whatever task may change bins has kick1 and the collection after it.
* `BinInv`: a particle without a bin is before its first step; between two steps the
  engine's next time is ahead of it and past no particle's end.
* `WakeInv`: a particle keeps to the limit of its wakers, or is woken up to a bin
  below its own that does; nobody is woken up before its own timestep has run.
* `KickInv` says up to when a particle has been kicked, as a function of the tasks
  that are still to run: to the middle of the step that ends now before kick2, to now
  between kick2 and kick1, to the middle of its new step otherwise.  The limiter and
  the synchronisation, which undo or complete a half kick in the middle of a step,
  have to land on one of the three.
* `CellInv`: until its super-cell's timestep has run a cell knows the steps that end
  now, from then on those that begin now or go on; the cells above the super-cells
  know them once the collection has run.

Each task's lemma is about one of these parts.  They rest on three groups of lemmas:
the arithmetic of the time line (the steps of a bin begin at the multiples of a power of
two, and those of a smaller bin divide them, so a shortened step ends where the code
puts it); the tree (a split cell has the particles of its progeny, and the join of
joined spans is the join of all); and the recursions over the tree, each of which has
one solution.  Theorems: `KicksMeet` (`KicksContiguous`), `AllHalfKicked`
(`HalfKicked`), `CellsKnowTheirTimes` (`CellTimesExact`), `NoStepOverslept`
(`NoneOverslept`), `LimitsHold` (`LimitKept`).

**`FofProofs`** (2456 obligations), for any particles, tasks and threads.
Assumptions: `ParticleAssumption` (indices are naturals), `RowsAssumption` (tasks
compare particles).  `NoCycles`: a parent never has a larger index.  Its
invariant adds to `LinksDescend` that a find is at or below its argument, that a
path that is compressed has a link, and that the two roots of an update differ.
It holds whatever threads overwrite, and it is why `fof_find` ends.
`NoStrangers`: groups are never too large.  It is proved for each set `S` that no
pair of close particles straddles: what a thread has in hand (its roots, the
value its swap expects) lies on the same side of `S` as the particle it came
from.  `GroupsComplete`: groups are not too *small* either, unless a root was linked
between its find and its update (`UnionsKeptUnlessRaced`; without that proviso it is
false, see findings).  Links descend, so `Root` is well defined (`RootExists`), and its
invariant `Groups` says that what a thread has in hand has the root of the particle it
came from (`Tied`), that the swap of `atomic_update_root` expects a root to be its own
parent or is bound to meet one that was raced for (`Expects`), and that the pairs of close particles behind each thread's place in
its loops, and those of finished tasks, have one root each (`Joined`).  A step that
is no race either leaves every root as it is or merges two groups (`Merges`), and
merging never separates a pair that was joined.

**Only model-checked.**
* Liveness (fairness and ENABLED are out of the prover's reach): `SomeCallGranted`,
  `InsertsFinish`, `ScanEnds`, `LaunchEndsUnlessSpurned`, `CallsReturn`, `SearchEnds`, `ReachesEnd`.
* What the four runs that expect a violation show: a counterexample is one instance.

Every safety invariant of a passing run, and both refinements that a run checks, is
stated by a theorem.  Where an argument is an induction (over the length of a sift,
the links of a forest, the tasks of a prefix sum, the rounds of a ranking, the
levels of the tree) the proofs take a least counterexample (`Least`, and
`LowestCell` for trees) and derive a contradiction, as the library's induction
theorems take an operator that the provers cannot instantiate.

## 6. Findings

1. **A union may be lost** (`fof_raced`, `fof.c:832`).  `atomic_update_root` reads
   the value it wants its compare-and-swap to find, after the root was found.  A
   root that another thread has linked in between is overwritten, and that link is
   gone.  If the swap does fail, `fof_union` has already set `*root_i` to the
   other root (`fof.c:876`), starts over with two equal roots and skips the union.
   Particles closer than the linking length end up in different groups.  `fof`
   shows that this is the only way: without such a race the groups are complete.
2. **All runners may fall asleep over ready tasks** (`task_fetch_steal`,
   `scheduler.c:2922`).  Three runners that steal refuse each other locks for a
   moment in such an order that all go to sleep; nobody runs a task that could wake
   them, and `scheduler_check_deadlock` is called only by runners that are awake,
   although the documentation says that the detector aborts such a run.
   `scheduler` shows that, apart from such a refusal, every launch ends.
3. **External gravity locks the wrong data** (`task_lock_gravity`, `task.c:865`).
   A self task of external gravity falls into the last case of `task_lock` and
   locks the gas, while it adds to the accelerations of the gparts, as self- and
   pair-gravity tasks do at the same time under the gpart lock.
4. **A request for synchronisation comes too late** (`time_integration_recouple`,
   `runner_time_integration.c:156`).  In SIMBA and KIARA builds `runner_do_kick1` calls
   `timestep_sync_part` through `feedback_recouple_part`, after the synchronisation
   task of the step and without flagging the cell.  The flag stays on the particle;
   when a neighbour wakes it up in a later step, the limiter leaves it to a
   synchronisation that was not activated, and it ends the step woken up and with
   too long a step, which `space_check_limiter` ("Particle still woken up!") excludes.
   `time_integration` shows that without such requests nothing is left over.

## 7. What is not modelled

The physics and the numerical schemes (floating point), I/O (snapshots, logs,
restart files' contents, lightcones), vendored code (the command-line parser),
parameter parsing, plots and diagnostics: out of TLC's reach or without state worth
checking.  MPI: `scheduler_enqueue`'s requests, `task_lock`'s `MPI_Test`, proxies
and redistribution need a model of MPI's matching first.  Of the modelled parts:
`queue_clean`, the choice, splitting and weighting of tasks, returns of
`pthread_cond_wait` without a signal in the ersatz barrier (which would open it
early: it does not wait in a loop), the deadlock detector's timer (its calls are
where a runner is awake), group properties, attaching and seeding in FOF; of the
time integration everything but gas (gravity, stars, sinks, black holes and
radiation keep times of their own), inhibited particles, drifts and outputs, and
the error exits, which appear as properties.  `PROJECT.json` lists each part
with its reason.

## 8. Plan

In the order of what matters most to the correctness of a step:

1. *done* — locks (`TreeLock`, `CellLock`, `TaskLock`), queues (`QueueRing`,
   `QueueHeap`), scheduler (`TaskGraph`, `Scheduler`, `TaskFetch`), union-find
   (`Fof`); threadpool, both barriers,
   dependency buffer, counting sort and ranking composed (`GraphBuild`); time bins,
   limiter, synchronisation, activation and the end of a step (`TimeIntegration`).
2. *time integration*, continued: the times of gravity and stars beside those of
   gas, which cells combine; inhibited particles; drifts.
3. *state with its own protocol*: batches of unique identifiers, recycling of
   cells, rotation of restart files, the order of outputs, the hash map against a
   map.
4. *friends-of-friends*, continued: group sizes and attaching.
5. *MPI*: an external model of matching; send and recv tasks, proxies, strays.

Theorems.  *Done*: all safety properties of the runs, and three refinements
(`CellLock` of `TreeLock`, `QueueHeap` of `QueueRing`, `Scheduler` of `TaskGraph`).
*Next*: with each part of the model above its own invariant.  Two things would
strengthen what there is: that `GraphBuild` establishes the assumptions `Scheduler`
makes of its dependencies (no circle, from `RanksRespectUnlocks`) as a theorem about
the two together, and a proof that `TaskLock`'s use of `TreeLock` survives replacing
it by `CellLock`.
