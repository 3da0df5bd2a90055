----------------------------- MODULE Scheduler -----------------------------
(***************************************************************************)
(* The task scheduler: engine_launch (engine.c) with scheduler_start,      *)
(* scheduler_enqueue, scheduler_gettask and scheduler_done (scheduler.c),  *)
(* driven by the loop of runner_main.                                      *)
(*                                                                         *)
(* Each step of the simulation activates some tasks.  A task's wait counts *)
(* the active tasks it depends on, plus one that the engine takes off      *)
(* while it loads the tasks; whoever brings a wait to 0 enqueues the task. *)
(* The runners are let loose before the tasks are loaded, so all of this   *)
(* runs concurrently with tasks that finish.  s->waiting counts the tasks  *)
(* in flight; a runner that finds no task sleeps on sleep_cond until one   *)
(* finishes, and goes home when waiting is 0.                              *)
(*                                                                         *)
(* A queue is the set of tasks in it: QueueRing and QueueHeap model it in  *)
(* detail.  task_lock is one step: it succeeds only when no conflicting    *)
(* task runs, but may fail for less, as a call on another task may have a  *)
(* cell for a moment (TaskFetch has the calls in full).  The threadpool    *)
(* that calls the mapper functions is modelled in a module of its own.     *)
(***************************************************************************)
EXTENDS Integers, Sequences, FiniteSets

CONSTANTS
  Task,
  Implicit,    \* t->implicit
  Unlocks,     \* Unlocks[t] is the sequence t->unlock_tasks
  Conflicts,   \* the pairs of tasks that lock the same data
  Activations, \* the sets of tasks the engine may activate for one launch
  Runner,
  Loader,      \* the threads that run scheduler_enqueue_mapper
  Queue,
  QueueOf,     \* QueueOf[r]: the queue of runner r, r->qid
  Steal,       \* scheduler_flag_steal
  WaitMax,     \* t->wait is an int in -WaitMax .. WaitMax - 1
  NoTask, NoThread

Thread == Runner \cup Loader

UnlockSet(t) == {Unlocks[t][k] : k \in DOMAIN Unlocks[t]}

ASSUME TaskAssumption ==
  /\ IsFiniteSet(Task)
  /\ NoTask \notin Task
  /\ Implicit \subseteq Task
  /\ Activations \subseteq SUBSET Task
  /\ Unlocks \in [Task -> Seq(Task)]
  /\ \A t \in Task : \A j, k \in DOMAIN Unlocks[t] :
       Unlocks[t][j] = Unlocks[t][k] => j = k

(* No task depends on itself, directly or not: scheduler_ranktasks stops   *)
(* with "Unsatisfiable task dependencies detected." otherwise.             *)
ASSUME AcyclicAssumption ==
  \A S \in SUBSET Task :
    S # {} => \E t \in S : \A u \in S : t \notin UnlockSet(u)

ASSUME ConflictAssumption ==
  \A t, u \in Task : <<t, u>> \in Conflicts => <<u, t>> \in Conflicts

ASSUME ThreadAssumption ==
  /\ NoThread \notin Thread
  /\ IsFiniteSet(Thread)
  /\ Runner # {}
  /\ Runner \cap Loader = {}
  /\ QueueOf \in [Runner -> Queue]
  /\ Steal \in BOOLEAN

(* A wait counter is wide enough for the tasks one task can depend on. *)
ASSUME WaitAssumption ==
  /\ WaitMax \in Nat
  /\ \A t \in Task : Cardinality({u \in Task : t \in UnlockSet(u)}) + 1 < WaitMax

VARIABLES
  skip,           \* t->skip
  wait,           \* t->wait
  tid_active,     \* the tasks in s->tid_active still to be loaded
  waiting,        \* s->waiting
  queue,          \* queue[q]: the tasks in s->queues[q]
  sleep_mutex,    \* the thread that has s->sleep_mutex, or NoThread
  pc,             \* the runners and the loaders
  todo,           \* the decrements a thread still has to make, innermost first
  task,           \* the task a runner works on
  next,           \* the task a thread is about to insert into a queue
  main,           \* the thread in engine_launch
  active,         \* the tasks activated for this launch
  done,           \* the tasks of this launch that are done
  spurned         \* the runners that sleep, or are about to, because a task
                  \* that no running one conflicts with was refused to them

vars == <<skip, wait, tid_active, waiting, queue, sleep_mutex, pc, todo, task,
          next, main, active, done, spurned>>

WaitRange == (-WaitMax)..(WaitMax - 1)

(* Two's complement. *)
Wrap(n) == ((n + WaitMax) % (2 * WaitMax)) - WaitMax

(***************************************************************************)
(* Who makes a decrement: scheduler_enqueue_mapper ("start"), the loop of  *)
(* scheduler_done ("done") or that of an implicit task ("implicit").       *)
(***************************************************************************)
Decrement == [of : Task, by : {"start", "done", "implicit"}]

DecrementsOf(t, by) ==
  [k \in 1..Len(Unlocks[t]) |-> [of |-> Unlocks[t][k], by |-> by]]

TypeOK ==
  /\ skip \in [Task -> BOOLEAN]
  /\ wait \in [Task -> WaitRange]
  /\ tid_active \subseteq Task
  /\ waiting \in Nat
  /\ queue \in [Queue -> SUBSET Task]
  /\ sleep_mutex \in Thread \cup {NoThread}
  /\ pc \in [Thread -> {"home", "look", "try", "final", "nap", "sleep", "woken",
                        "run", "decs", "insert", "mark"}]
  /\ todo \in [Thread -> Seq(Decrement)]
  /\ task \in [Thread -> Task \cup {NoTask}]
  /\ next \in [Thread -> Task \cup {NoTask}]
  /\ main \in {"idle", "rewait", "load", "flush", "unguard", "join"}
  /\ active \subseteq Task
  /\ done \subseteq Task
  /\ spurned \subseteq Runner

Init ==
  /\ skip = [t \in Task |-> TRUE]
  /\ wait = [t \in Task |-> 0]
  /\ tid_active = {}
  /\ waiting = 0
  /\ queue = [q \in Queue |-> {}]
  /\ sleep_mutex = NoThread
  /\ pc = [p \in Thread |-> "home"]
  /\ todo = [p \in Thread |-> <<>>]
  /\ task = [p \in Thread |-> NoTask]
  /\ next = [p \in Thread |-> NoTask]
  /\ main = "idle"
  /\ active = {}
  /\ done = {}
  /\ spurned = {}

Goto(p, label) == pc' = [pc EXCEPT ![p] = label]

(* pthread_cond_broadcast(&s->sleep_cond) by p, which goes on at label. *)
BroadcastGoto(p, label) ==
  pc' = [q \in Thread |-> IF q = p THEN label
                          ELSE IF pc[q] = "sleep" THEN "woken" ELSE pc[q]]

Broadcast == pc' = [q \in Thread |-> IF pc[q] = "sleep" THEN "woken" ELSE pc[q]]

Running == {task[p] : p \in {r \in Runner : pc[r] = "run"}}

(* No running task conflicts with t. *)
Lockable(t) == \A u \in Running : <<t, u>> \notin Conflicts

-----------------------------------------------------------------------------
(* scheduler_activate of the tasks in A. *)
Activate(A) ==
  /\ skip' = [t \in Task |-> IF t \in A THEN FALSE ELSE skip[t]]
  /\ wait' = [t \in Task |-> IF t \in A /\ skip[t] THEN 0 ELSE wait[t]]
  /\ tid_active' = A
  /\ active' = A

(* Mutant: no safeguard while the tasks are loaded. *)
LaunchUnguarded(A) ==
  /\ main = "idle"
  /\ \A r \in Runner : pc[r] = "home"
  /\ Activate(A)
  /\ pc' = [p \in Thread |-> IF p \in Runner THEN "look" ELSE pc[p]]
  /\ done' = {}
  /\ main' = "rewait"
  /\ UNCHANGED <<spurned, waiting, queue, sleep_mutex, todo, task, next>>

(***************************************************************************)
(* engine_launch.  The tasks were activated with scheduler_activate while  *)
(* the runners stood at the barrier.                                       *)
(***************************************************************************)
Launch(A) ==
  /\ main = "idle"
  /\ \A r \in Runner : pc[r] = "home"
  /\ Activate(A)
  /\ waiting' = waiting + 1
  /\ pc' = [p \in Thread |-> IF p \in Runner THEN "look" ELSE pc[p]]
  /\ done' = {}
  /\ main' = "rewait"
  /\ UNCHANGED <<spurned, queue, sleep_mutex, todo, task, next>>

(* Mutant: only the task's own increment, none for its dependants. *)
RewaitOwnOnly ==
  /\ main = "rewait"
  /\ wait' = [t \in Task |-> Wrap(wait[t] + (IF t \in tid_active THEN 1 ELSE 0))]
  /\ main' = "load"
  /\ UNCHANGED <<spurned, skip, tid_active, waiting, queue, sleep_mutex, pc, todo, task,
                 next, active, done>>

(* Mutant: only the increments for the dependants. *)
RewaitNotOwn ==
  /\ main = "rewait"
  /\ wait' = [t \in Task |->
       Wrap(wait[t] + Cardinality({u \in tid_active : t \in UnlockSet(u)}))]
  /\ main' = "load"
  /\ UNCHANGED <<spurned, skip, tid_active, waiting, queue, sleep_mutex, pc, todo, task,
                 next, active, done>>

(* scheduler_rewait_mapper over all active tasks.  No thread decrements a  *)
(* wait before it has returned, so the increments are one step.            *)
Rewait ==
  /\ main = "rewait"
  /\ wait' = [t \in Task |->
       Wrap(wait[t] + (IF t \in tid_active THEN 1 ELSE 0)
                    + Cardinality({u \in tid_active : t \in UnlockSet(u)}))]
  /\ main' = "load"
  /\ UNCHANGED <<spurned, skip, tid_active, waiting, queue, sleep_mutex, pc, todo, task,
                 next, active, done>>

(* scheduler_enqueue_mapper takes the next active task. *)
Load(l, t) ==
  /\ main = "load"
  /\ pc[l] = "home"
  /\ t \in tid_active
  /\ tid_active' = tid_active \ {t}
  /\ todo' = [todo EXCEPT ![l] = <<[of |-> t, by |-> "start"]>>]
  /\ Goto(l, "decs")
  /\ UNCHANGED <<spurned, skip, wait, waiting, queue, sleep_mutex, task, next, main,
                 active, done>>

(* The end of the mapping, whose last chunk has broadcast. *)
Loaded ==
  /\ main = "load"
  /\ tid_active = {}
  /\ \A l \in Loader : pc[l] = "home"
  /\ Broadcast
  /\ main' = "flush"
  /\ UNCHANGED <<spurned, skip, wait, tid_active, waiting, queue, sleep_mutex, todo,
                 task, next, active, done>>

(* Fire off one last sleep_cond in a safe way. *)
Flush ==
  /\ main = "flush"
  /\ sleep_mutex = NoThread
  /\ Broadcast
  /\ main' = "unguard"
  /\ UNCHANGED <<spurned, skip, wait, tid_active, waiting, queue, sleep_mutex, todo,
                 task, next, active, done>>

(* Remove the safeguard. *)
Unguard ==
  /\ main = "unguard"
  /\ sleep_mutex = NoThread
  /\ waiting' = waiting - 1
  /\ Broadcast
  /\ main' = "join"
  /\ UNCHANGED <<spurned, skip, wait, tid_active, queue, sleep_mutex, todo, task, next,
                 active, done>>

(* Wait for the runners to come home. *)
Join ==
  /\ main = "join"
  /\ \A r \in Runner : pc[r] = "home"
  /\ main' = "idle"
  /\ UNCHANGED <<spurned, skip, wait, tid_active, waiting, queue, sleep_mutex, pc, todo,
                 task, next, active, done>>

-----------------------------------------------------------------------------
(***************************************************************************)
(* Decrementing waits, and scheduler_enqueue of what becomes ready.  An    *)
(* implicit task is done at once, and its own dependants come first; any   *)
(* other task is counted in s->waiting and then inserted into a queue.     *)
(***************************************************************************)
Dec(p) ==
  /\ pc[p] = "decs"
  /\ todo[p] # <<>>
  /\ LET d == Head(todo[p])
         t == d.of
         rest == Tail(todo[p])
     IN \/ /\ d.by = "done" /\ skip[t]
           /\ todo' = [todo EXCEPT ![p] = rest]
           /\ UNCHANGED <<skip, wait, waiting, pc, next, done>>
        \/ /\ ~ (d.by = "done" /\ skip[t])
           /\ wait' = [wait EXCEPT ![t] = Wrap(@ - 1)]
           /\ \/ /\ wait[t] # 1 \/ skip[t]
                 /\ todo' = [todo EXCEPT ![p] = rest]
                 /\ UNCHANGED <<skip, waiting, pc, next, done>>
              \/ /\ wait[t] = 1 /\ ~ skip[t] /\ t \in Implicit
                 /\ skip' = [skip EXCEPT ![t] = TRUE]
                 /\ done' = done \cup {t}
                 /\ todo' = [todo EXCEPT ![p] =
                               DecrementsOf(t, "implicit") \o rest]
                 /\ UNCHANGED <<waiting, pc, next>>
              \/ /\ wait[t] = 1 /\ ~ skip[t] /\ t \notin Implicit
                 /\ waiting' = waiting + 1
                 /\ next' = [next EXCEPT ![p] = t]
                 /\ todo' = [todo EXCEPT ![p] = rest]
                 /\ Goto(p, "insert")
                 /\ UNCHANGED <<skip, done>>
  /\ UNCHANGED <<spurned, tid_active, queue, sleep_mutex, task, main, active>>

(* queue_insert into the queue of the cell's owner, or a random one. *)
Insert(p, q) ==
  /\ pc[p] = "insert"
  /\ queue' = [queue EXCEPT ![q] = @ \cup {next[p]}]
  /\ next' = [next EXCEPT ![p] = NoTask]
  /\ Goto(p, "decs")
  /\ UNCHANGED <<spurned, skip, wait, tid_active, waiting, sleep_mutex, todo, task, main,
                 active, done>>

(* The mapper is done with this task, and with its chunk or not: it ends a *)
(* chunk with a broadcast without the mutex.                               *)
LoaderDone(l) ==
  /\ l \in Loader
  /\ pc[l] = "decs"
  /\ todo[l] = <<>>
  /\ Goto(l, "home") \/ BroadcastGoto(l, "home")
  /\ UNCHANGED <<spurned, skip, wait, tid_active, waiting, queue, sleep_mutex, todo,
                 task, next, main, active, done>>

-----------------------------------------------------------------------------
(***************************************************************************)
(* scheduler_gettask                                                       *)
(***************************************************************************)
TakeFrom(r, q, t) ==
  /\ t \in queue[q]
  /\ Lockable(t)
  /\ queue' = [queue EXCEPT ![q] = @ \ {t}]
  /\ task' = [task EXCEPT ![r] = t]
  /\ Goto(r, "run")

(* while (s->waiting > 0 ...): a runner without a task goes to the barrier *)
(* when nothing is waiting.                                                *)
Look(r) ==
  /\ pc[r] = "look"
  /\ Goto(r, IF waiting > 0 THEN "try" ELSE "home")
  /\ UNCHANGED <<spurned, skip, wait, tid_active, waiting, queue, sleep_mutex, todo,
                 task, next, main, active, done>>

(* One of the tries on the runner's own queue, or on another one. *)
Get(r, q, t) ==
  /\ pc[r] = "try"
  /\ q = QueueOf[r] \/ Steal
  /\ TakeFrom(r, q, t)
  /\ UNCHANGED <<spurned, skip, wait, tid_active, waiting, sleep_mutex, todo, next, main,
                 active, done>>

(* The tries fail: nothing there, nothing lockable at the moment, or a     *)
(* queue's lock was taken or its counters not yet up to date.              *)
GetNothing(r) ==
  /\ pc[r] = "try"
  /\ Goto(r, "final")
  /\ UNCHANGED <<spurned, skip, wait, tid_active, waiting, queue, sleep_mutex, todo,
                 task, next, main, active, done>>

(* Another runner tries the tasks of a queue other than r's, which r has    *)
(* locked.  Each of its calls of task_lock has some cells for a moment,     *)
(* also when it is refused itself, and may refuse r a task by that.  Its    *)
(* task need not conflict with r's: two siblings that climb meet at the     *)
(* parent's word (CellLock).                                                *)
Contended(r) ==
  \E p \in Runner \ {r} :
    /\ pc[p] = "try"
    /\ \E q \in Queue \ {QueueOf[r]} : (q = QueueOf[p] \/ Steal) /\ queue[q] # {}

(* Lock the sleep_mutex and try the own queue once more, blocking.  A task  *)
(* is refused because of a running one, or because of another call.         *)
FinalTry(r) ==
  /\ pc[r] = "final"
  /\ sleep_mutex = NoThread
  /\ LET ready == {t \in queue[QueueOf[r]] : Lockable(t)}
     IN \/ /\ \E t \in Task : TakeFrom(r, QueueOf[r], t)
           /\ UNCHANGED <<sleep_mutex, spurned>>
        \/ /\ ready = {} \/ Contended(r)
           /\ spurned' = IF ready = {} THEN spurned ELSE spurned \cup {r}
           /\ sleep_mutex' = r
           /\ Goto(r, "nap")
           /\ UNCHANGED <<queue, task>>
  /\ UNCHANGED <<skip, wait, tid_active, waiting, todo, next, main, active,
                 done>>

(* Sleep, giving up the mutex, or leave. *)
Nap(r) ==
  /\ pc[r] = "nap"
  /\ sleep_mutex' = NoThread
  /\ Goto(r, IF waiting > 0 THEN "sleep" ELSE "look")
  /\ spurned' = IF waiting > 0 THEN spurned ELSE spurned \ {r}
  /\ UNCHANGED <<skip, wait, tid_active, waiting, queue, todo, task, next, main,
                 active, done>>

(* pthread_cond_wait may return on its own. *)
SpuriousWakeup(r) ==
  /\ pc[r] = "sleep"
  /\ Goto(r, "woken")
  /\ UNCHANGED <<spurned, skip, wait, tid_active, waiting, queue, sleep_mutex, todo,
                 task, next, main, active, done>>

(* Get the mutex back, and let it go. *)
Woken(r) ==
  /\ pc[r] = "woken"
  /\ sleep_mutex = NoThread
  /\ Goto(r, "look")
  /\ spurned' = spurned \ {r}
  /\ UNCHANGED <<skip, wait, tid_active, waiting, queue, sleep_mutex, todo,
                 task, next, main, active, done>>

-----------------------------------------------------------------------------
(***************************************************************************)
(* scheduler_done                                                          *)
(***************************************************************************)
Finish(r) ==
  /\ pc[r] = "run"
  /\ done' = done \cup {task[r]}
  /\ todo' = [todo EXCEPT ![r] = DecrementsOf(task[r], "done")]
  /\ Goto(r, "decs")
  /\ UNCHANGED <<spurned, skip, wait, tid_active, waiting, queue, sleep_mutex, task,
                 next, main, active>>

(* Mutant: waiting is taken down before the dependants have been queued. *)
SignalEarly(r) ==
  /\ r \in Runner
  /\ pc[r] = "run"
  /\ sleep_mutex = NoThread
  /\ waiting' = waiting - 1
  /\ BroadcastGoto(r, "decs")
  /\ done' = done \cup {task[r]}
  /\ todo' = [todo EXCEPT ![r] = DecrementsOf(task[r], "done")]
  /\ UNCHANGED <<spurned, skip, wait, tid_active, queue, sleep_mutex, task, next, main,
                 active>>

(* Mutant: the broadcast is made without the mutex. *)
SignalOpen(r) ==
  /\ r \in Runner
  /\ pc[r] = "decs"
  /\ todo[r] = <<>>
  /\ waiting' = waiting - 1
  /\ BroadcastGoto(r, "mark")
  /\ UNCHANGED <<spurned, skip, wait, tid_active, queue, sleep_mutex, todo, task, next,
                 main, active, done>>

(* Signal any sleeping runners. *)
Signal(r) ==
  /\ r \in Runner
  /\ pc[r] = "decs"
  /\ todo[r] = <<>>
  /\ sleep_mutex = NoThread
  /\ waiting' = waiting - 1
  /\ BroadcastGoto(r, "mark")
  /\ UNCHANGED <<spurned, skip, wait, tid_active, queue, sleep_mutex, todo, task, next,
                 main, active, done>>

(* Mark the task as skip. *)
Mark(r) ==
  /\ pc[r] = "mark"
  /\ skip' = [skip EXCEPT ![task[r]] = TRUE]
  /\ task' = [task EXCEPT ![r] = NoTask]
  /\ Goto(r, "look")
  /\ UNCHANGED <<spurned, wait, tid_active, waiting, queue, sleep_mutex, todo, next,
                 main, active, done>>

-----------------------------------------------------------------------------
MainNext == Rewait \/ Loaded \/ Flush \/ Unguard \/ Join

LoadNext(l) ==
  \/ \E t \in Task : Load(l, t)
  \/ Dec(l) \/ LoaderDone(l) \/ \E q \in Queue : Insert(l, q)

RunnerNext(r) ==
  \/ Look(r) \/ GetNothing(r) \/ FinalTry(r) \/ Nap(r) \/ Woken(r)
  \/ \E q \in Queue, t \in Task : Get(r, q, t)
  \/ Finish(r) \/ Dec(r) \/ Signal(r) \/ Mark(r)
  \/ \E q \in Queue : Insert(r, q)

Next ==
  \/ \E A \in Activations : Launch(A)
  \/ MainNext
  \/ \E l \in Loader : LoadNext(l)
  \/ \E r \in Runner : RunnerNext(r) \/ SpuriousWakeup(r)

Spec == Init /\ [][Next]_vars

(***************************************************************************)
(* Every thread that can go on does, and tasks end.  Nothing makes the     *)
(* engine launch again, no wakeup is spurious on demand, and the mutex may *)
(* be handed out unfairly.                                                 *)
(***************************************************************************)
Fairness ==
  /\ WF_vars(MainNext)
  /\ \A l \in Loader : WF_vars(LoadNext(l))
  /\ \A r \in Runner : WF_vars(RunnerNext(r))

FairSpec == Spec /\ Fairness

-----------------------------------------------------------------------------
(***************************************************************************)
(* The error "Negative wait!" of scheduler_done is never raised: a task    *)
(* that is not skipped still counts the one that decrements it.            *)
(***************************************************************************)
NoNegativeWait ==
  \A p \in Thread :
    pc[p] = "decs" /\ todo[p] # <<>> =>
      LET d == Head(todo[p])
      IN d.by = "done" /\ ~ skip[d.of] => wait[d.of] >= 1

(***************************************************************************)
(* s->waiting counts the tasks that are enqueued, running or not yet       *)
(* signalled, plus the engine's safeguard: it never underestimates what    *)
(* there is to do, and it is 0 after a launch.                             *)
(***************************************************************************)
InFlight ==
  Cardinality(UNION {queue[q] : q \in Queue})
    + Cardinality({p \in Thread : next[p] # NoTask})
    + Cardinality({r \in Runner : pc[r] \in {"run", "decs", "insert"}
                                    /\ task[r] # NoTask})

WaitingIsInFlight ==
  waiting = InFlight + (IF main \in {"idle", "join"} THEN 0 ELSE 1)

(***************************************************************************)
(* A runner that went home in this launch left nothing behind: all the     *)
(* active tasks were loaded and done, down to those that were not even     *)
(* queued when other runners went to sleep.                                *)
(***************************************************************************)
HomeMeansDone ==
  (main # "idle" /\ \E r \in Runner : pc[r] = "home") =>
    tid_active = {} /\ done = active

(***************************************************************************)
(* A launch ends, and with it every sleep, even if spurious wakeups stop   *)
(* coming to the rescue: no wakeup is lost between the tasks that finish,  *)
(* the loading of the tasks and the runners that decide to sleep.  There   *)
(* is one way not to end: all runners sleep, and one of them over a task   *)
(* of its queue that nothing runs against, and that its last try was       *)
(* refused only because of another call of task_lock.                      *)
(***************************************************************************)
AsleepOverReady ==
  /\ main = "join"
  /\ \A r \in Runner : pc[r] = "sleep"
  /\ \E r \in spurned : \E t \in queue[QueueOf[r]] : Lockable(t)

Undisturbed == <>[][\A r \in Runner : ~ SpuriousWakeup(r)]_vars

LaunchEndsUnlessSpurned ==
  Undisturbed => ((main # "idle") ~> (main = "idle" \/ AsleepOverReady))

(***************************************************************************)
(* The scheduler implements the abstract task graph: each active task runs *)
(* once, after the active tasks it depends on, and the launch returns when *)
(* all are done.                                                           *)
(***************************************************************************)
TG == INSTANCE TaskGraph WITH
        Unlocks <- [t \in Task |-> UnlockSet(t)],
        running <- Running,
        launched <- (main # "idle")

ImplementsTaskGraph == TG!Spec
=============================================================================
