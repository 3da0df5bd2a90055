----------------------------- MODULE TaskFetch -----------------------------
(***************************************************************************)
(* How runners fetch tasks, with the locks in full: scheduler_gettask, the *)
(* scan of queue_gettask, and task_lock on a pair of cells, which makes    *)
(* two calls of cell_locktree.  Scheduler takes task_lock for one step,    *)
(* which any other call may cause to fail.  Here a call fails because      *)
(* another one, which may be going to fail itself, holds a cell, or the    *)
(* word of a common ancestor, for a moment; the question is whether all    *)
(* runners can really go to sleep over such failures.                      *)
(*                                                                         *)
(* The state is that of a launch whose tasks are loaded: all in their      *)
(* queues, no dependencies left, the engine waiting for the runners.       *)
(***************************************************************************)
EXTENDS CellLock

CONSTANTS
  Runner,
  Task,
  Ci, Cj,        \* the two cells of each task
  Queue,
  QueueOf,       \* r->qid
  FirstIn,       \* FirstIn[q]: the tasks in queue q at the start
  Steal,         \* scheduler_flag_steal
  MaxTries,      \* scheduler_maxtries
  NoTask, NoRunner

VARIABLES
  rpc,            \* where each runner is
  queue,          \* the tasks in each queue
  qlock,          \* the runner that has the queue's lock
  visiting,       \* the queue a runner scans
  mode,           \* why: its own, a theft, or the last try before sleeping
  steals,         \* the queues it may still try to steal from
  tries,
  tried,          \* the tasks of this scan that were refused
  job,            \* the task it tries to lock, or runs
  sleep_mutex,
  waiting         \* s->waiting

fetchVars == <<rpc, queue, qlock, visiting, mode, steals, tries, tried, job,
               sleep_mutex, waiting>>

allVars == <<vars, fetchVars>>

FetchInit ==
  /\ Init
  /\ target = [p \in Locker |-> CHOOSE c \in Cell : TRUE]
  /\ rpc = [r \in Runner |-> "look"]
  /\ queue = FirstIn
  /\ qlock = [q \in Queue |-> NoRunner]
  /\ visiting = QueueOf
  /\ mode = [r \in Runner |-> "own"]
  /\ steals = [r \in Runner |-> {}]
  /\ tries = [r \in Runner |-> 0]
  /\ tried = [r \in Runner |-> {}]
  /\ job = [r \in Runner |-> NoTask]
  /\ sleep_mutex = NoRunner
  /\ waiting = Cardinality(UNION {FirstIn[q] : q \in Queue})

RGoto(r, label) == rpc' = [rpc EXCEPT ![r] = label]

(* q->count > 0 || q->count_incoming > 0 *)
Filled == {q \in Queue : queue[q] # {}}

Visit(r, q, why) ==
  /\ qlock' = [qlock EXCEPT ![q] = r]
  /\ visiting' = [visiting EXCEPT ![r] = q]
  /\ mode' = [mode EXCEPT ![r] = why]
  /\ tried' = [tried EXCEPT ![r] = {}]
  /\ RGoto(r, "scan")

-----------------------------------------------------------------------------
(***************************************************************************)
(* scheduler_gettask                                                       *)
(***************************************************************************)
Look(r) ==
  /\ rpc[r] = "look"
  /\ RGoto(r, IF waiting > 0 THEN "own" ELSE "home")
  /\ tries' = [tries EXCEPT ![r] = 0]
  /\ UNCHANGED <<vars, queue, qlock, visiting, mode, steals, tried, job,
                 sleep_mutex, waiting>>

ToSteal(r) ==
  /\ steals' = [steals EXCEPT ![r] = IF Steal THEN Filled ELSE {}]
  /\ RGoto(r, "steal")

TryOwn(r) ==
  /\ rpc[r] = "own"
  /\ \/ /\ QueueOf[r] \in Filled /\ qlock[QueueOf[r]] = NoRunner
        /\ Visit(r, QueueOf[r], "own")
        /\ UNCHANGED steals
     \/ /\ QueueOf[r] \notin Filled \/ qlock[QueueOf[r]] # NoRunner
        /\ ToSteal(r)
        /\ UNCHANGED <<qlock, visiting, mode, tried>>
  /\ UNCHANGED <<vars, queue, tries, job, sleep_mutex, waiting>>

TrySteal(r) ==
  /\ rpc[r] = "steal"
  /\ \E q \in steals[r] :
       /\ steals' = [steals EXCEPT ![r] = @ \ {q}]
       /\ \/ qlock[q] = NoRunner /\ Visit(r, q, "steal")
          \/ qlock[q] # NoRunner /\ UNCHANGED <<rpc, qlock, visiting, mode, tried>>
  /\ UNCHANGED <<vars, queue, tries, job, sleep_mutex, waiting>>

(* Nothing more to steal: try again, or take a short nap. *)
NextTry(r) ==
  /\ rpc[r] = "steal"
  /\ steals[r] = {}
  /\ tries' = [tries EXCEPT ![r] = @ + 1]
  /\ RGoto(r, IF waiting > 0 /\ tries[r] + 1 < MaxTries THEN "own" ELSE "final")
  /\ UNCHANGED <<vars, queue, qlock, visiting, mode, steals, tried, job,
                 sleep_mutex, waiting>>

LockSleepMutex(r) ==
  /\ rpc[r] = "final"
  /\ sleep_mutex = NoRunner
  /\ sleep_mutex' = r
  /\ RGoto(r, "block")
  /\ UNCHANGED <<vars, queue, qlock, visiting, mode, steals, tries, tried, job,
                 waiting>>

(* queue_gettask(..., 1): wait for the queue's lock. *)
TryFinal(r) ==
  /\ rpc[r] = "block"
  /\ qlock[QueueOf[r]] = NoRunner
  /\ Visit(r, QueueOf[r], "final")
  /\ UNCHANGED <<vars, queue, steals, tries, job, sleep_mutex, waiting>>

Nap(r) ==
  /\ rpc[r] = "nap"
  /\ sleep_mutex' = NoRunner
  /\ RGoto(r, IF waiting > 0 THEN "sleep" ELSE "look")
  /\ UNCHANGED <<vars, queue, qlock, visiting, mode, steals, tries, tried, job,
                 waiting>>

Woken(r) ==
  /\ rpc[r] = "woken"
  /\ sleep_mutex = NoRunner
  /\ RGoto(r, "look")
  /\ UNCHANGED <<vars, queue, qlock, visiting, mode, steals, tries, tried, job,
                 sleep_mutex, waiting>>

-----------------------------------------------------------------------------
(***************************************************************************)
(* queue_gettask's scan with task_lock of a pair task: the tests of hold,  *)
(* then one tree lock after the other.                                     *)
(***************************************************************************)
Scan(r) ==
  /\ rpc[r] = "scan"
  /\ \E t \in queue[visiting[r]] \ tried[r] :
       \/ /\ hold[Ci[t]] # 0 \/ hold[Cj[t]] # 0
          /\ tried' = [tried EXCEPT ![r] = @ \cup {t}]
          /\ UNCHANGED <<vars, rpc, job>>
       \/ /\ hold[Ci[t]] = 0 /\ hold[Cj[t]] = 0
          /\ Call(<<r, 1>>, Ci[t])
          /\ job' = [job EXCEPT ![r] = t]
          /\ RGoto(r, "lock1")
          /\ UNCHANGED tried
  /\ UNCHANGED <<queue, qlock, visiting, mode, steals, tries, sleep_mutex,
                 waiting>>

Refused(r) ==
  /\ tried' = [tried EXCEPT ![r] = @ \cup {job[r]}]
  /\ job' = [job EXCEPT ![r] = NoTask]
  /\ RGoto(r, "scan")

Lock1(r) ==
  /\ rpc[r] = "lock1"
  /\ \/ /\ pc[<<r, 1>>] = "locked"
        /\ Call(<<r, 2>>, Cj[job[r]])
        /\ RGoto(r, "lock2")
        /\ UNCHANGED <<tried, job>>
     \/ /\ pc[<<r, 1>>] = "idle"
        /\ Refused(r)
        /\ UNCHANGED vars
  /\ UNCHANGED <<queue, qlock, visiting, mode, steals, tries, sleep_mutex,
                 waiting>>

(* The second lock: the task is the runner's, or the first one goes back. *)
Lock2(r) ==
  /\ rpc[r] = "lock2"
  /\ \/ /\ pc[<<r, 2>>] = "locked"
        /\ queue' = [queue EXCEPT ![visiting[r]] = @ \ {job[r]}]
        /\ qlock' = [qlock EXCEPT ![visiting[r]] = NoRunner]
        /\ sleep_mutex' = IF mode[r] = "final" THEN NoRunner ELSE sleep_mutex
        /\ RGoto(r, "run")
        /\ UNCHANGED vars
     \/ /\ pc[<<r, 2>>] = "idle"
        /\ Unlock(<<r, 1>>)
        /\ RGoto(r, "undo")
        /\ UNCHANGED <<queue, qlock, sleep_mutex>>
  /\ UNCHANGED <<visiting, mode, steals, tries, tried, job, waiting>>

RolledBack(r) ==
  /\ rpc[r] = "undo"
  /\ pc[<<r, 1>>] = "idle"
  /\ Refused(r)
  /\ UNCHANGED <<vars, queue, qlock, visiting, mode, steals, tries, sleep_mutex,
                 waiting>>

(* Every task was refused, or there is none: return NULL. *)
ScanEnd(r) ==
  /\ rpc[r] = "scan"
  /\ queue[visiting[r]] \subseteq tried[r]
  /\ qlock' = [qlock EXCEPT ![visiting[r]] = NoRunner]
  /\ \/ mode[r] = "own" /\ ToSteal(r)
     \/ mode[r] = "steal" /\ RGoto(r, "steal") /\ UNCHANGED steals
     \/ mode[r] = "final" /\ RGoto(r, "nap") /\ UNCHANGED steals
  /\ UNCHANGED <<vars, queue, visiting, mode, tries, tried, job, sleep_mutex,
                 waiting>>

-----------------------------------------------------------------------------
(***************************************************************************)
(* The end of a task: task_unlock, then scheduler_done's signal.           *)
(***************************************************************************)
Finish(r) ==
  /\ \/ rpc[r] = "run" /\ Unlock(<<r, 1>>) /\ RGoto(r, "unlock1")
     \/ /\ rpc[r] = "unlock1" /\ pc[<<r, 1>>] = "idle"
        /\ Unlock(<<r, 2>>) /\ RGoto(r, "unlock2")
  /\ UNCHANGED <<queue, qlock, visiting, mode, steals, tries, tried, job,
                 sleep_mutex, waiting>>

Signal(r) ==
  /\ rpc[r] = "unlock2"
  /\ pc[<<r, 2>>] = "idle"
  /\ sleep_mutex = NoRunner
  /\ waiting' = waiting - 1
  /\ rpc' = [q \in Runner |-> IF q = r THEN "look"
                              ELSE IF rpc[q] = "sleep" THEN "woken" ELSE rpc[q]]
  /\ job' = [job EXCEPT ![r] = NoTask]
  /\ UNCHANGED <<vars, queue, qlock, visiting, mode, steals, tries, tried,
                 sleep_mutex>>

-----------------------------------------------------------------------------
(* The calls go on by themselves until they are granted or refused. *)
LockerStep(p) ==
  /\ \/ TestHold(p) \/ TryLock(p) \/ RetestHold(p) \/ GiveUp(p)
     \/ Climb(p) \/ IncHold(p) \/ ReleaseFinger(p) \/ Undo(p) \/ Unhold(p)
  /\ UNCHANGED fetchVars

RunnerStep(r) ==
  \/ Look(r) \/ TryOwn(r) \/ TrySteal(r) \/ NextTry(r)
  \/ LockSleepMutex(r) \/ TryFinal(r) \/ Nap(r) \/ Woken(r)
  \/ Scan(r) \/ Lock1(r) \/ Lock2(r) \/ RolledBack(r) \/ ScanEnd(r)
  \/ Finish(r) \/ Signal(r)

(* All runners are home: the launch is over. *)
AllHome == (\A r \in Runner : rpc[r] = "home") /\ UNCHANGED allVars

FetchNext ==
  \/ \E p \in Locker : LockerStep(p)
  \/ \E r \in Runner : RunnerStep(r)
  \/ AllHome

FetchSpec == FetchInit /\ [][FetchNext]_allVars

-----------------------------------------------------------------------------
(***************************************************************************)
(* While tasks are queued some runner is awake.  Only a runner that is     *)
(* awake can fetch a task, finish one and wake the others, or call         *)
(* scheduler_check_deadlock.                                               *)
(***************************************************************************)
SomeoneAwake ==
  Filled # {} => \E r \in Runner : rpc[r] # "sleep"

=============================================================================
