----------------------------- MODULE QueueRing -----------------------------
(***************************************************************************)
(* The concurrency of one task queue (queue.c).  Any thread may insert a   *)
(* task without a lock: it draws a ticket from last_incoming, spins until  *)
(* it can put the task in the ticket's slot of the ring tid_incoming, and  *)
(* then counts it in count_incoming.  A thread that holds the queue's lock *)
(* empties the ring into the heap (queue_get_incoming); an inserter that   *)
(* meets a full slot does the same if it can have the lock.  The three     *)
(* counters are unsigned ints that wrap; the ring's size does not divide   *)
(* 2^32, so the slot of ticket 0 after the wrap is not the next one.       *)
(*                                                                         *)
(* Here the heap is the set of tasks in it, and queue_gettask may return   *)
(* any of them or none; QueueHeap adds the order.                          *)
(***************************************************************************)
EXTENDS Integers, FiniteSets

CONSTANTS
  Thread,
  Task,
  NoTask,      \* the empty slot's -1, and "no argument"
  RingSize,    \* queue_incoming_size
  UIntMod      \* 2^(bits of an unsigned int)

ASSUME TaskAssumption == IsFiniteSet(Task) /\ NoTask \notin Task

ASSUME ThreadAssumption == IsFiniteSet(Thread)

ASSUME RingAssumption ==
  RingSize \in Nat \ {0} /\ UIntMod \in Nat \ {0}

VARIABLES
  lock,             \* q->lock
  tid_incoming,     \* q->tid_incoming
  first_incoming, last_incoming, count_incoming,
  stored,           \* the tasks in q->entries; q->count is how many
  outside,          \* the tasks that are not queued: waiting or with a runner
  pc,
  arg,              \* the task a queue_insert is to insert
  ind,              \* the slot queue_insert drew
  offset            \* the task queue_get_incoming has in its hands

ringVars == <<lock, tid_incoming, first_incoming, last_incoming,
              count_incoming, stored, outside, pc, arg, ind, offset>>

Slot == 0..(RingSize - 1)
UInt == 0..(UIntMod - 1)

RingTypeOK ==
  /\ lock \in {0, 1}
  /\ tid_incoming \in [Slot -> Task \cup {NoTask}]
  /\ first_incoming \in UInt
  /\ last_incoming \in UInt
  /\ count_incoming \in UInt
  /\ stored \subseteq Task
  /\ outside \subseteq Task
  /\ pc \in [Thread -> {"idle", "cas", "trylock", "count", "drain", "advance",
                        "push", "dec", "scan"}]
  /\ arg \in [Thread -> Task \cup {NoTask}]
  /\ ind \in [Thread -> Slot]
  /\ offset \in [Thread -> Task \cup {NoTask}]

(* The counters may start anywhere: a queue lives through many steps. *)
RingInit ==
  /\ lock = 0
  /\ tid_incoming = [s \in Slot |-> NoTask]
  /\ first_incoming \in UInt
  /\ last_incoming = first_incoming
  /\ count_incoming = 0
  /\ stored = {}
  /\ outside = Task
  /\ pc = [p \in Thread |-> "idle"]
  /\ arg = [p \in Thread |-> NoTask]
  /\ ind = [p \in Thread |-> 0]
  /\ offset = [p \in Thread |-> NoTask]

Goto(p, label) == pc' = [pc EXCEPT ![p] = label]

Unlock == lock' = 0

-----------------------------------------------------------------------------
(***************************************************************************)
(* queue_insert                                                            *)
(***************************************************************************)
Ticket(p, t) ==
  /\ pc[p] = "idle"
  /\ t \in outside
  /\ outside' = outside \ {t}
  /\ arg' = [arg EXCEPT ![p] = t]
  /\ ind' = [ind EXCEPT ![p] = last_incoming % RingSize]
  /\ last_incoming' = (last_incoming + 1) % UIntMod
  /\ Goto(p, "cas")
  /\ UNCHANGED <<lock, tid_incoming, first_incoming, count_incoming, stored,
                 offset>>

(* Mutant: the slot is written without comparing it first. *)
StoreBlindly(p) ==
  /\ pc[p] = "cas"
  /\ tid_incoming' = [tid_incoming EXCEPT ![ind[p]] = arg[p]]
  /\ Goto(p, "count")
  /\ UNCHANGED <<lock, first_incoming, last_incoming, count_incoming, stored,
                 outside, arg, ind, offset>>

(* The compare-and-swap on the slot. *)
Store(p) ==
  /\ pc[p] = "cas"
  /\ \/ /\ tid_incoming[ind[p]] = NoTask
        /\ tid_incoming' = [tid_incoming EXCEPT ![ind[p]] = arg[p]]
        /\ Goto(p, "count")
     \/ /\ tid_incoming[ind[p]] # NoTask
        /\ Goto(p, "trylock")
        /\ UNCHANGED tid_incoming
  /\ UNCHANGED <<lock, first_incoming, last_incoming, count_incoming, stored,
                 outside, arg, ind, offset>>

(* Mutant: an inserter that meets a full slot only spins. *)
HelpNever(p) ==
  /\ pc[p] = "trylock"
  /\ Goto(p, "cas")
  /\ UNCHANGED <<lock, tid_incoming, first_incoming, last_incoming,
                 count_incoming, stored, outside, arg, ind, offset>>

(* Make sure that at least somebody is working on this queue. *)
Help(p) ==
  /\ pc[p] = "trylock"
  /\ \/ lock = 0 /\ lock' = 1 /\ Goto(p, "drain")
     \/ lock = 1 /\ UNCHANGED lock /\ Goto(p, "cas")
  /\ UNCHANGED <<tid_incoming, first_incoming, last_incoming, count_incoming,
                 stored, outside, arg, ind, offset>>

Count(p) ==
  /\ pc[p] = "count"
  /\ count_incoming' = (count_incoming + 1) % UIntMod
  /\ arg' = [arg EXCEPT ![p] = NoTask]
  /\ Goto(p, "idle")
  /\ UNCHANGED <<lock, tid_incoming, first_incoming, last_incoming, stored,
                 outside, ind, offset>>

-----------------------------------------------------------------------------
(***************************************************************************)
(* queue_get_incoming, under the lock.  It ends at the first empty slot,   *)
(* back in queue_insert (which unlocks) or on to queue_gettask's scan.     *)
(***************************************************************************)
NextSlot == first_incoming % RingSize

DrainEnd(p) ==
  /\ pc[p] = "drain"
  /\ tid_incoming[NextSlot] = NoTask
  /\ \/ arg[p] # NoTask /\ Unlock /\ Goto(p, "cas")
     \/ arg[p] = NoTask /\ UNCHANGED lock /\ Goto(p, "scan")
  /\ UNCHANGED <<tid_incoming, first_incoming, last_incoming, count_incoming,
                 stored, outside, arg, ind, offset>>

Swap(p) ==
  /\ pc[p] = "drain"
  /\ tid_incoming[NextSlot] # NoTask
  /\ offset' = [offset EXCEPT ![p] = tid_incoming[NextSlot]]
  /\ tid_incoming' = [tid_incoming EXCEPT ![NextSlot] = NoTask]
  /\ Goto(p, "advance")
  /\ UNCHANGED <<lock, first_incoming, last_incoming, count_incoming, stored,
                 outside, arg, ind>>

(* Mutant: first_incoming wraps with the ring and not with its type. *)
AdvanceInRing(p) ==
  /\ pc[p] = "advance"
  /\ first_incoming' = (first_incoming + 1) % RingSize
  /\ Goto(p, "push")
  /\ UNCHANGED <<lock, tid_incoming, last_incoming, count_incoming, stored,
                 outside, arg, ind, offset>>

Advance(p) ==
  /\ pc[p] = "advance"
  /\ first_incoming' = (first_incoming + 1) % UIntMod
  /\ Goto(p, "push")
  /\ UNCHANGED <<lock, tid_incoming, last_incoming, count_incoming, stored,
                 outside, arg, ind, offset>>

Push(p) ==
  /\ pc[p] = "push"
  /\ stored' = stored \cup {offset[p]}
  /\ offset' = [offset EXCEPT ![p] = NoTask]
  /\ Goto(p, "dec")
  /\ UNCHANGED <<lock, tid_incoming, first_incoming, last_incoming,
                 count_incoming, outside, arg, ind>>

(* Mutant: count_incoming is cleared, as if the ring had been emptied. *)
DecToZero(p) ==
  /\ pc[p] = "dec"
  /\ count_incoming' = 0
  /\ Goto(p, "drain")
  /\ UNCHANGED <<lock, tid_incoming, first_incoming, last_incoming, stored,
                 outside, arg, ind, offset>>

Dec(p) ==
  /\ pc[p] = "dec"
  /\ count_incoming' = (count_incoming - 1) % UIntMod
  /\ Goto(p, "drain")
  /\ UNCHANGED <<lock, tid_incoming, first_incoming, last_incoming, stored,
                 outside, arg, ind, offset>>

-----------------------------------------------------------------------------
(***************************************************************************)
(* queue_gettask.  A non-blocking call that finds the lock taken returns   *)
(* NULL and changes nothing; a blocking one waits.  queue_dump takes the   *)
(* same steps as a queue_gettask that returns NULL.                        *)
(***************************************************************************)
GetLock(p) ==
  /\ pc[p] = "idle"
  /\ lock = 0
  /\ lock' = 1
  /\ Goto(p, "drain")
  /\ UNCHANGED <<tid_incoming, first_incoming, last_incoming, count_incoming,
                 stored, outside, arg, ind, offset>>

(* Some task_lock succeeds: the task leaves the queue with the caller. *)
Take(p, t) ==
  /\ pc[p] = "scan"
  /\ t \in stored
  /\ stored' = stored \ {t}
  /\ outside' = outside \cup {t}
  /\ Unlock
  /\ Goto(p, "idle")
  /\ UNCHANGED <<tid_incoming, first_incoming, last_incoming, count_incoming,
                 arg, ind, offset>>

(* Return NULL: there is no task, or none could be locked. *)
Nothing(p) ==
  /\ pc[p] = "scan"
  /\ Unlock
  /\ Goto(p, "idle")
  /\ UNCHANGED <<tid_incoming, first_incoming, last_incoming, count_incoming,
                 stored, outside, arg, ind, offset>>

-----------------------------------------------------------------------------
Begin(p) == GetLock(p) \/ \E t \in Task : Ticket(p, t)

InsertStep(p) == Store(p) \/ Help(p) \/ Count(p)

DrainStep(p) == DrainEnd(p) \/ Swap(p) \/ Advance(p) \/ Push(p) \/ Dec(p)

RingNext ==
  \E p \in Thread :
    \/ Begin(p) \/ InsertStep(p) \/ DrainStep(p) \/ Nothing(p)
    \/ \E t \in Task : Take(p, t)

RingSpec == RingInit /\ [][RingNext]_ringVars

(***************************************************************************)
(* A thread inside a call goes on: the operating system schedules it, and  *)
(* no step of the queue waits on anything but the lock, which is only      *)
(* tried.                                                                  *)
(***************************************************************************)
RingFairSpec ==
  /\ RingSpec
  /\ \A p \in Thread :
       WF_ringVars(InsertStep(p) \/ DrainStep(p) \/ Nothing(p))

-----------------------------------------------------------------------------
(* The places a task can be. *)
Incoming == {tid_incoming[s] : s \in Slot} \ {NoTask}
Inserting == {arg[p] : p \in {q \in Thread : pc[q] # "count"}} \ {NoTask}
InHand == {offset[p] : p \in Thread} \ {NoTask}

(***************************************************************************)
(* No task is lost and none is queued twice, however inserts, the helping  *)
(* inserters and the consumers overlap: every task is outside, with an     *)
(* inserter, in one slot of the ring, in the hands of the drain or in the  *)
(* heap, and in one of these only.                                         *)
(***************************************************************************)
TaskInOnePlace ==
  /\ \A t \in Task :
       /\ t \in outside \cup Inserting \cup Incoming \cup InHand \cup stored
       /\ t \in outside => t \notin Inserting \cup Incoming \cup InHand \cup stored
       /\ t \in Inserting => t \notin Incoming \cup InHand \cup stored
       /\ t \in Incoming => t \notin InHand \cup stored
       /\ t \in InHand => t \notin stored
  /\ \A r, s \in Slot :
       tid_incoming[r] = tid_incoming[s] /\ tid_incoming[r] # NoTask => r = s
  /\ \A p, q \in Thread :
       /\ offset[p] = offset[q] /\ offset[p] # NoTask => p = q
       /\ arg[p] = arg[q] /\ arg[p] # NoTask /\ pc[p] # "count" /\ pc[q] # "count"
            => p = q

(***************************************************************************)
(* count_incoming, which scheduler_gettask reads to decide whether a queue *)
(* is worth visiting, is the number of tasks that still have to reach the  *)
(* heap, up to the inserts and the drain that are between moving a task    *)
(* and counting it; modulo 2^32, as a drain can be ahead of an insert's    *)
(* count and make it wrap below 0.                                         *)
(***************************************************************************)
CountIncomingExact ==
  count_incoming =
    ( Cardinality({s \in Slot : tid_incoming[s] # NoTask})
      + Cardinality({p \in Thread : pc[p] \in {"advance", "push", "dec"}})
      - Cardinality({p \in Thread : pc[p] = "count"}) ) % UIntMod

(***************************************************************************)
(* A task that was put in the ring is never stranded there: when no insert *)
(* is between its ticket and its slot and no drain is under way, a ring    *)
(* with tasks has one in the slot the next drain looks at first.  This is  *)
(* what the wrap of the counters could break.                              *)
(***************************************************************************)
NotStranded ==
  /\ Inserting = {}
  /\ \A p \in Thread : pc[p] # "advance"
  /\ Incoming # {}
  => tid_incoming[NextSlot] # NoTask

(***************************************************************************)
(* Once no new calls begin, every insert finishes: one that spins on a     *)
(* full slot drains the ring itself if nobody else does.                   *)
(***************************************************************************)
InsertsFinish ==
  <>[][\A p \in Thread : ~ Begin(p)]_ringVars
    => \A p \in Thread : (pc[p] = "cas") ~> (pc[p] = "idle")
=============================================================================
