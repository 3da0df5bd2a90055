-------------------------- MODULE SchedulerProofs --------------------------
(***************************************************************************)
(* The safety properties of Scheduler, and that it implements TaskGraph,   *)
(* for any number of tasks, runners, loaders and queues and any            *)
(* dependencies without a cycle.                                           *)
(*                                                                         *)
(* The invariant accounts for every wait (WaitCounts): the wait of an      *)
(* active task is its own turn to be loaded, plus the decrements of it     *)
(* that threads have on their lists, plus the active tasks before it that  *)
(* are not done.  A task that finishes turns one of the last kind into one *)
(* of the second, so the sum only goes down by the decrement that is made. *)
(* A task whose wait is 0 is done or in exactly one place (HeldOnce,       *)
(* HeldWhenReady), which gives the count of waiting, and at waiting = 0    *)
(* the absence of cycles leaves no task undone.                            *)
(***************************************************************************)
EXTENDS Scheduler, TLAPS, FiniteSetTheorems, SequenceTheorems

-----------------------------------------------------------------------------
(* What each thread has in its hands, from where it is. *)
ThreadShape ==
  \A p \in Thread :
    /\ p \in Loader => pc[p] \in {"home", "decs", "insert"}
    /\ todo[p] # <<>> => pc[p] \in {"decs", "insert"}
    /\ next[p] # NoTask <=> pc[p] = "insert"
    /\ task[p] # NoTask <=> p \in Runner /\ pc[p] \in {"run", "decs", "insert", "mark"}

(* What each phase of engine_launch leaves behind. *)
MainShape ==
  /\ tid_active \subseteq active
  /\ main # "load" => \A l \in Loader : pc[l] = "home"
  /\ main \notin {"rewait", "load"} => tid_active = {}
  /\ main = "idle" => done = active /\ \A r \in Runner : pc[r] = "home"
  /\ main = "rewait" =>
       tid_active = active /\ done = {} /\ \A t \in active : wait[t] = 0

(* The decrements of u's wait in the threads' lists td, numbered from the  *)
(* back of each list, so that what is pushed in front leaves the rest.     *)
OwedIn(td, u) ==
  {x \in Thread \X Nat :
     /\ x[2] \in 1..Len(td[x[1]])
     /\ td[x[1]][Len(td[x[1]]) + 1 - x[2]].of = u}

Owed(u) == OwedIn(todo, u)

OwedFinite == \A t \in Task : IsFiniteSet(Owed(t))

(* The active tasks before t that are not done. *)
Before(t) == {u \in active \ done : t \in UnlockSet(u)}

(***************************************************************************)
(* An active task's wait counts what is still to come: its own turn in     *)
(* scheduler_start, the decrements that threads have on their lists, and   *)
(* the tasks it depends on that are not done.                              *)
(***************************************************************************)
StillToCome(t) ==
  (IF t \in tid_active THEN 1 ELSE 0) + Cardinality(Owed(t)) + Cardinality(Before(t))

WaitCounts == main # "rewait" => \A t \in active : wait[t] = StillToCome(t)

(* The task is on its way to a queue, in one, or running. *)
RunBy(r, t) == pc[r] = "run" /\ task[r] = t

Held(t) ==
  \/ \E p \in Thread : next[p] = t
  \/ \E q \in Queue : t \in queue[q]
  \/ \E r \in Runner : RunBy(r, t)

(***************************************************************************)
(* A task is held or done when its wait is 0, and it is held in one place. *)
(***************************************************************************)
HeldOnce ==
  \A t \in Task :
    /\ \A p \in Thread : next[p] = t =>
         /\ \A o \in Thread : next[o] = t => o = p
         /\ \A q \in Queue : t \notin queue[q]
         /\ \A r \in Runner : ~ RunBy(r, t)
    /\ \A q \in Queue : t \in queue[q] =>
         /\ \A o \in Queue : t \in queue[o] => o = q
         /\ \A r \in Runner : ~ RunBy(r, t)
    /\ \A r \in Runner : RunBy(r, t) => \A o \in Runner : RunBy(o, t) => o = r

HeldWhenReady ==
  \A t \in Task :
    /\ Held(t) => t \in active \ done /\ t \notin Implicit
    /\ Held(t) \/ t \in done => wait[t] = 0 /\ main # "rewait" /\ t \in active
    /\ t \in active \ done /\ main # "rewait" /\ ~ Held(t) => wait[t] # 0

(* A task of the launch is skipped when it is done, or soon after. *)
SkipWhenDone ==
  /\ \A t \in Task :
       /\ skip[t] /\ t \in active => t \in done
       /\ ~ skip[t] => t \in active
       /\ t \in done /\ ~ skip[t] =>
            \E r \in Runner : task[r] = t /\ pc[r] \in {"decs", "insert", "mark"}
  /\ \A r \in Runner : pc[r] \in {"decs", "insert", "mark"} => task[r] \in done

LooseType ==
  /\ skip \in [Task -> BOOLEAN]
  /\ wait \in [Task -> WaitRange]
  /\ tid_active \subseteq Task
  /\ waiting \in Int
  /\ queue \in [Queue -> SUBSET Task]
  /\ sleep_mutex \in Thread \cup {NoThread}
  /\ pc \in [Thread -> {"home", "look", "try", "final", "nap", "sleep", "woken",
                        "run", "decs", "insert", "mark"}]
  /\ todo \in [Thread -> Seq(Decrement)]
  /\ task \in [Thread -> Task \cup {NoTask}]
  /\ next \in [Thread -> Task \cup {NoTask}]
  /\ main \in {"idle", "rewait", "load", "flush", "unguard", "join"}
  /\ active \subseteq Task
  /\ done \subseteq Task

Shape == LooseType /\ ThreadShape /\ MainShape

IInv ==
  /\ Shape /\ OwedFinite /\ WaitCounts /\ HeldOnce /\ HeldWhenReady /\ SkipWhenDone
  /\ WaitingIsInFlight /\ HomeMeansDone

-----------------------------------------------------------------------------
LEMMA WrapFacts ==
  ASSUME NEW t \in Task
  PROVE  /\ WaitMax \in Nat \ {0}
         /\ \A n \in Int : Wrap(n) \in WaitRange
         /\ \A n \in WaitRange : Wrap(n) = n
<1>1. WaitMax \in Nat \ {0}
  <2>1. {u \in Task : t \in UnlockSet(u)} \in SUBSET Task
    OBVIOUS
  <2>2. Cardinality({u \in Task : t \in UnlockSet(u)}) \in Nat
    BY <2>1, FS_Subset, FS_CardinalityType, TaskAssumption
  <2>3. Cardinality({u \in Task : t \in UnlockSet(u)}) + 1 < WaitMax
    BY WaitAssumption
  <2> QED BY <2>2, <2>3, WaitAssumption
<1>2. ASSUME NEW M \in Nat \ {0}, NEW x \in 0..(M - 1)
      PROVE  x % M = x
  OBVIOUS
<1>3. ASSUME NEW n \in Int PROVE Wrap(n) \in WaitRange
  BY <1>1 DEF Wrap, WaitRange
<1>4. ASSUME NEW n \in WaitRange PROVE Wrap(n) = n
  <2>1. n + WaitMax \in 0..((2 * WaitMax) - 1) /\ 2 * WaitMax \in Nat \ {0}
    BY <1>1 DEF WaitRange
  <2>2. (n + WaitMax) % (2 * WaitMax) = n + WaitMax
    BY <1>2, <2>1
  <2> QED BY <1>1, <2>2 DEF Wrap, WaitRange
<1> QED BY <1>1, <1>3, <1>4

LEMMA UnlockFacts ==
  ASSUME NEW t \in Task
  PROVE  /\ Unlocks[t] \in Seq(Task) /\ Len(Unlocks[t]) \in Nat
         /\ UnlockSet(t) \subseteq Task
         /\ \A k \in 1..Len(Unlocks[t]) : Unlocks[t][k] \in UnlockSet(t)
         /\ \A u \in UnlockSet(t) : \E k \in 1..Len(Unlocks[t]) : Unlocks[t][k] = u
         /\ \A j, k \in 1..Len(Unlocks[t]) : Unlocks[t][j] = Unlocks[t][k] => j = k
         /\ t \notin UnlockSet(t)
<1>1. Unlocks[t] \in Seq(Task) /\ Len(Unlocks[t]) \in Nat
      /\ DOMAIN Unlocks[t] = 1..Len(Unlocks[t])
  BY TaskAssumption
<1>2. t \notin UnlockSet(t)
  <2>1. {t} \in SUBSET Task /\ {t} # {}
    OBVIOUS
  <2> QED BY <2>1, AcyclicAssumption
<1>3. \A j, k \in 1..Len(Unlocks[t]) : Unlocks[t][j] = Unlocks[t][k] => j = k
  BY <1>1, TaskAssumption
<1> QED BY <1>1, <1>2, <1>3 DEF UnlockSet

LEMMA DecrementsFacts ==
  ASSUME NEW t \in Task, NEW by \in {"start", "done", "implicit"}
  PROVE  /\ DecrementsOf(t, by) \in Seq(Decrement)
         /\ Len(DecrementsOf(t, by)) = Len(Unlocks[t])
         /\ \A k \in 1..Len(Unlocks[t]) : DecrementsOf(t, by)[k].of = Unlocks[t][k]
<1>1. Len(Unlocks[t]) \in Nat /\ \A k \in 1..Len(Unlocks[t]) : Unlocks[t][k] \in Task
  BY UnlockFacts
<1>2. \A k \in 1..Len(Unlocks[t]) : [of |-> Unlocks[t][k], by |-> by] \in Decrement
  BY <1>1 DEF Decrement
<1> QED BY <1>1, <1>2 DEF DecrementsOf

(* A decrement is taken from a thread's list, or those of a task are added. *)
PopFrom(td, p) == [td EXCEPT ![p] = Tail(@)]

Pushed(td, p, t, by) == [td EXCEPT ![p] = DecrementsOf(t, by) \o @]

(* The first decrement of a list is made. *)
LEMMA OwedPop ==
  ASSUME NEW td \in [Thread -> Seq(Decrement)], NEW p \in Thread, td[p] # <<>>,
         NEW u \in Task
  PROVE  /\ PopFrom(td, p) \in [Thread -> Seq(Decrement)]
         /\ Head(td[p]) \in Decrement
         /\ u # Head(td[p]).of => OwedIn(PopFrom(td, p), u) = OwedIn(td, u)
         /\ u = Head(td[p]).of =>
              /\ <<p, Len(td[p])>> \in OwedIn(td, u)
              /\ OwedIn(PopFrom(td, p), u) = OwedIn(td, u) \ {<<p, Len(td[p])>>}
<1> DEFINE rest == [td EXCEPT ![p] = Tail(@)]
           n == Len(td[p])
           x == <<p, n>>
<1>1. td[p] \in Seq(Decrement) /\ n \in Nat /\ n >= 1
  OBVIOUS
<1>2. /\ Tail(td[p]) \in Seq(Decrement) /\ Len(Tail(td[p])) = n - 1
      /\ \A k \in 1..(n - 1) : Tail(td[p])[k] = td[p][k + 1]
      /\ Head(td[p]) = td[p][1] /\ td[p][1] \in Decrement
  BY <1>1
<1>3. rest \in [Thread -> Seq(Decrement)] /\ rest[p] = Tail(td[p])
  BY <1>2
<1>4. \A k \in 1..(n - 1) : rest[p][Len(rest[p]) + 1 - k] = td[p][n + 1 - k]
  <2> TAKE k \in 1..(n - 1)
  <2>1. n - k \in 1..(n - 1) /\ Len(rest[p]) + 1 - k = n - k
    BY <1>1, <1>2, <1>3
  <2>2. Tail(td[p])[n - k] = td[p][(n - k) + 1] /\ (n - k) + 1 = n + 1 - k
    BY <1>1, <1>2, <2>1
  <2> QED BY <1>3, <2>1, <2>2
<1>5. \A k \in Nat :
        <<p, k>> \in OwedIn(rest, u) <=> (<<p, k>> \in OwedIn(td, u) /\ k # n)
  <2> TAKE k \in Nat
  <2>1. <<p, k>> \in OwedIn(rest, u) <=>
          k \in 1..(n - 1) /\ rest[p][Len(rest[p]) + 1 - k].of = u
    BY <1>2, <1>3 DEF OwedIn
  <2>2. <<p, k>> \in OwedIn(td, u) <=> k \in 1..n /\ td[p][n + 1 - k].of = u
    BY DEF OwedIn
  <2>3. k \in 1..(n - 1) <=> k \in 1..n /\ k # n
    BY <1>1
  <2> QED BY <1>4, <2>1, <2>2, <2>3
<1>6. \A q \in Thread : q # p => \A k \in Nat :
        <<q, k>> \in OwedIn(rest, u) <=> <<q, k>> \in OwedIn(td, u)
  BY DEF OwedIn
<1>7. <<p, n>> \in OwedIn(td, u) <=> u = Head(td[p]).of
  BY <1>1, <1>2 DEF OwedIn
<1>8. OwedIn(rest, u) \subseteq Thread \X Nat /\ OwedIn(td, u) \subseteq Thread \X Nat
  BY DEF OwedIn
<1> HIDE DEF rest, n
<1>9. OwedIn(rest, u) = OwedIn(td, u) \ {x}
  BY <1>1, <1>5, <1>6, <1>8
<1>10. u # Head(td[p]).of => OwedIn(rest, u) = OwedIn(td, u)
  BY <1>7, <1>9
<1> QED BY <1>2, <1>3, <1>7, <1>9, <1>10 DEF rest, n, PopFrom

OneMore(S, T, p) == \E k \in Nat : <<p, k>> \notin S /\ T = S \cup {<<p, k>>}

(* The decrements for the tasks that t unlocks come in front of a list. *)
LEMMA OwedPush ==
  ASSUME NEW td \in [Thread -> Seq(Decrement)], NEW p \in Thread, NEW t \in Task,
         NEW by \in {"start", "done", "implicit"}, NEW u \in Task
  PROVE  /\ Pushed(td, p, t, by) \in [Thread -> Seq(Decrement)]
         /\ u \notin UnlockSet(t) => OwedIn(Pushed(td, p, t, by), u) = OwedIn(td, u)
         /\ u \in UnlockSet(t) => OneMore(OwedIn(td, u), OwedIn(Pushed(td, p, t, by), u), p)
<1> DEFINE D == DecrementsOf(t, by)
           more == [td EXCEPT ![p] = D \o @]
           n == Len(td[p])
           m == Len(Unlocks[t])
<1>0. m \in Nat /\ n \in Nat /\ td[p] \in Seq(Decrement) /\ Len(td[p]) = n
  BY UnlockFacts
<1>1. D \in Seq(Decrement) /\ Len(D) = m /\ \A k \in 1..m : D[k].of = Unlocks[t][k]
  BY DecrementsFacts
<1>u. /\ \A k \in 1..m : Unlocks[t][k] \in UnlockSet(t)
      /\ u \in UnlockSet(t) => \E k \in 1..m : Unlocks[t][k] = u
      /\ \A j, k \in 1..m : Unlocks[t][j] = Unlocks[t][k] => j = k
  BY UnlockFacts
<1> HIDE DEF D, n, m
<1>2. /\ D \o td[p] \in Seq(Decrement) /\ Len(D \o td[p]) = m + n
      /\ \A k \in 1..m : (D \o td[p])[k] = D[k]
      /\ \A k \in (m + 1)..(m + n) : (D \o td[p])[k] = td[p][k - m]
  <2>1. /\ D \o td[p] \in Seq(Decrement) /\ Len(D \o td[p]) = m + n
        /\ \A k \in 1..(m + n) :
             (D \o td[p])[k] = IF k <= m THEN D[k] ELSE td[p][k - m]
    BY <1>0, <1>1, ConcatProperties
  <2>2. \A k \in 1..m : k \in 1..(m + n) /\ k <= m
    BY <1>0
  <2>3. \A k \in (m + 1)..(m + n) : k \in 1..(m + n) /\ ~ (k <= m)
    BY <1>0
  <2> QED BY <2>1, <2>2, <2>3
<1>3. more \in [Thread -> Seq(Decrement)] /\ more[p] = D \o td[p]
  BY <1>2
<1>4. \A k \in Nat : <<p, k>> \in OwedIn(td, u) <=> k \in 1..n /\ td[p][n + 1 - k].of = u
  BY <1>0 DEF OwedIn
<1>5. \A k \in Nat : <<p, k>> \in OwedIn(more, u) <=>
        k \in 1..(m + n) /\ (D \o td[p])[(m + n) + 1 - k].of = u
  BY <1>2, <1>3 DEF OwedIn
<1>6. \A k \in 1..n : (D \o td[p])[(m + n) + 1 - k] = td[p][n + 1 - k]
  <2> TAKE k \in 1..n
  <2>1. (m + n) + 1 - k \in (m + 1)..(m + n) /\ ((m + n) + 1 - k) - m = n + 1 - k
    BY <1>0
  <2> QED BY <1>2, <2>1
<1>7. \A k \in (n + 1)..(m + n) :
        /\ (m + n) + 1 - k \in 1..m
        /\ (D \o td[p])[(m + n) + 1 - k].of = Unlocks[t][(m + n) + 1 - k]
  <2> TAKE k \in (n + 1)..(m + n)
  <2>1. (m + n) + 1 - k \in 1..m
    BY <1>0
  <2> QED BY <1>1, <1>2, <2>1
<1>8. \A q \in Thread : q # p => \A k \in Nat :
        <<q, k>> \in OwedIn(more, u) <=> <<q, k>> \in OwedIn(td, u)
  BY DEF OwedIn
<1>9. OwedIn(more, u) \subseteq Thread \X Nat /\ OwedIn(td, u) \subseteq Thread \X Nat
  BY DEF OwedIn
<1>10. \A k \in 1..(m + n) : k \in Nat /\ (k \in 1..n \/ k \in (n + 1)..(m + n))
  BY <1>0
<1>11. \A k \in 1..n : k \in 1..(m + n) /\ k \in Nat
  BY <1>0
<1>12. CASE u \notin UnlockSet(t)
  <2>1. \A k \in (n + 1)..(m + n) : (D \o td[p])[(m + n) + 1 - k].of # u
    <3> TAKE k \in (n + 1)..(m + n)
    <3>1. (m + n) + 1 - k \in 1..m
      BY <1>7
    <3>2. Unlocks[t][(m + n) + 1 - k] \in UnlockSet(t)
      BY <3>1, <1>u
    <3> QED BY <1>7, <1>12, <3>2
  <2>2. \A k \in Nat : <<p, k>> \in OwedIn(more, u) <=> <<p, k>> \in OwedIn(td, u)
    BY <1>4, <1>5, <1>6, <1>10, <1>11, <2>1
  <2> HIDE DEF more
  <2>3. \A q \in Thread, k \in Nat :
          <<q, k>> \in OwedIn(more, u) <=> <<q, k>> \in OwedIn(td, u)
    BY <1>8, <2>2
  <2>4. OwedIn(more, u) = OwedIn(td, u)
    <3>1. \A x \in Thread \X Nat : x = <<x[1], x[2]>> /\ x[1] \in Thread /\ x[2] \in Nat
      OBVIOUS
    <3>2. \A x \in Thread \X Nat : x \in OwedIn(more, u) <=> x \in OwedIn(td, u)
      BY <2>3, <3>1
    <3> QED BY <1>9, <3>2
  <2> QED BY <1>3, <1>12, <2>4 DEF more, D, Pushed
<1>13. CASE u \in UnlockSet(t)
  <2>1. PICK j \in 1..m : Unlocks[t][j] = u
    BY <1>13, <1>u
  <2> DEFINE i == (m + n) + 1 - j
  <2>2. i \in (n + 1)..(m + n) /\ i \in 1..(m + n) /\ i \in Nat /\ i \notin 1..n
        /\ (m + n) + 1 - i = j
    BY <1>0, <2>1
  <2>3. \A k \in (n + 1)..(m + n) :
          (D \o td[p])[(m + n) + 1 - k].of = u => k = i
    <3> TAKE k \in (n + 1)..(m + n)
    <3>1. HAVE (D \o td[p])[(m + n) + 1 - k].of = u
    <3>2. (m + n) + 1 - k \in 1..m /\ Unlocks[t][(m + n) + 1 - k] = u
      BY <1>7, <3>1
    <3>3. (m + n) + 1 - k = j
      BY <2>1, <3>2, <1>u
    <3> QED BY <1>0, <3>3
  <2>4. (D \o td[p])[(m + n) + 1 - i].of = u
    BY <1>7, <2>1, <2>2
  <2> HIDE DEF i
  <2>5. \A k \in Nat :
          <<p, k>> \in OwedIn(more, u) <=> (<<p, k>> \in OwedIn(td, u) \/ k = i)
    BY <1>4, <1>5, <1>6, <1>10, <1>11, <2>2, <2>3, <2>4
  <2>6. <<p, i>> \notin OwedIn(td, u)
    BY <1>4, <2>2
  <2> HIDE DEF more
  <2>7. OwedIn(more, u) = OwedIn(td, u) \cup {<<p, i>>}
    BY <1>8, <1>9, <2>2, <2>5
  <2> QED BY <1>3, <1>13, <2>2, <2>6, <2>7 DEF more, D, Pushed, OneMore
<1> QED BY <1>12, <1>13

(* A list that was empty gets one decrement. *)
LEMMA OwedOne ==
  ASSUME NEW td, NEW more, NEW p \in Thread, NEW t \in Task, NEW u \in Task,
         Len(td[p]) = 0, Len(more[p]) = 1, more[p][1].of = t,
         \A q \in Thread : q # p => more[q] = td[q]
  PROVE  /\ u # t => OwedIn(more, u) = OwedIn(td, u)
         /\ u = t => /\ <<p, 1>> \notin OwedIn(td, u)
                        /\ OwedIn(more, u) = OwedIn(td, u) \cup {<<p, 1>>}
<1>2. \A k \in Nat : <<p, k>> \notin OwedIn(td, u)
  BY DEF OwedIn
<1>3. \A k \in Nat : <<p, k>> \in OwedIn(more, u) <=> k = 1 /\ t = u
  <2> TAKE k \in Nat
  <2>1. <<p, k>> \in OwedIn(more, u) <=> k \in 1..1 /\ more[p][1 + 1 - k].of = u
    BY DEF OwedIn
  <2>2. k \in 1..1 <=> k = 1
    OBVIOUS
  <2> QED BY <2>1, <2>2
<1>4. \A q \in Thread : q # p => \A k \in Nat :
        <<q, k>> \in OwedIn(more, u) <=> <<q, k>> \in OwedIn(td, u)
  BY DEF OwedIn
<1>5. OwedIn(more, u) \subseteq Thread \X Nat /\ OwedIn(td, u) \subseteq Thread \X Nat
  BY DEF OwedIn
<1>6. \A x \in Thread \X Nat : x = <<x[1], x[2]>> /\ x[1] \in Thread /\ x[2] \in Nat
  OBVIOUS
<1>7. ASSUME u # t PROVE OwedIn(more, u) = OwedIn(td, u)
  <2>1. \A q \in Thread, k \in Nat :
          <<q, k>> \in OwedIn(more, u) <=> <<q, k>> \in OwedIn(td, u)
    BY <1>2, <1>3, <1>4, <1>7
  <2>2. \A x \in Thread \X Nat : x \in OwedIn(more, u) <=> x \in OwedIn(td, u)
    BY ONLY <1>6, <2>1
  <2> QED BY <1>5, <2>2
<1>8. ASSUME u = t PROVE OwedIn(more, u) = OwedIn(td, u) \cup {<<p, 1>>}
  <2>1. \A q \in Thread, k \in Nat :
          <<q, k>> \in OwedIn(more, u) <=>
            (<<q, k>> \in OwedIn(td, u) \/ <<q, k>> = <<p, 1>>)
    BY <1>2, <1>3, <1>4, <1>8
  <2>2. \A x \in Thread \X Nat :
          x \in OwedIn(more, u) <=> (x \in OwedIn(td, u) \/ x = <<p, 1>>)
    BY ONLY <1>6, <2>1
  <2>3. <<p, 1>> \in Thread \X Nat
    OBVIOUS
  <2> QED BY <1>5, <2>2, <2>3
<1> QED BY <1>2, <1>7, <1>8

-----------------------------------------------------------------------------
(***************************************************************************)
(* The steps.  Most of them move a thread between places where it has no   *)
(* task, or move the engine to its next phase: they are quiet.             *)
(***************************************************************************)
Take(r, q, t) ==
  /\ pc[r] \in {"try", "final"}
  /\ TakeFrom(r, q, t)
  /\ UNCHANGED <<skip, wait, tid_active, waiting, sleep_mutex, todo, next, main,
                 active, done>>

QuietThread(p) ==
  \/ LoaderDone(p)
  \/ p \in Runner /\ Look(p)
  \/ p \in Runner /\ GetNothing(p)
  \/ p \in Runner /\ pc[p] = "final" /\ pc' = [pc EXCEPT ![p] = "nap"]
     /\ sleep_mutex' = p
     /\ UNCHANGED <<skip, wait, tid_active, waiting, queue, todo, task, next, main,
                    active, done>>
  \/ p \in Runner /\ Nap(p)
  \/ p \in Runner /\ SpuriousWakeup(p)
  \/ p \in Runner /\ Woken(p)
  \/ Signal(p)

(* The four outcomes of a decrement of t's wait. *)
Popped(p) == PopFrom(todo, p)

Decremented(t) == [wait EXCEPT ![t] = Wrap(@ - 1)]

DecSkipped(p, t) ==
  /\ Head(todo[p]).by = "done" /\ skip[t]
  /\ todo' = Popped(p)
  /\ UNCHANGED <<skip, wait, waiting, pc, next, done>>

DecOnly(p, t) ==
  /\ wait[t] # 1 \/ skip[t]
  /\ wait' = Decremented(t)
  /\ todo' = Popped(p)
  /\ UNCHANGED <<skip, waiting, pc, next, done>>

DecPass(p, t) ==
  /\ wait[t] = 1 /\ ~ skip[t] /\ t \in Implicit
  /\ wait' = Decremented(t)
  /\ skip' = [skip EXCEPT ![t] = TRUE]
  /\ done' = done \cup {t}
  /\ todo' = Pushed(Popped(p), p, t, "implicit")
  /\ UNCHANGED <<waiting, pc, next>>

DecReady(p, t) ==
  /\ wait[t] = 1 /\ ~ skip[t] /\ t \notin Implicit
  /\ wait' = Decremented(t)
  /\ waiting' = waiting + 1
  /\ next' = [next EXCEPT ![p] = t]
  /\ todo' = Popped(p)
  /\ pc' = [pc EXCEPT ![p] = "insert"]
  /\ UNCHANGED <<skip, done>>

DecOf(p, t) ==
  /\ pc[p] = "decs" /\ todo[p] # <<>> /\ Head(todo[p]).of = t
  /\ UNCHANGED <<tid_active, queue, sleep_mutex, task, main, active>>
  /\ DecSkipped(p, t) \/ DecOnly(p, t) \/ DecPass(p, t) \/ DecReady(p, t)

LEMMA DecCases ==
  ASSUME LooseType, NEW p \in Thread, Dec(p)
  PROVE  \E t \in Task : DecOf(p, t)
<1>1. todo \in [Thread -> Seq(Decrement)] /\ pc[p] = "decs" /\ todo[p] # <<>>
  BY DEF LooseType, Dec
<1>2. Head(todo[p]) \in Decrement
  BY <1>1
<1>3. PICK t \in Task : Head(todo[p]).of = t
  BY <1>2 DEF Decrement
<1>4. Popped(p) = [todo EXCEPT ![p] = Tail(todo[p])]
  BY <1>1 DEF Popped, PopFrom, Pushed
<1>5. Pushed(Popped(p), p, t, "implicit")
        = [todo EXCEPT ![p] = DecrementsOf(t, "implicit") \o Tail(todo[p])]
  BY <1>1 DEF Popped, PopFrom, Pushed
<1>6. DecSkipped(p, t) \/ DecOnly(p, t) \/ DecPass(p, t) \/ DecReady(p, t)
  BY <1>3, <1>4, <1>5 DEF Dec, Goto, DecSkipped, DecOnly, DecPass, DecReady, Decremented
<1>7. DecOf(p, t)
  BY <1>1, <1>3, <1>6 DEF Dec, DecOf
<1> QED BY <1>7

LEMMA StepCases ==
  ASSUME Next
  PROVE  \/ \E A \in SUBSET Task : Launch(A)
         \/ Rewait \/ Loaded \/ Flush \/ Unguard \/ Join
         \/ \E p \in Thread : QuietThread(p)
         \/ \E l \in Loader, t \in Task : Load(l, t)
         \/ \E p \in Thread : Dec(p)
         \/ \E p \in Thread, q \in Queue : Insert(p, q)
         \/ \E r \in Runner, q \in Queue, t \in Task : Take(r, q, t)
         \/ \E r \in Runner : Finish(r) \/ Mark(r)
<1>1. CASE \E l \in Loader : LoadNext(l)
  BY <1>1 DEF LoadNext, Thread, QuietThread
<1>2. ASSUME NEW r \in Runner, FinalTry(r)
      PROVE  \/ QuietThread(r)
             \/ \E q \in Queue, t \in Task : Take(r, q, t)
  <2>1. QueueOf[r] \in Queue
    BY ThreadAssumption
  <2> QED BY <1>2, <2>1 DEF FinalTry, QuietThread, Take, Goto
<1>3. ASSUME NEW r \in Runner, NEW q \in Queue, NEW t \in Task, Get(r, q, t)
      PROVE  Take(r, q, t)
  BY <1>3 DEF Get, Take
<1>4. ASSUME NEW r \in Runner, RunnerNext(r) \/ SpuriousWakeup(r)
      PROVE  \/ \E p \in Thread : QuietThread(p)
             \/ \E p \in Thread : Dec(p)
             \/ \E p \in Thread, q \in Queue : Insert(p, q)
             \/ \E q \in Queue, t \in Task : Take(r, q, t)
             \/ Finish(r) \/ Mark(r)
  <2>1. r \in Thread
    BY DEF Thread
  <2>2. CASE FinalTry(r)
    BY <1>2, <2>1, <2>2
  <2>3. CASE \E q \in Queue, t \in Task : Get(r, q, t)
    BY <1>3, <2>3
  <2>4. CASE Look(r) \/ GetNothing(r) \/ Nap(r) \/ Woken(r) \/ Signal(r) \/ SpuriousWakeup(r)
    BY <2>1, <2>4 DEF QuietThread
  <2> QED BY <1>4, <2>1, <2>2, <2>3, <2>4 DEF RunnerNext
<1>5. Activations \subseteq SUBSET Task
  BY TaskAssumption
<1> QED BY <1>1, <1>4, <1>5 DEF Next, MainNext

-----------------------------------------------------------------------------
(***************************************************************************)
(* Types and shapes.                                                       *)
(***************************************************************************)
LEMMA ShapeStep ==
  ASSUME IInv, Next
  PROVE  Shape'
<1> USE DEF Shape, LooseType
<1>0. Shape /\ HomeMeansDone /\ SkipWhenDone /\ HeldWhenReady
  BY DEF IInv
<1>0a. Runner \subseteq Thread /\ Loader \subseteq Thread /\ Thread = Runner \cup Loader
       /\ Runner \cap Loader = {} /\ NoTask \notin Task
  BY ThreadAssumption, TaskAssumption DEF Thread
<1>1. ASSUME NEW A \in SUBSET Task, Launch(A) PROVE Shape'
  <2>1. \A p \in Thread : pc[p] = "home"
    BY <1>0, <1>0a, <1>1 DEF Launch, Activate, MainShape
  <2>2. \A t \in Task : skip[t]
    BY <1>0, <1>1, <2>1, <1>0a DEF Launch, Activate, MainShape, SkipWhenDone
  <2>3. LooseType'
    <3>1. wait' \in [Task -> WaitRange]
      <4>1. \A t \in Task : 0 \in WaitRange
        BY WrapFacts DEF WaitRange
      <4> QED BY <1>0, <1>1, <4>1 DEF Launch, Activate
    <3>2. waiting' \in Int /\ main' = "rewait"
      BY <1>0, <1>1 DEF Launch, Activate
    <3>6. skip' \in [Task -> BOOLEAN]
      <4>1. skip' = [t \in Task |-> IF t \in A THEN FALSE ELSE skip[t]]
        BY <1>1 DEF Launch, Activate
      <4>2. \A t \in Task : (IF t \in A THEN FALSE ELSE skip[t]) \in BOOLEAN
        BY <1>0
      <4> QED BY <4>1, <4>2, Zenon
    <3>3. tid_active' \subseteq Task /\ active' \subseteq Task /\ done' \subseteq Task
      BY <1>1 DEF Launch, Activate
    <3>4. pc' \in [Thread -> {"home", "look", "try", "final", "nap", "sleep", "woken",
                             "run", "decs", "insert", "mark"}]
      BY <1>0, <1>1 DEF Launch, Activate
    <3>5. UNCHANGED <<queue, sleep_mutex, todo, task, next>>
      BY <1>1 DEF Launch, Activate
    <3> QED BY <1>0, <3>1, <3>2, <3>3, <3>4, <3>5, <3>6
  <2>4. ThreadShape'
    BY <1>0, <1>0a, <1>1, <2>1 DEF Launch, Activate, ThreadShape
  <2>5. MainShape'
    BY <1>0, <1>0a, <1>1, <2>1, <2>2 DEF Launch, Activate, MainShape
  <2> QED BY <2>3, <2>4, <2>5
<1>2. CASE Rewait
  <2>1. wait' \in [Task -> WaitRange]
    <3>1. ASSUME NEW t \in Task
          PROVE  Wrap(wait[t] + (IF t \in tid_active THEN 1 ELSE 0)
                       + Cardinality({u \in tid_active : t \in UnlockSet(u)})) \in WaitRange
      <4>1. {u \in tid_active : t \in UnlockSet(u)} \in SUBSET Task
        BY <1>0
      <4>2. Cardinality({u \in tid_active : t \in UnlockSet(u)}) \in Nat
        BY <4>1, FS_Subset, FS_CardinalityType, TaskAssumption
      <4>3. wait[t] \in Int
        BY <1>0, WaitAssumption DEF WaitRange
      <4> QED BY <4>2, <4>3, WrapFacts
    <3> QED BY <1>2, <3>1 DEF Rewait
  <2> QED BY <1>0, <1>2, <2>1 DEF Rewait, ThreadShape, MainShape
<1>3. CASE Loaded \/ Flush \/ Unguard \/ Join
  <2>1. LooseType'
    BY <1>0, <1>3 DEF Loaded, Flush, Unguard, Join, Broadcast
  <2>2. ThreadShape'
    BY <1>0, <1>3, <1>0a DEF Loaded, Flush, Unguard, Join, Broadcast, ThreadShape
  <2>3. CASE Loaded \/ Flush \/ Unguard
    <3>1. /\ main \notin {"idle", "rewait"} /\ main' \notin {"idle", "rewait", "load"}
          /\ UNCHANGED <<tid_active, active>> /\ tid_active = {}
      BY <1>0, <2>3 DEF Loaded, Flush, Unguard, MainShape
    <3>2. \A l \in Loader : pc'[l] = "home"
      BY <1>0, <2>3, <1>0a DEF Loaded, Flush, Unguard, Broadcast, MainShape
    <3>3. MainShape'
      BY <3>1, <3>2 DEF MainShape
    <3> QED BY <2>1, <2>2, <3>3
  <2>4. CASE Join
    <3>1. done = active /\ tid_active = {}
      BY <1>0, <2>4, ThreadAssumption DEF Join, HomeMeansDone
    <3> QED BY <1>0, <2>1, <2>2, <2>4, <3>1 DEF Join, MainShape
  <2> QED BY <1>3, <2>1, <2>2, <2>3, <2>4
<1>4. ASSUME NEW p \in Thread, QuietThread(p) PROVE Shape'
  <2> USE DEF QuietThread, LoaderDone, Look, GetNothing, Nap, SpuriousWakeup, Woken,
              Signal, Goto, BroadcastGoto
  <2>1. LooseType'
    <3>1. UNCHANGED <<skip, wait, tid_active, queue, todo, task, next, main, active, done>>
      BY <1>4
    <3>2. waiting' \in Int
      BY <1>0, <1>4
    <3>3. sleep_mutex' \in Thread \cup {NoThread}
      BY <1>0, <1>4
    <3>4. pc' \in [Thread -> {"home", "look", "try", "final", "nap", "sleep", "woken",
                             "run", "decs", "insert", "mark"}]
      BY <1>0, <1>4
    <3> QED BY <1>0, <3>1, <3>2, <3>3, <3>4
  <2>2. ThreadShape'
    <3> DEFINE R == {"home", "look", "try", "final", "nap", "sleep", "woken"}
    <3>1. todo' = todo /\ next' = next /\ task' = task
      BY <1>4
    <3>2. ASSUME NEW q \in Thread
          PROVE  \/ pc'[q] = pc[q]
                 \/ q \in Runner /\ pc[q] \in R /\ pc'[q] \in R
                 \/ q \in Loader /\ pc[q] = "decs" /\ pc'[q] = "home" /\ todo[q] = <<>>
                 \/ q \in Runner /\ pc[q] = "decs" /\ pc'[q] = "mark" /\ todo[q] = <<>>
      <4>1. q \in Loader => pc[q] # "sleep"
        BY <1>0 DEF ThreadShape
      <4>2. CASE q = p
        BY <1>0, <1>0a, <1>4, <4>1, <4>2
      <4>3. CASE q # p
        BY <1>0, <1>0a, <1>4, <4>1, <4>3 DEF Thread
      <4> QED BY <4>2, <4>3
    <3> QED BY <1>0, <1>0a, <3>1, <3>2 DEF ThreadShape
  <2>3. MainShape'
    BY <1>0, <1>0a, <1>4 DEF MainShape
  <2> QED BY <2>1, <2>2, <2>3
<1>5. ASSUME NEW l \in Loader, NEW t \in Task, Load(l, t) PROVE Shape'
  <2>1. <<[of |-> t, by |-> "start"]>> \in Seq(Decrement)
    BY DEF Decrement
  <2>2. LooseType'
    BY <1>0, <1>0a, <1>5, <2>1 DEF Load, Goto
  <2>3. ThreadShape'
    BY <1>0, <1>0a, <1>5 DEF Load, Goto, ThreadShape
  <2>4. MainShape'
    BY <1>0, <1>0a, <1>5 DEF Load, Goto, MainShape
  <2> QED BY <2>2, <2>3, <2>4
<1>6. ASSUME NEW p \in Thread, NEW q \in Queue, Insert(p, q) PROVE Shape'
  <2>1. next[p] \in Task
    BY <1>0, <1>6 DEF Insert, ThreadShape
  <2>2. LooseType'
    BY <1>0, <1>6, <2>1 DEF Insert, Goto
  <2>3. ThreadShape'
    BY <1>0, <1>0a, <1>6 DEF Insert, Goto, ThreadShape
  <2>4. MainShape'
    BY <1>0, <1>0a, <1>6 DEF Insert, Goto, MainShape
  <2> QED BY <2>2, <2>3, <2>4
<1>7. ASSUME NEW r \in Runner, NEW q \in Queue, NEW t \in Task, Take(r, q, t) PROVE Shape'
  <2>1. LooseType'
    BY <1>0, <1>0a, <1>7 DEF Take, TakeFrom, Goto
  <2>2. ThreadShape'
    BY <1>0, <1>0a, <1>7 DEF Take, TakeFrom, Goto, ThreadShape
  <2>3. MainShape'
    BY <1>0, <1>0a, <1>7 DEF Take, TakeFrom, Goto, MainShape
  <2> QED BY <2>1, <2>2, <2>3
<1>8. ASSUME NEW r \in Runner, Finish(r) PROVE Shape'
  <2>1. task[r] \in Task
    BY <1>0, <1>0a, <1>8 DEF Finish, ThreadShape
  <2>2. DecrementsOf(task[r], "done") \in Seq(Decrement)
    BY <2>1, DecrementsFacts
  <2>3. LooseType'
    BY <1>0, <1>0a, <1>8, <2>1, <2>2 DEF Finish, Goto
  <2>4. ThreadShape'
    BY <1>0, <1>0a, <1>8 DEF Finish, Goto, ThreadShape
  <2>5. MainShape'
    <3>1. main # "rewait" /\ main # "idle"
      BY <1>0, <1>0a, <1>8, <2>1 DEF Finish, MainShape, HeldWhenReady, Held, RunBy
    <3> QED BY <1>0, <1>0a, <1>8, <3>1 DEF Finish, Goto, MainShape
  <2> QED BY <2>3, <2>4, <2>5
<1>9. ASSUME NEW r \in Runner, Mark(r) PROVE Shape'
  <2>1. task[r] \in Task
    BY <1>0, <1>0a, <1>9 DEF Mark, ThreadShape
  <2>2. LooseType'
    BY <1>0, <1>0a, <1>9, <2>1 DEF Mark, Goto
  <2>3. ThreadShape'
    BY <1>0, <1>0a, <1>9 DEF Mark, Goto, ThreadShape
  <2>4. MainShape'
    BY <1>0, <1>0a, <1>9 DEF Mark, Goto, MainShape
  <2> QED BY <2>2, <2>3, <2>4
<1>10. ASSUME NEW p \in Thread, Dec(p) PROVE Shape'
  <2>1. PICK t \in Task : DecOf(p, t)
    BY <1>0, <1>10, DecCases
  <2>2. /\ pc[p] = "decs" /\ todo[p] # <<>>
        /\ UNCHANGED <<tid_active, queue, sleep_mutex, task, main, active>>
    BY <2>1 DEF DecOf
  <2>3. main \notin {"idle", "rewait"}
    <3>1. CASE p \in Loader
      BY <1>0, <2>2, <3>1 DEF MainShape
    <3>2. CASE p \in Runner
      BY <1>0, <2>2, <3>2 DEF MainShape, SkipWhenDone
    <3> QED BY <1>0a, <3>1, <3>2
  <2>4. Popped(p) \in [Thread -> Seq(Decrement)]
    BY <1>0, <2>2, OwedPop DEF Popped
  <2>5. Pushed(Popped(p), p, t, "implicit") \in [Thread -> Seq(Decrement)]
    BY <2>4, OwedPush
  <2>6. Decremented(t) \in [Task -> WaitRange]
    <3>1. wait[t] - 1 \in Int
      BY <1>0, WaitAssumption DEF WaitRange
    <3>2. Wrap(wait[t] - 1) \in WaitRange
      BY <3>1, WrapFacts
    <3> QED BY <1>0, <3>2 DEF Decremented
  <2> USE DEF DecOf, DecSkipped, DecOnly, DecPass, DecReady
  <2> HIDE DEF Popped, Decremented
  <2>7. LooseType'
    <3>1. todo' \in [Thread -> Seq(Decrement)]
      BY <2>1, <2>4, <2>5
    <3>2. wait' \in [Task -> WaitRange]
      BY <1>0, <2>1, <2>6
    <3>3. waiting' \in Int /\ done' \subseteq Task
          /\ next' \in [Thread -> Task \cup {NoTask}]
      <4>1. waiting' = waiting \/ waiting' = waiting + 1
        BY <2>1
      <4>2. done' = done \/ done' = done \cup {t}
        BY <2>1
      <4>3. next' = next \/ next' = [next EXCEPT ![p] = t]
        BY <2>1
      <4>4. /\ waiting \in Int /\ done \subseteq Task
            /\ next \in [Thread -> Task \cup {NoTask}]
        BY <1>0
      <4> HIDE DEF DecOf
      <4> QED BY <4>1, <4>2, <4>3, <4>4
    <3>5. skip' \in [Task -> BOOLEAN]
      <4>1. skip \in [Task -> BOOLEAN]
        BY <1>0
      <4>2. skip' = skip \/ skip' = [skip EXCEPT ![t] = TRUE]
        BY <2>1
      <4>3. \A u \in Task : (IF u = t THEN TRUE ELSE skip[u]) \in BOOLEAN
        BY <4>1
      <4>4. [skip EXCEPT ![t] = TRUE] = [u \in Task |-> IF u = t THEN TRUE ELSE skip[u]]
        BY <4>1
      <4> QED BY <4>1, <4>2, <4>3, <4>4, Zenon
    <3>4. pc' \in [Thread -> {"home", "look", "try", "final", "nap", "sleep", "woken",
                             "run", "decs", "insert", "mark"}]
      BY <1>0, <2>1
    <3> QED BY <1>0, <2>2, <3>1, <3>2, <3>3, <3>4, <3>5
  <2>8. ThreadShape'
    <3>1. \A o \in Thread : o # p => todo'[o] = todo[o] /\ pc'[o] = pc[o] /\ next'[o] = next[o]
      BY <1>0, <2>1 DEF Popped, PopFrom, Pushed
    <3>2. \/ pc'[p] = "decs" /\ next'[p] = next[p]
          \/ pc'[p] = "insert" /\ next'[p] = t
      BY <1>0, <2>1
    <3> QED BY <1>0, <1>0a, <2>2, <3>1, <3>2 DEF ThreadShape
  <2>9. MainShape'
    <3>1. \A l \in Loader : l # p => pc'[l] = pc[l]
      BY <1>0, <1>0a, <2>1
    <3>2. p \in Loader => main = "load"
      BY <1>0, <2>2 DEF MainShape
    <3> QED BY <1>0, <2>2, <2>3, <3>1, <3>2 DEF MainShape
  <2> QED BY <2>7, <2>8, <2>9
<1> QED BY <1>1, <1>2, <1>3, <1>4, <1>5, <1>6, <1>7, <1>8, <1>9, <1>10, StepCases

-----------------------------------------------------------------------------
(***************************************************************************)
(* The waits, the tasks in the threads' hands and the flags.               *)
(***************************************************************************)
TaskPart == OwedFinite /\ WaitCounts /\ HeldOnce /\ HeldWhenReady /\ SkipWhenDone

LEMMA CountFacts ==
  ASSUME Shape, OwedFinite, NEW t \in Task
  PROVE  /\ IsFiniteSet(Owed(t)) /\ Cardinality(Owed(t)) \in Nat
         /\ IsFiniteSet(Before(t)) /\ Cardinality(Before(t)) \in Nat
         /\ Cardinality(Owed(t)) = 0 <=> Owed(t) = {}
         /\ Cardinality(Before(t)) = 0 <=> Before(t) = {}
         /\ StillToCome(t) \in Nat
<1>1. IsFiniteSet(Owed(t))
  BY DEF OwedFinite
<1>2. Before(t) \in SUBSET Task
  BY DEF Before, Shape, LooseType
<1>3. IsFiniteSet(Before(t))
  BY <1>2, TaskAssumption, FS_Subset
<1>4. Cardinality(Owed(t)) \in Nat /\ Cardinality(Before(t)) \in Nat
  BY <1>1, <1>3, FS_CardinalityType
<1> QED BY <1>1, <1>3, <1>4, FS_EmptySet DEF StillToCome

(* What an active task with a count of 0 tells. *)
LEMMA NothingToCome ==
  ASSUME Shape, OwedFinite, NEW t \in Task, StillToCome(t) = 0
  PROVE  t \notin tid_active /\ Owed(t) = {} /\ Before(t) = {}
<1>1. Cardinality(Owed(t)) \in Nat /\ Cardinality(Before(t)) \in Nat
  BY CountFacts
<1>2. t \notin tid_active /\ Cardinality(Owed(t)) = 0 /\ Cardinality(Before(t)) = 0
  BY <1>1 DEF StillToCome
<1> QED BY <1>2, CountFacts

Quiet ==
  /\ UNCHANGED <<skip, wait, tid_active, queue, todo, task, next, active, done>>
  /\ \A r \in Runner :
       /\ pc'[r] = "run" <=> pc[r] = "run"
       /\ pc'[r] \in {"decs", "insert", "mark"} <=> pc[r] \in {"decs", "insert", "mark"}
  /\ main' = "rewait" <=> main = "rewait"

LEMMA QuietSteps ==
  ASSUME Shape,
         Loaded \/ Flush \/ Unguard \/ Join \/ \E p \in Thread : QuietThread(p)
  PROVE  Quiet
<1> USE DEF Shape, LooseType
<1>0. Runner \subseteq Thread /\ Runner \cap Loader = {}
  BY ThreadAssumption DEF Thread
<1>1. CASE Loaded \/ Flush \/ Unguard \/ Join
  BY <1>0, <1>1 DEF Loaded, Flush, Unguard, Join, Broadcast, Quiet
<1>2. ASSUME NEW p \in Thread, QuietThread(p) PROVE Quiet
  <2> USE DEF QuietThread, LoaderDone, Look, GetNothing, Nap, SpuriousWakeup, Woken,
              Signal, Goto, BroadcastGoto
  <2>1. UNCHANGED <<skip, wait, tid_active, queue, todo, task, next, active, done, main>>
    BY <1>2
  <2>2. ASSUME NEW r \in Runner
        PROVE  /\ pc'[r] = "run" <=> pc[r] = "run"
               /\ pc'[r] \in {"decs", "insert", "mark"} <=>
                    pc[r] \in {"decs", "insert", "mark"}
    BY <1>0, <1>2
  <2> QED BY <2>1, <2>2 DEF Quiet
<1> QED BY <1>1, <1>2

LEMMA QuietKeeps ==
  ASSUME TaskPart, Quiet
  PROVE  TaskPart'
<1>1. OwedFinite'
  BY DEF TaskPart, OwedFinite, Owed, Quiet
<1>2. WaitCounts'
  BY DEF TaskPart, WaitCounts, StillToCome, Owed, Before, Quiet
<1>3. \A r \in Runner, t \in Task : RunBy(r, t)' <=> RunBy(r, t)
  BY DEF Quiet, RunBy
<1>4. \A t \in Task : Held(t)' <=> Held(t)
  BY <1>3 DEF Held, Quiet
<1>5. HeldOnce'
  BY <1>3 DEF TaskPart, HeldOnce, Quiet
<1>6. HeldWhenReady'
  BY <1>4 DEF TaskPart, HeldWhenReady, Quiet
<1>7. SkipWhenDone'
  BY DEF TaskPart, SkipWhenDone, Quiet
<1> QED BY <1>1, <1>2, <1>5, <1>6, <1>7 DEF TaskPart

LEMMA LaunchKeeps ==
  ASSUME Shape, TaskPart, NEW A \in SUBSET Task, Launch(A)
  PROVE  TaskPart'
<1> USE DEF Shape, LooseType
<1>0. Runner \subseteq Thread /\ NoTask \notin Task
  BY TaskAssumption DEF Thread
<1>1. done = active /\ \A r \in Runner : pc[r] = "home"
  BY DEF Launch, Activate, MainShape
<1>2. \A t \in Task : ~ Held(t) /\ skip[t]
  BY <1>1 DEF TaskPart, HeldWhenReady, SkipWhenDone
<1>3. \A r \in Runner : pc'[r] = "look"
  BY <1>0 DEF Launch, Activate
<1>4. \A t \in Task : ~ Held(t)'
  BY <1>0, <1>2, <1>3 DEF Held, RunBy, Launch, Activate
<1>5. OwedFinite'
  BY DEF TaskPart, OwedFinite, Owed, Launch, Activate
<1>6. WaitCounts'
  BY DEF WaitCounts, Launch, Activate
<1>7. HeldOnce'
  BY <1>4 DEF HeldOnce, Held
<1>8. HeldWhenReady'
  BY <1>4 DEF HeldWhenReady, Launch, Activate
<1>9. SkipWhenDone'
  <2>1. \A t \in Task : skip'[t] <=> t \notin A
    BY <1>2 DEF Launch, Activate
  <2>2. done' = {} /\ active' = A
    BY DEF Launch, Activate
  <2> QED BY <1>3, <2>1, <2>2 DEF SkipWhenDone
<1> QED BY <1>5, <1>6, <1>7, <1>8, <1>9 DEF TaskPart

LEMMA RewaitKeeps ==
  ASSUME Shape, TaskPart, Rewait
  PROVE  TaskPart'
<1> USE DEF Shape, LooseType
<1>0. Runner \subseteq Thread /\ NoTask \notin Task /\ Thread = Runner \cup Loader
  BY TaskAssumption DEF Thread
<1>1. main = "rewait" /\ tid_active = active /\ done = {} /\ \A t \in active : wait[t] = 0
  BY DEF Rewait, MainShape
<1>2. UNCHANGED <<skip, tid_active, queue, pc, todo, task, next, active, done>>
      /\ main' = "load"
  BY DEF Rewait
<1>3. \A t \in Task : ~ Held(t) /\ ~ Held(t)'
  BY <1>1, <1>2 DEF TaskPart, HeldWhenReady, Held, RunBy
<1>4. \A p \in Thread : todo[p] = <<>>
  BY <1>0, <1>1 DEF TaskPart, SkipWhenDone, MainShape, ThreadShape
<1>5. \A t \in Task : Owed(t)' = {}
  BY <1>2, <1>4 DEF Owed, OwedIn
<1>6. OwedFinite'
  BY <1>5, FS_EmptySet DEF OwedFinite
<1>7. ASSUME NEW t \in active
      PROVE  wait'[t] = StillToCome(t)' /\ wait'[t] # 0
  <2> DEFINE B == {u \in tid_active : t \in UnlockSet(u)}
             C == {u \in Task : t \in UnlockSet(u)}
  <2>0. t \in Task /\ C \in SUBSET Task /\ B \in SUBSET C
    OBVIOUS
  <2>1. Before(t)' = B
    BY <1>1, <1>2 DEF Before
  <2>2. IsFiniteSet(C) /\ Cardinality(C) \in Nat
    BY <2>0, TaskAssumption, FS_Subset, FS_CardinalityType
  <2>3. Cardinality(B) \in Nat /\ Cardinality(B) <= Cardinality(C)
    BY <2>0, <2>2, FS_Subset, FS_CardinalityType
  <2>4. Cardinality(C) + 1 < WaitMax
    BY <2>0, WaitAssumption
  <2> HIDE DEF B, C
  <2>5. 1 + Cardinality(B) \in WaitRange
    BY <2>2, <2>3, <2>4, WaitAssumption DEF WaitRange
  <2>6. wait'[t] = Wrap(0 + 1 + Cardinality(B))
    BY <1>1, <2>0 DEF Rewait, B
  <2>7. wait'[t] = 1 + Cardinality(B)
    BY <2>0, <2>3, <2>5, <2>6, WrapFacts
  <2>8. StillToCome(t)' = 1 + Cardinality(B)
    <3>1. Cardinality(Owed(t)') = 0
      BY <1>5, <2>0, FS_EmptySet
    <3>2. Cardinality(Before(t)') = Cardinality(B)
      BY <2>1
    <3>3. t \in tid_active'
      BY <1>1, <1>2
    <3>4. StillToCome(t)' = 1 + Cardinality(Owed(t)') + Cardinality(Before(t)')
      BY <3>3 DEF StillToCome
    <3> QED BY <2>3, <3>1, <3>2, <3>4
  <2> QED BY <2>3, <2>7, <2>8
<1>8. WaitCounts'
  BY <1>2, <1>7 DEF WaitCounts
<1>9. HeldOnce'
  BY <1>3 DEF HeldOnce, Held
<1>10. HeldWhenReady'
  BY <1>1, <1>2, <1>3, <1>7 DEF HeldWhenReady
<1>11. SkipWhenDone'
  BY <1>2 DEF TaskPart, SkipWhenDone
<1> QED BY <1>6, <1>8, <1>9, <1>10, <1>11 DEF TaskPart

LEMMA LoadKeeps ==
  ASSUME Shape, TaskPart, NEW l \in Loader, NEW t \in Task, Load(l, t)
  PROVE  TaskPart'
<1> USE DEF Shape, LooseType
<1>0. l \in Thread /\ l \notin Runner /\ Runner \subseteq Thread
  BY ThreadAssumption DEF Thread
<1> DEFINE d == [of |-> t, by |-> "start"]
<1>1. todo[l] = <<>> /\ d \in Decrement /\ todo' = [todo EXCEPT ![l] = <<d>>] /\ d.of = t
  BY <1>0 DEF Load, ThreadShape, Decrement
<1>2. UNCHANGED <<skip, wait, queue, task, next, main, active, done>>
      /\ tid_active' = tid_active \ {t} /\ t \in tid_active /\ main = "load"
  BY DEF Load
<1>3. \A r \in Runner : pc'[r] = pc[r]
  BY <1>0 DEF Load, Goto
<1> HIDE DEF d
<1>4. ASSUME NEW u \in Task
      PROVE  /\ u # t => Owed(u)' = Owed(u)
             /\ u = t => <<l, 1>> \notin Owed(u) /\ Owed(u)' = Owed(u) \cup {<<l, 1>>}
             /\ IsFiniteSet(Owed(u)')
  <2>1. Owed(u)' = OwedIn(todo', u)
    BY DEF Owed
  <2>2. /\ u # t => OwedIn(todo', u) = Owed(u)
        /\ u = t => /\ <<l, 1>> \notin Owed(u)
                    /\ OwedIn(todo', u) = Owed(u) \cup {<<l, 1>>}
    <3>1. /\ Len(todo[l]) = 0 /\ Len(todo'[l]) = 1 /\ todo'[l][1].of = t
          /\ \A q \in Thread : q # l => todo'[q] = todo[q]
      BY <1>0, <1>1
    <3> HIDE DEF Shape, LooseType
    <3> QED BY <1>0, <3>1, OwedOne DEF Owed
  <2>3. IsFiniteSet(Owed(u))
    BY CountFacts DEF TaskPart
  <2>4. IsFiniteSet(Owed(u) \cup {<<l, 1>>})
    BY <2>3, FS_AddElement
  <2> HIDE DEF Shape, LooseType
  <2>5. CASE u = t
    BY <2>1, <2>2, <2>4, <2>5
  <2>6. CASE u # t
    BY <2>1, <2>2, <2>3, <2>6
  <2> QED BY <2>5, <2>6
<1>5. OwedFinite'
  BY <1>4 DEF OwedFinite
<1>6. \A u \in Task : Before(u)' = Before(u)
  BY <1>2 DEF Before
<1>7. ASSUME NEW u \in Task PROVE StillToCome(u)' = StillToCome(u)
  <2>1. CASE u # t
    BY <1>2, <1>4, <1>6, <2>1 DEF StillToCome
  <2>2. CASE u = t
    <3>1. Cardinality(Owed(u)') = Cardinality(Owed(u)) + 1
      BY <1>4, <2>2, CountFacts, FS_AddElement DEF TaskPart
    <3> QED BY <1>2, <1>6, <2>2, <3>1, CountFacts DEF StillToCome, TaskPart
  <2> QED BY <2>1, <2>2
<1>8. WaitCounts'
  BY <1>2, <1>7 DEF TaskPart, WaitCounts
<1>9. \A r \in Runner, u \in Task : RunBy(r, u)' <=> RunBy(r, u)
  BY <1>2, <1>3 DEF RunBy
<1>10. \A u \in Task : Held(u)' <=> Held(u)
  BY <1>2, <1>9 DEF Held
<1>11. HeldOnce'
  BY <1>2, <1>9 DEF TaskPart, HeldOnce
<1>12. HeldWhenReady'
  BY <1>2, <1>10 DEF TaskPart, HeldWhenReady
<1>13. SkipWhenDone'
  BY <1>2, <1>3 DEF TaskPart, SkipWhenDone
<1> QED BY <1>5, <1>8, <1>11, <1>12, <1>13 DEF TaskPart

(* A decrement is made: one less to come for its task. *)
LEMMA PoppedOwed ==
  ASSUME Shape, OwedFinite, NEW p \in Thread, todo[p] # <<>>,
         NEW t \in Task, Head(todo[p]).of = t, NEW u \in Task
  PROVE  /\ Popped(p) \in [Thread -> Seq(Decrement)]
         /\ IsFiniteSet(OwedIn(Popped(p), u))
         /\ u # t => OwedIn(Popped(p), u) = Owed(u)
         /\ u = t => /\ Owed(u) # {}
                     /\ Cardinality(OwedIn(Popped(p), u)) = Cardinality(Owed(u)) - 1
<1>1. todo \in [Thread -> Seq(Decrement)]
  BY DEF Shape, LooseType
<1>2. IsFiniteSet(Owed(u)) /\ Cardinality(Owed(u)) \in Nat
  BY CountFacts
<1> DEFINE x == <<p, Len(todo[p])>>
<1>3. /\ Popped(p) \in [Thread -> Seq(Decrement)]
      /\ u # t => OwedIn(Popped(p), u) = Owed(u)
      /\ u = t => x \in Owed(u) /\ OwedIn(Popped(p), u) = Owed(u) \ {x}
  BY <1>1, OwedPop DEF Popped, Owed
<1> HIDE DEF x
<1>4. IsFiniteSet(Owed(u) \ {x}) /\ (x \in Owed(u) => Cardinality(Owed(u) \ {x}) = Cardinality(Owed(u)) - 1)
  BY <1>2, FS_RemoveElement
<1>5. CASE u = t
  BY <1>3, <1>4, <1>5
<1>6. CASE u # t
  BY <1>2, <1>3, <1>6
<1> QED BY <1>5, <1>6

(* 1 for the tasks that t unlocks. *)
Share(t, u) == IF u \in UnlockSet(t) THEN 1 ELSE 0

LEMMA PushedOwed ==
  ASSUME NEW td \in [Thread -> Seq(Decrement)], NEW p \in Thread, NEW t \in Task,
         NEW by \in {"start", "done", "implicit"}, NEW u \in Task,
         IsFiniteSet(OwedIn(td, u))
  PROVE  /\ IsFiniteSet(OwedIn(Pushed(td, p, t, by), u))
         /\ Cardinality(OwedIn(Pushed(td, p, t, by), u))
              = Cardinality(OwedIn(td, u)) + Share(t, u)
<1>0. Cardinality(OwedIn(td, u)) \in Nat
  BY FS_CardinalityType
<1>1. CASE u \in UnlockSet(t)
  <2>1. PICK k \in Nat :
          /\ <<p, k>> \notin OwedIn(td, u)
          /\ OwedIn(Pushed(td, p, t, by), u) = OwedIn(td, u) \cup {<<p, k>>}
    <3>1. OneMore(OwedIn(td, u), OwedIn(Pushed(td, p, t, by), u), p)
      BY <1>1, OwedPush
    <3> QED BY <3>1 DEF OneMore
  <2>2. IsFiniteSet(OwedIn(td, u) \cup {<<p, k>>})
        /\ Cardinality(OwedIn(td, u) \cup {<<p, k>>}) = Cardinality(OwedIn(td, u)) + 1
    BY <2>1, FS_AddElement
  <2> QED BY <1>1, <2>1, <2>2 DEF Share
<1>2. CASE u \notin UnlockSet(t)
  <2>1. OwedIn(Pushed(td, p, t, by), u) = OwedIn(td, u)
    BY <1>2, OwedPush
  <2> QED BY <1>0, <2>1, <1>2 DEF Share
<1> QED BY <1>1, <1>2

(* A task is done: one less before the tasks it unlocks. *)
LEMMA BeforeLoses ==
  ASSUME Shape, NEW t \in active \ done, active' = active, done' = done \cup {t},
         NEW u \in Task
  PROVE  /\ Cardinality(Before(u)) \in Nat
         /\ Cardinality(Before(u)') = Cardinality(Before(u)) - Share(t, u)
<1>1. Before(u) \in SUBSET Task
  BY DEF Before, Shape, LooseType
<1>2. IsFiniteSet(Before(u)) /\ Cardinality(Before(u)) \in Nat
  BY <1>1, TaskAssumption, FS_Subset, FS_CardinalityType
<1>3. CASE u \in UnlockSet(t)
  <2>1. t \in Before(u) /\ Before(u)' = Before(u) \ {t}
    BY <1>3 DEF Before
  <2> QED BY <1>2, <1>3, <2>1, FS_RemoveElement DEF Share
<1>4. CASE u \notin UnlockSet(t)
  <2>1. Before(u)' = Before(u)
    BY <1>4 DEF Before
  <2> QED BY <1>2, <1>4, <2>1 DEF Share
<1> QED BY <1>2, <1>3, <1>4

(* What a decrement finds: the task is still to come, unless it is skipped. *)
LEMMA DecFinds ==
  ASSUME Shape, TaskPart, NEW p \in Thread, NEW t \in Task,
         pc[p] = "decs", todo[p] # <<>>, Head(todo[p]).of = t
  PROVE  /\ main \notin {"idle", "rewait"}
         /\ skip[t] <=> t \notin active
         /\ t \in active => wait[t] = StillToCome(t) /\ wait[t] >= 1
         /\ t \notin done /\ ~ Held(t)
<1>2. main \notin {"idle", "rewait"}
  <2>1. CASE p \in Loader
    BY <2>1 DEF Shape, MainShape
  <2>2. CASE p \in Runner
    BY <2>2 DEF Shape, MainShape, TaskPart, SkipWhenDone
  <2> QED BY <2>1, <2>2 DEF Thread
<1>3. Cardinality(Owed(t)) \in Nat /\ Cardinality(Owed(t)) # 0 /\ Cardinality(Before(t)) \in Nat
  BY PoppedOwed, CountFacts DEF TaskPart
<1>4. StillToCome(t) >= 1
  BY <1>3 DEF StillToCome
<1>5. ASSUME t \in active PROVE wait[t] = StillToCome(t) /\ wait[t] >= 1
  BY <1>2, <1>4, <1>5 DEF TaskPart, WaitCounts
<1>6. t \notin done /\ ~ Held(t)
  BY <1>5 DEF TaskPart, HeldWhenReady
<1>7. skip[t] <=> t \notin active
  BY <1>6 DEF TaskPart, SkipWhenDone
<1> QED BY <1>2, <1>5, <1>6, <1>7

LEMMA DecCounts ==
  ASSUME Shape, TaskPart, NEW p \in Thread, NEW t \in Task, DecOf(p, t)
  PROVE  /\ OwedFinite'
         /\ \A u \in Task : u # t => StillToCome(u)' = StillToCome(u)
         /\ StillToCome(t)' = StillToCome(t) - 1
<1>0. OwedFinite
  BY DEF TaskPart
<1>1. /\ todo[p] # <<>> /\ Head(todo[p]).of = t
      /\ tid_active' = tid_active /\ active' = active
  BY DEF DecOf
<1>2. ASSUME NEW u \in Task
      PROVE  /\ IsFiniteSet(Owed(u)') /\ Cardinality(Owed(u)') \in Nat
             /\ u # t => StillToCome(u)' = StillToCome(u)
             /\ u = t => StillToCome(u)' = StillToCome(u) - 1
  <2>1. /\ Popped(p) \in [Thread -> Seq(Decrement)]
        /\ IsFiniteSet(OwedIn(Popped(p), u))
        /\ u # t => OwedIn(Popped(p), u) = Owed(u)
        /\ u = t => Cardinality(OwedIn(Popped(p), u)) = Cardinality(Owed(u)) - 1
    BY <1>0, <1>1, PoppedOwed
  <2>2. /\ Cardinality(Owed(u)) \in Nat /\ Cardinality(Before(u)) \in Nat
        /\ Cardinality(OwedIn(Popped(p), u)) \in Nat
    BY <1>0, <2>1, CountFacts, FS_CardinalityType
  <2>3. Owed(u)' = OwedIn(todo', u)
    BY DEF Owed
  <2> DEFINE tid == IF u \in tid_active THEN 1 ELSE 0
  <2>4. /\ StillToCome(u) = tid + Cardinality(Owed(u)) + Cardinality(Before(u))
        /\ StillToCome(u)' = tid + Cardinality(Owed(u)') + Cardinality(Before(u)')
        /\ tid \in Nat
    BY <1>1 DEF StillToCome
  <2> HIDE DEF tid
  <2>5. CASE todo' = Popped(p) /\ done' = done
    <3>1. Before(u)' = Before(u)
      BY <1>1, <2>5 DEF Before
    <3>2. Owed(u)' = OwedIn(Popped(p), u)
      BY <2>3, <2>5
    <3> QED BY <2>1, <2>2, <2>4, <3>1, <3>2
  <2>6. CASE DecPass(p, t)
    <3>1. todo' = Pushed(Popped(p), p, t, "implicit") /\ done' = done \cup {t}
      BY <2>6 DEF DecPass
    <3>2. t \in active \ done
      BY <2>6, DecFinds DEF DecPass, DecOf
    <3>3. IsFiniteSet(Owed(u)')
          /\ Cardinality(Owed(u)') = Cardinality(OwedIn(Popped(p), u)) + Share(t, u)
      BY <2>1, <2>3, <3>1, PushedOwed
    <3>4. Cardinality(Before(u)') = Cardinality(Before(u)) - Share(t, u)
      BY <1>1, <3>1, <3>2, BeforeLoses
    <3>5. Share(t, u) \in Nat
      BY DEF Share
    <3> QED BY <2>1, <2>2, <2>4, <3>3, <3>4, <3>5
  <2> QED BY <2>5, <2>6 DEF DecOf, DecSkipped, DecOnly, DecReady
<1>3. OwedFinite'
  BY <1>2 DEF OwedFinite
<1> QED BY <1>2, <1>3

LEMMA DecKeeps ==
  ASSUME Shape, TaskPart, NEW p \in Thread, NEW t \in Task, DecOf(p, t)
  PROVE  TaskPart'
<1>0. /\ wait \in [Task -> WaitRange] /\ skip \in [Task -> BOOLEAN]
      /\ next \in [Thread -> Task \cup {NoTask}] /\ pc[p] = "decs" /\ next[p] = NoTask
      /\ pc \in [Thread -> {"home", "look", "try", "final", "nap", "sleep", "woken",
                            "run", "decs", "insert", "mark"}]
      /\ NoTask \notin Task /\ Runner \subseteq Thread
  BY TaskAssumption DEF Shape, LooseType, ThreadShape, DecOf, Thread
<1>1. /\ UNCHANGED <<tid_active, queue, task, main, active>>
      /\ main \notin {"idle", "rewait"}
      /\ skip[t] <=> t \notin active
      /\ t \in active => wait[t] = StillToCome(t) /\ wait[t] >= 1
      /\ t \notin done /\ ~ Held(t)
  BY DecFinds DEF DecOf
<1>2. OwedFinite'
  BY DecCounts
<1>3. \A u \in Task : u # t => StillToCome(u)' = StillToCome(u)
  BY DecCounts
<1>4. t \in active => StillToCome(t)' = wait[t] - 1
  BY <1>1, DecCounts
<1>5. t \in active => Decremented(t)[t] = wait[t] - 1
  <2>1. ASSUME t \in active PROVE wait[t] - 1 \in WaitRange
    BY <1>0, <1>1, <2>1, WaitAssumption DEF WaitRange
  <2> QED BY <1>0, <2>1, WrapFacts DEF Decremented
<1>6. \A u \in Task : u # t => Decremented(t)[u] = wait[u]
  BY <1>0 DEF Decremented
<1>7. \A r \in Runner : /\ pc'[r] = "run" <=> pc[r] = "run"
                        /\ pc'[r] \in {"decs", "insert", "mark"} <=>
                             pc[r] \in {"decs", "insert", "mark"}
  BY <1>0 DEF DecOf, DecSkipped, DecOnly, DecPass, DecReady
<1>8. \A r \in Runner, u \in Task : RunBy(r, u)' <=> RunBy(r, u)
  BY <1>1, <1>7 DEF RunBy
<1> HIDE DEF Decremented
<1>9. CASE DecSkipped(p, t)
  <2>1. UNCHANGED <<skip, wait, next, done>> /\ t \notin active
    BY <1>1, <1>9 DEF DecSkipped
  <2>2. \A u \in Task : Held(u)' <=> Held(u)
    BY <1>1, <1>8, <2>1 DEF Held
  <2>3. WaitCounts'
    BY <1>1, <1>3, <2>1 DEF WaitCounts, TaskPart, Shape, LooseType
  <2>4. HeldOnce'
    BY <1>1, <1>8, <2>1 DEF HeldOnce, TaskPart
  <2>5. HeldWhenReady'
    BY <1>1, <2>1, <2>2 DEF HeldWhenReady, TaskPart
  <2>6. SkipWhenDone'
    BY <1>1, <1>7, <2>1 DEF SkipWhenDone, TaskPart
  <2> QED BY <1>2, <2>3, <2>4, <2>5, <2>6 DEF TaskPart
<1>10. CASE DecOnly(p, t)
  <2>1. /\ UNCHANGED <<skip, next, done>> /\ wait' = Decremented(t)
        /\ wait[t] # 1 \/ t \notin active
    BY <1>1, <1>10 DEF DecOnly
  <2>2. \A u \in Task : Held(u)' <=> Held(u)
    BY <1>1, <1>8, <2>1 DEF Held
  <2>3. WaitCounts'
    BY <1>1, <1>3, <1>4, <1>5, <1>6, <2>1 DEF WaitCounts, TaskPart, Shape, LooseType
  <2>4. HeldOnce'
    BY <1>1, <1>8, <2>1 DEF HeldOnce, TaskPart
  <2>5. HeldWhenReady'
    <3>1. t \in active => wait'[t] # 0
      BY <1>0, <1>1, <1>5, <2>1, WaitAssumption DEF WaitRange
    <3>2. \A u \in Task : u # t => wait'[u] = wait[u]
      BY <1>6, <2>1
    <3> QED BY <1>1, <2>1, <2>2, <3>1, <3>2 DEF HeldWhenReady, TaskPart
  <2>6. SkipWhenDone'
    BY <1>1, <1>7, <2>1 DEF SkipWhenDone, TaskPart
  <2> QED BY <1>2, <2>3, <2>4, <2>5, <2>6 DEF TaskPart
<1>11. CASE DecPass(p, t)
  <2>1. /\ UNCHANGED next /\ wait' = Decremented(t) /\ wait[t] = 1 /\ t \in active
        /\ done' = done \cup {t} /\ skip' = [skip EXCEPT ![t] = TRUE]
    BY <1>1, <1>11 DEF DecPass
  <2>2. \A u \in Task : Held(u)' <=> Held(u)
    BY <1>1, <1>8, <2>1 DEF Held
  <2>3. WaitCounts'
    BY <1>1, <1>3, <1>4, <1>5, <1>6, <2>1 DEF WaitCounts, TaskPart, Shape, LooseType
  <2>4. HeldOnce'
    BY <1>1, <1>8, <2>1 DEF HeldOnce, TaskPart
  <2>5. HeldWhenReady'
    <3>1. wait'[t] = 0
      BY <1>5, <2>1
    <3>2. \A u \in Task : u # t => wait'[u] = wait[u] /\ (u \in done' <=> u \in done)
      BY <1>6, <2>1
    <3> QED BY <1>1, <2>1, <2>2, <3>1, <3>2 DEF HeldWhenReady, TaskPart
  <2>6. SkipWhenDone'
    <3>1. skip'[t] /\ \A u \in Task : u # t => skip'[u] = skip[u]
      BY <1>0, <2>1
    <3> QED BY <1>1, <1>7, <2>1, <3>1 DEF SkipWhenDone, TaskPart
  <2> QED BY <1>2, <2>3, <2>4, <2>5, <2>6 DEF TaskPart
<1>12. CASE DecReady(p, t)
  <2>1. /\ UNCHANGED <<skip, done>> /\ wait' = Decremented(t) /\ wait[t] = 1
        /\ t \in active /\ t \notin Implicit /\ next' = [next EXCEPT ![p] = t]
    BY <1>1, <1>12 DEF DecReady
  <2>2. next'[p] = t /\ \A o \in Thread : o # p => next'[o] = next[o]
    BY <1>0, <2>1
  <2>3. Held(t)' /\ \A u \in Task : u # t => (Held(u)' <=> Held(u))
    BY <1>0, <1>1, <1>8, <2>2 DEF Held
  <2>4. WaitCounts'
    BY <1>1, <1>3, <1>4, <1>5, <1>6, <2>1 DEF WaitCounts, TaskPart, Shape, LooseType
  <2>5. HeldOnce'
    <3>1. /\ \A o \in Thread : next[o] # t
          /\ \A q \in Queue : t \notin queue[q]
          /\ \A r \in Runner : ~ RunBy(r, t)
      BY <1>1 DEF Held
    <3>2. ASSUME NEW u \in Task, u # t
          PROVE  \A o \in Thread : next'[o] = u <=> next[o] = u
      BY <1>0, <2>2, <3>2
    <3> QED BY <1>1, <1>8, <2>2, <3>1, <3>2 DEF HeldOnce, TaskPart
  <2>6. HeldWhenReady'
    <3>1. wait'[t] = 0
      BY <1>5, <2>1
    <3>2. \A u \in Task : u # t => wait'[u] = wait[u]
      BY <1>6, <2>1
    <3> QED BY <1>1, <2>1, <2>3, <3>1, <3>2 DEF HeldWhenReady, TaskPart
  <2>7. SkipWhenDone'
    BY <1>1, <1>7, <2>1 DEF SkipWhenDone, TaskPart
  <2> QED BY <1>2, <2>4, <2>5, <2>6, <2>7 DEF TaskPart
<1> QED BY <1>9, <1>10, <1>11, <1>12 DEF DecOf

(* A task moves from a thread's hands to a queue, or from there to a runner. *)
LEMMA InsertKeeps ==
  ASSUME Shape, TaskPart, NEW p \in Thread, NEW q \in Queue, Insert(p, q)
  PROVE  TaskPart'
<1>0. /\ next \in [Thread -> Task \cup {NoTask}] /\ queue \in [Queue -> SUBSET Task]
      /\ pc \in [Thread -> {"home", "look", "try", "final", "nap", "sleep", "woken",
                            "run", "decs", "insert", "mark"}]
      /\ NoTask \notin Task /\ Runner \subseteq Thread
  BY TaskAssumption DEF Shape, LooseType, Thread
<1>1. /\ UNCHANGED <<skip, wait, tid_active, todo, task, main, active, done>>
      /\ pc[p] = "insert" /\ pc' = [pc EXCEPT ![p] = "decs"]
      /\ next' = [next EXCEPT ![p] = NoTask]
      /\ queue' = [queue EXCEPT ![q] = @ \cup {next[p]}]
  BY DEF Insert, Goto
<1>2. PICK t \in Task : next[p] = t
  BY <1>0, <1>1 DEF Shape, ThreadShape
<1>3. /\ next'[p] = NoTask /\ \A o \in Thread : o # p => next'[o] = next[o]
      /\ queue'[q] = queue[q] \cup {t} /\ \A o \in Queue : o # q => queue'[o] = queue[o]
  BY <1>0, <1>1, <1>2
<1>4. \A r \in Runner : /\ pc'[r] = "run" <=> pc[r] = "run"
                        /\ pc'[r] \in {"decs", "insert", "mark"} <=>
                             pc[r] \in {"decs", "insert", "mark"}
  BY <1>0, <1>1
<1>5. \A r \in Runner, u \in Task : RunBy(r, u)' <=> RunBy(r, u)
  BY <1>1, <1>4 DEF RunBy
<1>6. \A u \in Task : Held(u)' <=> Held(u)
  <2>1. Held(t) /\ Held(t)'
    BY <1>2, <1>3 DEF Held
  <2>2. ASSUME NEW u \in Task, u # t PROVE Held(u)' <=> Held(u)
    BY <1>0, <1>2, <1>3, <1>5, <2>2 DEF Held
  <2> QED BY <2>1, <2>2
<1>7. OwedFinite'
  BY <1>1 DEF TaskPart, OwedFinite, Owed
<1>8. WaitCounts'
  BY <1>1 DEF TaskPart, WaitCounts, StillToCome, Owed, Before
<1>9. HeldOnce'
  <2>1. /\ \A o \in Thread : next'[o] # t
        /\ \A o \in Queue : t \in queue'[o] => o = q
        /\ \A r \in Runner : ~ RunBy(r, t)'
    BY <1>0, <1>2, <1>3, <1>5 DEF TaskPart, HeldOnce
  <2>2. ASSUME NEW u \in Task, u # t
        PROVE  /\ \A o \in Thread : next'[o] = u <=> next[o] = u
               /\ \A o \in Queue : u \in queue'[o] <=> u \in queue[o]
    BY <1>0, <1>2, <1>3, <2>2
  <2> QED BY <1>5, <2>1, <2>2 DEF TaskPart, HeldOnce
<1>10. HeldWhenReady'
  BY <1>1, <1>6 DEF TaskPart, HeldWhenReady
<1>11. SkipWhenDone'
  BY <1>1, <1>4 DEF TaskPart, SkipWhenDone
<1> QED BY <1>7, <1>8, <1>9, <1>10, <1>11 DEF TaskPart

LEMMA TakeKeeps ==
  ASSUME Shape, TaskPart, NEW r \in Runner, NEW q \in Queue, NEW t \in Task, Take(r, q, t)
  PROVE  TaskPart'
<1>0. /\ queue \in [Queue -> SUBSET Task] /\ task \in [Thread -> Task \cup {NoTask}]
      /\ pc \in [Thread -> {"home", "look", "try", "final", "nap", "sleep", "woken",
                            "run", "decs", "insert", "mark"}]
      /\ NoTask \notin Task /\ Runner \subseteq Thread
  BY TaskAssumption DEF Shape, LooseType, Thread
<1>1. /\ UNCHANGED <<skip, wait, tid_active, todo, next, main, active, done>>
      /\ pc[r] \in {"try", "final"} /\ pc' = [pc EXCEPT ![r] = "run"]
      /\ task' = [task EXCEPT ![r] = t]
      /\ t \in queue[q] /\ queue' = [queue EXCEPT ![q] = @ \ {t}]
  BY DEF Take, TakeFrom, Goto
<1>2. /\ queue'[q] = queue[q] \ {t} /\ \A o \in Queue : o # q => queue'[o] = queue[o]
      /\ pc'[r] = "run" /\ task'[r] = t
      /\ \A o \in Runner : o # r => pc'[o] = pc[o] /\ task'[o] = task[o]
  BY <1>0, <1>1
<1>3. /\ RunBy(r, t)'
      /\ \A u \in Task : ~ RunBy(r, u) /\ (u # t => ~ RunBy(r, u)')
      /\ \A o \in Runner, u \in Task : o # r => (RunBy(o, u)' <=> RunBy(o, u))
  BY <1>1, <1>2 DEF RunBy
<1>4. /\ \A o \in Thread : next[o] # t
      /\ \A o \in Queue : o # q => t \notin queue[o]
      /\ \A o \in Runner : ~ RunBy(o, t)
  BY <1>1 DEF TaskPart, HeldOnce
<1>5. ASSUME NEW u \in Task, u # t
      PROVE  /\ \A o \in Runner : RunBy(o, u)' <=> RunBy(o, u)
             /\ \A o \in Queue : u \in queue'[o] <=> u \in queue[o]
  BY <1>2, <1>3, <1>5
<1>6. \A u \in Task : Held(u)' <=> Held(u)
  <2>1. Held(t) /\ Held(t)'
    BY <1>1, <1>3 DEF Held
  <2> QED BY <1>1, <1>5, <2>1 DEF Held
<1>7. OwedFinite'
  BY <1>1 DEF TaskPart, OwedFinite, Owed
<1>8. WaitCounts'
  BY <1>1 DEF TaskPart, WaitCounts, StillToCome, Owed, Before
<1>9. HeldOnce'
  <2>1. /\ \A o \in Thread : next'[o] # t
        /\ \A o \in Queue : t \notin queue'[o]
        /\ \A o \in Runner : RunBy(o, t)' => o = r
    BY <1>1, <1>2, <1>3, <1>4
  <2> QED BY <1>1, <1>5, <2>1 DEF TaskPart, HeldOnce
<1>10. HeldWhenReady'
  BY <1>1, <1>6 DEF TaskPart, HeldWhenReady
<1>11. SkipWhenDone'
  <2>1. \A o \in Runner : /\ o # r => pc'[o] = pc[o] /\ task'[o] = task[o]
                          /\ pc'[r] \notin {"decs", "insert", "mark"}
                          /\ pc[r] \notin {"decs", "insert", "mark"}
    BY <1>1, <1>2
  <2> QED BY <1>1, <2>1 DEF TaskPart, SkipWhenDone
<1> QED BY <1>7, <1>8, <1>9, <1>10, <1>11 DEF TaskPart

LEMMA FinishKeeps ==
  ASSUME Shape, TaskPart, NEW r \in Runner, Finish(r)
  PROVE  TaskPart'
<1>0. /\ task \in [Thread -> Task \cup {NoTask}] /\ todo \in [Thread -> Seq(Decrement)]
      /\ pc \in [Thread -> {"home", "look", "try", "final", "nap", "sleep", "woken",
                            "run", "decs", "insert", "mark"}]
      /\ NoTask \notin Task /\ Runner \subseteq Thread
  BY TaskAssumption DEF Shape, LooseType, Thread
<1>1. PICK t \in Task : task[r] = t
  BY <1>0 DEF Shape, ThreadShape, Finish
<1>2. /\ UNCHANGED <<skip, wait, tid_active, queue, task, next, main, active>>
      /\ pc[r] = "run" /\ pc' = [pc EXCEPT ![r] = "decs"] /\ done' = done \cup {t}
      /\ todo' = [todo EXCEPT ![r] = DecrementsOf(t, "done")]
  BY <1>1 DEF Finish, Goto
<1>3. todo[r] = <<>> /\ r \in Thread
  BY <1>0, <1>2 DEF Shape, ThreadShape
<1>4. todo' = Pushed(todo, r, t, "done")
  <2>1. DecrementsOf(t, "done") \in Seq(Decrement)
    BY DecrementsFacts
  <2>2. DecrementsOf(t, "done") \o todo[r] = DecrementsOf(t, "done")
    BY <1>3, <2>1, ConcatEmptySeq
  <2> QED BY <1>2, <2>2 DEF Pushed
<1>5. RunBy(r, t) /\ Held(t) /\ t \in active \ done /\ wait[t] = 0 /\ main # "rewait"
  BY <1>1, <1>2 DEF RunBy, Held, TaskPart, HeldWhenReady
<1>6. ASSUME NEW u \in Task
      PROVE  IsFiniteSet(Owed(u)') /\ StillToCome(u)' = StillToCome(u)
  <2>1. /\ IsFiniteSet(Owed(u)) /\ Cardinality(Owed(u)) \in Nat
        /\ Cardinality(Before(u)) \in Nat
    BY CountFacts DEF TaskPart
  <2>2. IsFiniteSet(Owed(u)') /\ Cardinality(Owed(u)') = Cardinality(Owed(u)) + Share(t, u)
    BY <1>0, <1>3, <1>4, <2>1, PushedOwed DEF Owed
  <2>3. Cardinality(Before(u)') = Cardinality(Before(u)) - Share(t, u)
    BY <1>2, <1>5, BeforeLoses
  <2>4. Share(t, u) \in Nat /\ tid_active' = tid_active
    BY <1>2 DEF Share
  <2> QED BY <2>1, <2>2, <2>3, <2>4 DEF StillToCome
<1>7. OwedFinite'
  BY <1>6 DEF OwedFinite
<1>8. WaitCounts'
  BY <1>2, <1>6 DEF TaskPart, WaitCounts, Shape, LooseType
<1>9. /\ \A u \in Task : ~ RunBy(r, u)' /\ (u # t => ~ RunBy(r, u))
      /\ \A o \in Runner, u \in Task : o # r => (RunBy(o, u)' <=> RunBy(o, u))
  BY <1>0, <1>1, <1>2 DEF RunBy
<1>10. /\ \A o \in Thread : next[o] # t
       /\ \A o \in Queue : t \notin queue[o]
       /\ \A o \in Runner : RunBy(o, t) => o = r
  BY <1>5 DEF TaskPart, HeldOnce
<1>11. ~ Held(t)' /\ \A u \in Task : u # t => (Held(u)' <=> Held(u))
  BY <1>2, <1>9, <1>10 DEF Held
<1>12. HeldOnce'
  BY <1>2, <1>9 DEF TaskPart, HeldOnce
<1>13. HeldWhenReady'
  BY <1>2, <1>5, <1>11 DEF TaskPart, HeldWhenReady
<1>14. SkipWhenDone'
  <2>1. pc'[r] = "decs" /\ \A o \in Runner : o # r => pc'[o] = pc[o]
    BY <1>0, <1>2
  <2> QED BY <1>1, <1>2, <1>5, <2>1 DEF TaskPart, SkipWhenDone
<1> QED BY <1>7, <1>8, <1>12, <1>13, <1>14 DEF TaskPart

LEMMA MarkKeeps ==
  ASSUME Shape, TaskPart, NEW r \in Runner, Mark(r)
  PROVE  TaskPart'
<1>0. /\ task \in [Thread -> Task \cup {NoTask}] /\ skip \in [Task -> BOOLEAN]
      /\ pc \in [Thread -> {"home", "look", "try", "final", "nap", "sleep", "woken",
                            "run", "decs", "insert", "mark"}]
      /\ NoTask \notin Task /\ Runner \subseteq Thread
  BY TaskAssumption DEF Shape, LooseType, Thread
<1>1. PICK t \in Task : task[r] = t
  BY <1>0 DEF Shape, ThreadShape, Mark
<1>2. /\ UNCHANGED <<wait, tid_active, queue, todo, next, main, active, done>>
      /\ pc[r] = "mark" /\ pc' = [pc EXCEPT ![r] = "look"]
      /\ skip' = [skip EXCEPT ![t] = TRUE] /\ task' = [task EXCEPT ![r] = NoTask]
  BY <1>1 DEF Mark, Goto
<1>3. /\ pc'[r] = "look" /\ \A o \in Runner : o # r => pc'[o] = pc[o] /\ task'[o] = task[o]
      /\ skip'[t] /\ \A u \in Task : u # t => skip'[u] = skip[u]
  BY <1>0, <1>2
<1>4. t \in done
  BY <1>1, <1>2 DEF TaskPart, SkipWhenDone
<1>5. \A o \in Runner, u \in Task : RunBy(o, u)' <=> RunBy(o, u)
  BY <1>2, <1>3 DEF RunBy
<1>6. \A u \in Task : Held(u)' <=> Held(u)
  BY <1>2, <1>5 DEF Held
<1>7. OwedFinite'
  BY <1>2 DEF TaskPart, OwedFinite, Owed
<1>8. WaitCounts'
  BY <1>2 DEF TaskPart, WaitCounts, StillToCome, Owed, Before
<1>9. HeldOnce'
  BY <1>2, <1>5 DEF TaskPart, HeldOnce
<1>10. HeldWhenReady'
  BY <1>2, <1>6 DEF TaskPart, HeldWhenReady
<1>11. SkipWhenDone'
  BY <1>1, <1>2, <1>3, <1>4 DEF TaskPart, SkipWhenDone
<1> QED BY <1>7, <1>8, <1>9, <1>10, <1>11 DEF TaskPart

LEMMA TaskPartStep ==
  ASSUME IInv, Next
  PROVE  TaskPart'
<1>0. Shape /\ TaskPart
  BY DEF IInv, TaskPart
<1>1. ASSUME NEW p \in Thread, Dec(p) PROVE TaskPart'
  <2>1. PICK t \in Task : DecOf(p, t)
    BY <1>0, <1>1, DecCases DEF Shape
  <2> QED BY <1>0, <2>1, DecKeeps
<1>2. CASE Loaded \/ Flush \/ Unguard \/ Join \/ \E p \in Thread : QuietThread(p)
  BY <1>0, <1>2, QuietSteps, QuietKeeps
<1> QED BY <1>0, <1>1, <1>2, StepCases, LaunchKeeps, RewaitKeeps, LoadKeeps,
           InsertKeeps, TakeKeeps, FinishKeeps, MarkKeeps

-----------------------------------------------------------------------------
(***************************************************************************)
(* waiting.                                                                *)
(***************************************************************************)
InQueues == UNION {queue[q] : q \in Queue}

InHands == {p \in Thread : next[p] # NoTask}

OnRunners == {r \in Runner : pc[r] \in {"run", "decs", "insert"} /\ task[r] # NoTask}

Guards == IF main \in {"idle", "join"} THEN 0 ELSE 1

Balance ==
  waiting = Cardinality(InQueues) + Cardinality(InHands) + Cardinality(OnRunners) + Guards

LEMMA FlightFacts ==
  ASSUME Shape
  PROVE  /\ IsFiniteSet(InQueues) /\ Cardinality(InQueues) \in Nat
         /\ IsFiniteSet(InHands) /\ Cardinality(InHands) \in Nat
         /\ IsFiniteSet(OnRunners) /\ Cardinality(OnRunners) \in Nat
<1>1. InQueues \in SUBSET Task
  BY DEF InQueues, Shape, LooseType
<1>2. InHands \in SUBSET Thread /\ OnRunners \in SUBSET Thread
  BY DEF InHands, OnRunners, Thread
<1> QED BY <1>1, <1>2, TaskAssumption, ThreadAssumption, FS_Subset, FS_CardinalityType

LEMMA FlightSum == WaitingIsInFlight <=> Balance
BY DEF Balance, WaitingIsInFlight, InFlight, InQueues, InHands, OnRunners, Guards

LEMMA FlightStep ==
  ASSUME IInv, Next
  PROVE  WaitingIsInFlight'
<1> DEFINE cq == Cardinality(InQueues)
           ch == Cardinality(InHands)
           cr == Cardinality(OnRunners)
<1>0. /\ Shape /\ TaskPart
      /\ Balance
      /\ IsFiniteSet(InQueues) /\ cq \in Nat
      /\ IsFiniteSet(InHands) /\ ch \in Nat
      /\ IsFiniteSet(OnRunners) /\ cr \in Nat
      /\ Guards \in Nat
  BY FlightFacts, FlightSum DEF IInv, TaskPart, Guards
<1>0a. /\ Runner \subseteq Thread /\ Loader \subseteq Thread /\ Thread = Runner \cup Loader
       /\ Runner \cap Loader = {} /\ NoTask \notin Task
  BY ThreadAssumption, TaskAssumption DEF Thread
<1>0b. /\ pc \in [Thread -> {"home", "look", "try", "final", "nap", "sleep", "woken",
                            "run", "decs", "insert", "mark"}]
       /\ queue \in [Queue -> SUBSET Task] /\ task \in [Thread -> Task \cup {NoTask}]
       /\ next \in [Thread -> Task \cup {NoTask}]
  BY <1>0 DEF Shape, LooseType
<1> USE DEF Balance
<1> SUFFICES Balance'
  BY DEF WaitingIsInFlight, InFlight, InQueues, InHands, OnRunners, Guards
<1>1. ASSUME UNCHANGED <<queue, next, task, Guards, waiting>>,
             \A r \in Runner : pc'[r] \in {"run", "decs", "insert"} <=>
                                 pc[r] \in {"run", "decs", "insert"}
      PROVE  Balance'
  <2>1. InQueues' = InQueues /\ InHands' = InHands
    BY <1>1 DEF InQueues, InHands
  <2>2. OnRunners' = OnRunners
    BY <1>1 DEF OnRunners
  <2> QED BY <1>0, <1>1, <2>1, <2>2
<1>2. ASSUME NEW A \in SUBSET Task, Launch(A)
      PROVE  Balance'
  <2>1. InQueues' = InQueues /\ InHands' = InHands
    BY <1>2 DEF Launch, Activate, InQueues, InHands
  <2>2. OnRunners' = OnRunners
    BY <1>0a, <1>2 DEF Launch, Activate, OnRunners
  <2>3. Guards = 0 /\ Guards' = 1 /\ waiting' = waiting + 1
    BY <1>2 DEF Launch, Activate, Guards
  <2> QED BY <1>0, <2>1, <2>2, <2>3
<1>3. CASE Rewait \/ Loaded \/ Flush \/ Join
  <2>1. UNCHANGED <<queue, next, task, waiting>>
    BY <1>3 DEF Rewait, Loaded, Flush, Join
  <2>2. Guards' = Guards
    BY <1>3 DEF Rewait, Loaded, Flush, Join, Guards
  <2>3. \A r \in Runner : pc'[r] \in {"run", "decs", "insert"} <=>
                            pc[r] \in {"run", "decs", "insert"}
    BY <1>3, <1>0a DEF Rewait, Loaded, Flush, Join, Broadcast
  <2> QED BY <1>1, <2>1, <2>2, <2>3
<1>4. CASE Unguard
  <2>1. InQueues' = InQueues /\ InHands' = InHands
    BY <1>4 DEF Unguard, InQueues, InHands
  <2>2. OnRunners' = OnRunners
    BY <1>0a, <1>4 DEF Unguard, Broadcast, OnRunners
  <2>3. Guards = 1 /\ Guards' = 0 /\ waiting' = waiting - 1
    BY <1>4 DEF Unguard, Guards
  <2> QED BY <1>0, <2>1, <2>2, <2>3
<1>5. ASSUME NEW r \in Runner, Signal(r)
      PROVE  Balance'
  <2>1. InQueues' = InQueues /\ InHands' = InHands /\ Guards' = Guards
        /\ waiting' = waiting - 1
    BY <1>5 DEF Signal, InQueues, InHands, Guards
  <2>2. r \in OnRunners
    BY <1>0, <1>0a, <1>5 DEF Signal, OnRunners, Shape, ThreadShape
  <2>3. OnRunners' = OnRunners \ {r}
    BY <1>0a, <1>5 DEF Signal, BroadcastGoto, OnRunners
  <2>4. Cardinality(OnRunners') = cr - 1
    BY <1>0, <2>2, <2>3, FS_RemoveElement
  <2> QED BY <1>0, <2>1, <2>4
<1>6. ASSUME NEW p \in Thread, QuietThread(p), ~ (p \in Runner /\ Signal(p))
      PROVE  Balance'
  <2>0. ~ Signal(p)
    BY <1>6 DEF Signal
  <2> USE DEF QuietThread, LoaderDone, Look, GetNothing, Nap, SpuriousWakeup, Woken,
              Goto, BroadcastGoto
  <2>1. UNCHANGED <<queue, next, task, waiting, main>>
    BY <1>6, <2>0
  <2>2. Guards' = Guards
    BY <2>1 DEF Guards
  <2>3. ASSUME NEW r \in Runner
        PROVE  pc'[r] \in {"run", "decs", "insert"} <=> pc[r] \in {"run", "decs", "insert"}
    BY <1>6, <2>0, <1>0a, <1>0b
  <2> QED BY <1>1, <2>1, <2>2, <2>3
<1>7. ASSUME NEW l \in Loader, NEW t \in Task, Load(l, t)
      PROVE  Balance'
  <2>1. UNCHANGED <<queue, next, task, waiting>> /\ Guards' = Guards
    BY <1>7 DEF Load, Guards
  <2>2. \A r \in Runner : pc'[r] = pc[r]
    BY <1>7, <1>0a, <1>0b DEF Load, Goto
  <2> QED BY <1>1, <2>1, <2>2
<1>8. ASSUME NEW p \in Thread, NEW t \in Task, DecOf(p, t)
      PROVE  Balance'
  <2>1. UNCHANGED <<queue, task, main>> /\ Guards' = Guards /\ pc[p] = "decs"
    BY <1>8 DEF DecOf, Guards
  <2>2. CASE DecReady(p, t)
    <3>1. next[p] = NoTask /\ next' = [next EXCEPT ![p] = t] /\ waiting' = waiting + 1
          /\ pc' = [pc EXCEPT ![p] = "insert"]
      BY <1>0, <2>1, <2>2 DEF DecReady, Shape, ThreadShape
    <3>2. p \notin InHands /\ InHands' = InHands \cup {p}
      BY <1>0a, <1>0b, <3>1 DEF InHands
    <3>3. Cardinality(InHands') = ch + 1
      BY <1>0, <3>2, FS_AddElement
    <3>4. InQueues' = InQueues
      BY <2>1 DEF InQueues
    <3>5. OnRunners' = OnRunners
      BY <1>0b, <1>0a, <2>1, <3>1 DEF OnRunners
    <3> QED BY <1>0, <2>1, <3>1, <3>3, <3>4, <3>5
  <2>3. CASE DecSkipped(p, t) \/ DecOnly(p, t) \/ DecPass(p, t)
    BY <1>1, <2>1, <2>3 DEF DecSkipped, DecOnly, DecPass
  <2> QED BY <1>8, <2>2, <2>3 DEF DecOf
<1>9. ASSUME NEW p \in Thread, NEW q \in Queue, Insert(p, q)
      PROVE  Balance'
  <2>1. /\ UNCHANGED <<task, waiting>> /\ Guards' = Guards /\ pc[p] = "insert"
        /\ pc' = [pc EXCEPT ![p] = "decs"] /\ next' = [next EXCEPT ![p] = NoTask]
        /\ queue' = [queue EXCEPT ![q] = @ \cup {next[p]}]
    BY <1>9 DEF Insert, Goto, Guards
  <2>2. PICK t \in Task : next[p] = t
    BY <1>0, <1>0b, <2>1 DEF Shape, ThreadShape
  <2>3. p \in InHands /\ InHands' = InHands \ {p}
    BY <1>0a, <1>0b, <2>1, <2>2 DEF InHands
  <2>4. t \notin InQueues
    BY <1>0, <2>2 DEF InQueues, TaskPart, HeldOnce
  <2>5. InQueues' = InQueues \cup {t}
    <3>1. queue'[q] = queue[q] \cup {t} /\ \A o \in Queue : o # q => queue'[o] = queue[o]
      BY <1>0b, <2>1, <2>2
    <3> QED BY <3>1 DEF InQueues
  <2>6. OnRunners' = OnRunners
    BY <1>0b, <1>0a, <2>1 DEF OnRunners
  <2>7. Cardinality(InHands') = ch - 1 /\ Cardinality(InQueues') = cq + 1
    BY <1>0, <2>3, <2>4, <2>5, FS_AddElement, FS_RemoveElement
  <2> QED BY <1>0, <2>1, <2>6, <2>7
<1>10. ASSUME NEW r \in Runner, NEW q \in Queue, NEW t \in Task, Take(r, q, t)
       PROVE  Balance'
  <2>1. /\ UNCHANGED <<next, waiting>> /\ Guards' = Guards /\ pc[r] \in {"try", "final"}
        /\ pc' = [pc EXCEPT ![r] = "run"] /\ task' = [task EXCEPT ![r] = t]
        /\ t \in queue[q] /\ queue' = [queue EXCEPT ![q] = @ \ {t}]
    BY <1>10 DEF Take, TakeFrom, Goto, Guards
  <2>2. InHands' = InHands
    BY <2>1 DEF InHands
  <2>3. t \in InQueues /\ InQueues' = InQueues \ {t}
    <3>1. queue'[q] = queue[q] \ {t} /\ \A o \in Queue : o # q => queue'[o] = queue[o]
      BY <1>0b, <2>1
    <3>2. \A o \in Queue : o # q => t \notin queue[o]
      BY <1>0, <2>1 DEF TaskPart, HeldOnce
    <3> QED BY <2>1, <3>1, <3>2 DEF InQueues
  <2>4. r \notin OnRunners /\ OnRunners' = OnRunners \cup {r}
    BY <1>0a, <1>0b, <2>1 DEF OnRunners
  <2>5. Cardinality(InQueues') = cq - 1 /\ Cardinality(OnRunners') = cr + 1
    BY <1>0, <2>3, <2>4, FS_AddElement, FS_RemoveElement
  <2> QED BY <1>0, <2>1, <2>2, <2>5
<1>11. ASSUME NEW r \in Runner, Finish(r)
       PROVE  Balance'
  <2>1. UNCHANGED <<queue, next, task, waiting>> /\ Guards' = Guards
    BY <1>11 DEF Finish, Guards
  <2>2. \A o \in Runner : pc'[o] \in {"run", "decs", "insert"} <=>
                            pc[o] \in {"run", "decs", "insert"}
    BY <1>11, <1>0a, <1>0b DEF Finish, Goto
  <2> QED BY <1>1, <2>1, <2>2
<1>12. ASSUME NEW r \in Runner, Mark(r)
       PROVE  Balance'
  <2>1. UNCHANGED <<queue, next, waiting>> /\ Guards' = Guards
    BY <1>12 DEF Mark, Guards
  <2>2. InQueues' = InQueues /\ InHands' = InHands
    BY <2>1 DEF InQueues, InHands
  <2>3. OnRunners' = OnRunners
    BY <1>0a, <1>0b, <1>12 DEF Mark, Goto, OnRunners
  <2> QED BY <1>0, <2>1, <2>2, <2>3
<1>13. ASSUME NEW p \in Thread, Dec(p)
       PROVE  Balance'
  <2>1. PICK t \in Task : DecOf(p, t)
    BY <1>0, <1>13, DecCases DEF Shape
  <2> QED BY <1>8, <2>1
<1> QED BY <1>2, <1>3, <1>4, <1>5, <1>6, <1>7, <1>9, <1>10, <1>11, <1>12, <1>13, StepCases

-----------------------------------------------------------------------------
(***************************************************************************)
(* A runner finds waiting at 0: nothing is held and no decrement is left,  *)
(* so a task that is not done would have another one before it, and so on, *)
(* which the tasks' order rules out.                                       *)
(***************************************************************************)
LEMMA NothingWaiting ==
  ASSUME IInv, main # "idle", ~ (waiting > 0)
  PROVE  tid_active = {} /\ done = active
<1>0. /\ Shape /\ TaskPart /\ Balance
      /\ IsFiniteSet(InQueues) /\ Cardinality(InQueues) \in Nat
      /\ IsFiniteSet(InHands) /\ Cardinality(InHands) \in Nat
      /\ IsFiniteSet(OnRunners) /\ Cardinality(OnRunners) \in Nat
  BY FlightFacts, FlightSum DEF IInv, TaskPart
<1>1. /\ main = "join"
      /\ Cardinality(InQueues) = 0 /\ Cardinality(InHands) = 0 /\ Cardinality(OnRunners) = 0
  <2>1. Guards \in Nat /\ (Guards = 0 => main = "join")
    BY DEF Guards
  <2>2. /\ Guards = 0 /\ Cardinality(InQueues) = 0 /\ Cardinality(InHands) = 0
        /\ Cardinality(OnRunners) = 0
    BY <1>0, <2>1 DEF Balance
  <2> QED BY <2>1, <2>2
<1>2. InQueues = {} /\ InHands = {} /\ OnRunners = {}
  BY <1>0, <1>1, FS_EmptySet
<1>3. tid_active = {} /\ \A l \in Loader : pc[l] = "home"
  BY <1>0, <1>1 DEF Shape, MainShape
<1>4. ASSUME NEW t \in Task PROVE ~ Held(t)
  <2>1. \A p \in Thread : next[p] # t
    BY <1>2, TaskAssumption DEF InHands
  <2>2. \A q \in Queue : t \notin queue[q]
    BY <1>2 DEF InQueues
  <2>3. \A r \in Runner : ~ RunBy(r, t)
    BY <1>2, TaskAssumption DEF OnRunners, RunBy
  <2> QED BY <2>1, <2>2, <2>3 DEF Held
<1>5. ASSUME NEW p \in Thread PROVE Len(todo[p]) = 0
  <2>1. todo[p] = <<>>
    BY <1>0, <1>2, <1>3 DEF OnRunners, Shape, ThreadShape, Thread
  <2> QED BY <2>1
<1>6. ASSUME NEW t \in Task PROVE Owed(t) = {}
  BY <1>5 DEF Owed, OwedIn
<1>7. ASSUME NEW t \in active \ done PROVE Before(t) # {}
  <2>0. t \in Task
    BY <1>0 DEF Shape, LooseType
  <2>1. wait[t] # 0 /\ wait[t] = StillToCome(t)
    BY <1>0, <1>1, <1>4, <2>0 DEF TaskPart, HeldWhenReady, WaitCounts
  <2>2. Cardinality(Owed(t)) = 0 /\ Cardinality(Before(t)) \in Nat
    BY <1>0, <1>6, <2>0, FS_EmptySet, CountFacts DEF TaskPart
  <2>3. Cardinality(Before(t)) # 0
    BY <1>3, <2>1, <2>2 DEF StillToCome
  <2> QED BY <2>3, FS_EmptySet
<1>8. active \ done = {}
  <2> SUFFICES ASSUME active \ done # {} PROVE FALSE
    OBVIOUS
  <2>1. active \ done \in SUBSET Task
    BY <1>0 DEF Shape, LooseType
  <2>2. PICK t \in active \ done : \A u \in active \ done : t \notin UnlockSet(u)
    BY <2>1, AcyclicAssumption
  <2>3. Before(t) = {}
    BY <2>2 DEF Before
  <2> QED BY <1>7, <2>2, <2>3
<1>9. done \subseteq active
  BY <1>0 DEF TaskPart, HeldWhenReady, Shape, LooseType
<1> QED BY <1>3, <1>8, <1>9

LEMMA HomeStep ==
  ASSUME IInv, Next
  PROVE  HomeMeansDone'
<1>0. Shape /\ TaskPart /\ HomeMeansDone /\ TaskPart' /\ Shape'
  BY ShapeStep, TaskPartStep DEF IInv, TaskPart
<1>0a. /\ Runner \subseteq Thread /\ Loader \subseteq Thread /\ Thread = Runner \cup Loader
       /\ Runner \cap Loader = {} /\ NoTask \notin Task
  BY ThreadAssumption, TaskAssumption DEF Thread
<1>0b. pc \in [Thread -> {"home", "look", "try", "final", "nap", "sleep", "woken",
                          "run", "decs", "insert", "mark"}]
  BY <1>0 DEF Shape, LooseType
<1>0c. main = "idle" => \A p \in Thread : pc[p] = "home"
  BY <1>0, <1>0a DEF Shape, MainShape
<1>1. done' \subseteq active'
  BY <1>0 DEF TaskPart, HeldWhenReady, Shape, LooseType
<1>2. ASSUME main # "idle", active' = active, done \subseteq done', tid_active' \subseteq tid_active,
             \A r \in Runner : pc'[r] = "home" => pc[r] = "home"
      PROVE  HomeMeansDone'
  BY <1>0, <1>1, <1>2 DEF HomeMeansDone
<1>3. ASSUME NEW A \in SUBSET Task, Launch(A) PROVE HomeMeansDone'
  BY <1>0a, <1>3 DEF Launch, Activate, HomeMeansDone
<1>4. CASE Join
  BY <1>4 DEF Join, HomeMeansDone
<1>5. CASE Rewait \/ Loaded \/ Flush \/ Unguard
  <2>1. /\ main # "idle" /\ UNCHANGED <<active, done, tid_active>>
        /\ \A r \in Runner : pc'[r] = "home" => pc[r] = "home"
    BY <1>0a, <1>5 DEF Rewait, Loaded, Flush, Unguard, Broadcast
  <2> QED BY <1>2, <2>1
<1>6. ASSUME NEW r \in Runner, Look(r), ~ (waiting > 0) PROVE HomeMeansDone'
  <2>1. main # "idle" /\ UNCHANGED <<active, done, tid_active>>
    BY <1>0a, <1>0c, <1>6 DEF Look
  <2>2. tid_active = {} /\ done = active
    BY <1>6, <2>1, NothingWaiting
  <2> QED BY <2>1, <2>2 DEF HomeMeansDone
<1>7. ASSUME NEW p \in Thread, QuietThread(p), ~ (Look(p) /\ ~ (waiting > 0))
      PROVE  HomeMeansDone'
  <2> USE DEF QuietThread, LoaderDone, Look, GetNothing, Nap, SpuriousWakeup, Woken,
              Signal, Goto, BroadcastGoto
  <2>1. main # "idle" /\ UNCHANGED <<active, done, tid_active>>
    BY <1>0c, <1>7
  <2>2. ASSUME NEW r \in Runner, pc'[r] = "home" PROVE pc[r] = "home"
    BY <1>7, <1>0a, <1>0b, <2>2
  <2> QED BY <1>2, <2>1, <2>2
<1>8. ASSUME NEW l \in Loader, NEW t \in Task, Load(l, t) PROVE HomeMeansDone'
  <2>1. /\ main # "idle" /\ UNCHANGED <<active, done>> /\ tid_active' \subseteq tid_active
        /\ \A r \in Runner : pc'[r] = "home" => pc[r] = "home"
    BY <1>0a, <1>0b, <1>8 DEF Load, Goto
  <2> QED BY <1>2, <2>1
<1>9. ASSUME NEW p \in Thread, Dec(p) PROVE HomeMeansDone'
  <2>1. PICK t \in Task : DecOf(p, t)
    BY <1>0, <1>9, DecCases DEF Shape
  <2>2. /\ main # "idle" /\ UNCHANGED <<active, tid_active>> /\ done \subseteq done'
        /\ \A r \in Runner : pc'[r] = "home" => pc[r] = "home"
    BY <1>0a, <1>0b, <1>0c, <2>1 DEF DecOf, DecSkipped, DecOnly, DecPass, DecReady
  <2> QED BY <1>2, <2>2
<1>10. ASSUME NEW p \in Thread, NEW q \in Queue, Insert(p, q) PROVE HomeMeansDone'
  <2>1. /\ main # "idle" /\ UNCHANGED <<active, tid_active, done>>
        /\ \A r \in Runner : pc'[r] = "home" => pc[r] = "home"
    BY <1>0a, <1>0b, <1>0c, <1>10 DEF Insert, Goto
  <2> QED BY <1>2, <2>1
<1>11. ASSUME NEW r \in Runner, NEW q \in Queue, NEW t \in Task, Take(r, q, t)
       PROVE  HomeMeansDone'
  <2>1. /\ main # "idle" /\ UNCHANGED <<active, tid_active, done>>
        /\ \A o \in Runner : pc'[o] = "home" => pc[o] = "home"
    BY <1>0a, <1>0b, <1>0c, <1>11 DEF Take, TakeFrom, Goto
  <2> QED BY <1>2, <2>1
<1>12. ASSUME NEW r \in Runner, Finish(r) \/ Mark(r) PROVE HomeMeansDone'
  <2>1. /\ main # "idle" /\ UNCHANGED <<active, tid_active>> /\ done \subseteq done'
        /\ \A o \in Runner : pc'[o] = "home" => pc[o] = "home"
    BY <1>0a, <1>0b, <1>0c, <1>12 DEF Finish, Mark, Goto
  <2> QED BY <1>2, <2>1
<1>13. ASSUME NEW p \in Thread, QuietThread(p) PROVE HomeMeansDone'
  <2>1. CASE Look(p) /\ ~ (waiting > 0)
    <3>1. p \in Runner
      BY <1>0, <1>0a, <2>1 DEF Look, Shape, ThreadShape
    <3> QED BY <1>6, <2>1, <3>1
  <2>2. CASE ~ (Look(p) /\ ~ (waiting > 0))
    BY <1>7, <1>13, <2>2
  <2> QED BY <2>1, <2>2
<1> QED BY <1>3, <1>4, <1>5, <1>8, <1>9, <1>10, <1>11, <1>12, <1>13, StepCases

-----------------------------------------------------------------------------
(***************************************************************************)
(* The invariant holds.                                                    *)
(***************************************************************************)
LEMMA IInvInit ==
  ASSUME Init
  PROVE  IInv
<1> USE DEF Init
<1>0. NoTask \notin Task /\ NoThread \notin Thread
  BY TaskAssumption, ThreadAssumption
<1>1. LooseType
  <2>1. wait \in [Task -> WaitRange]
    <3>1. \A t \in Task : 0 \in WaitRange
      BY WrapFacts DEF WaitRange
    <3> QED BY <3>1
  <2>2. todo \in [Thread -> Seq(Decrement)]
    <3>1. <<>> \in Seq(Decrement)
      OBVIOUS
    <3> QED BY <3>1
  <2>3. skip \in [Task -> BOOLEAN]
    BY Zenon
  <2> QED BY <2>1, <2>2, <2>3 DEF LooseType
<1>2. ThreadShape /\ MainShape
  BY DEF ThreadShape, MainShape, Thread
<1>3. \A t \in Task : Owed(t) = {}
  BY DEF Owed, OwedIn
<1>4. OwedFinite
  BY <1>3, FS_EmptySet DEF OwedFinite
<1>5. WaitCounts
  BY DEF WaitCounts
<1>6. \A t \in Task : ~ Held(t)
  BY <1>0 DEF Held, RunBy, Thread
<1>7. HeldOnce
  BY <1>6 DEF HeldOnce, Held
<1>8. HeldWhenReady
  BY <1>6 DEF HeldWhenReady
<1>9. SkipWhenDone
  BY DEF SkipWhenDone, Thread
<1>10. WaitingIsInFlight
  <2>1. InQueues = {} /\ InHands = {} /\ OnRunners = {} /\ Guards = 0
    BY DEF InQueues, InHands, OnRunners, Guards, Thread
  <2>2. Balance
    BY <2>1, FS_EmptySet DEF Balance
  <2> QED BY <2>2, FlightSum
<1>11. HomeMeansDone
  BY DEF HomeMeansDone
<1> QED BY <1>1, <1>2, <1>4, <1>5, <1>7, <1>8, <1>9, <1>10, <1>11 DEF IInv, Shape

LEMMA IInvStep ==
  ASSUME IInv, [Next]_vars
  PROVE  IInv'
<1>1. CASE Next
  BY <1>1, ShapeStep, TaskPartStep, FlightStep, HomeStep DEF IInv, TaskPart
<1>2. CASE UNCHANGED vars
  <2> USE <1>2 DEF vars
  <2>1. Shape'
    BY DEF IInv, Shape, LooseType, ThreadShape, MainShape
  <2>2. (OwedFinite /\ WaitCounts)'
    BY DEF IInv, OwedFinite, WaitCounts, StillToCome, Owed, Before
  <2>3. (HeldOnce /\ HeldWhenReady /\ SkipWhenDone)'
    BY DEF IInv, HeldOnce, HeldWhenReady, SkipWhenDone, Held, RunBy
  <2>4. (WaitingIsInFlight /\ HomeMeansDone)'
    BY DEF IInv, WaitingIsInFlight, InFlight, HomeMeansDone
  <2> QED BY <2>1, <2>2, <2>3, <2>4 DEF IInv
<1> QED BY <1>1, <1>2

LEMMA InvariantHolds == Spec => []IInv
<1>1. Init => IInv
  BY IInvInit
<1>2. IInv /\ [Next]_vars => IInv'
  BY IInvStep
<1> QED BY <1>1, <1>2, PTL DEF Spec

-----------------------------------------------------------------------------
(* Only runners are ever refused a task. *)
SpurnedRange == spurned \subseteq Runner

LEMMA SpurnedAreRunners == Spec => []SpurnedRange
<1>1. Init => SpurnedRange
  BY DEF Init, SpurnedRange
<1>2. SpurnedRange /\ [Next]_vars => SpurnedRange'
  <2> SUFFICES ASSUME spurned \subseteq Runner, [Next]_vars PROVE spurned' \subseteq Runner
    BY DEF SpurnedRange
  <2>1. ASSUME NEW A \in SUBSET Task, Launch(A) PROVE spurned' \subseteq Runner
    BY <2>1 DEF Launch
  <2>2. CASE MainNext
    BY <2>2 DEF MainNext, Rewait, Loaded, Flush, Unguard, Join
  <2>3. ASSUME NEW p \in Thread, Dec(p) \/ LoaderDone(p) \/ (\E q \in Queue : Insert(p, q))
        PROVE  spurned' \subseteq Runner
    BY <2>3 DEF Dec, LoaderDone, Insert
  <2>4. ASSUME NEW l \in Loader, LoadNext(l) PROVE spurned' \subseteq Runner
    <3>1. ASSUME NEW t \in Task, Load(l, t) PROVE spurned' \subseteq Runner
      BY <3>1 DEF Load
    <3> QED BY <2>3, <2>4, <3>1 DEF LoadNext, Thread
  <2>5. ASSUME NEW r \in Runner, RunnerNext(r) \/ SpuriousWakeup(r)
        PROVE  spurned' \subseteq Runner
    <3>1. CASE Look(r) \/ GetNothing(r) \/ Nap(r) \/ Woken(r) \/ SpuriousWakeup(r)
      BY <3>1 DEF Look, GetNothing, Nap, Woken, SpuriousWakeup
    <3>2. CASE FinalTry(r)
      BY <3>2 DEF FinalTry
    <3>3. CASE Finish(r) \/ Signal(r) \/ Mark(r)
      BY <3>3 DEF Finish, Signal, Mark
    <3>4. ASSUME NEW q \in Queue, NEW t \in Task, Get(r, q, t) PROVE spurned' \subseteq Runner
      BY <3>4 DEF Get
    <3> QED BY <2>3, <2>5, <3>1, <3>2, <3>3, <3>4 DEF RunnerNext, Thread
  <2>6. CASE UNCHANGED vars
    BY <2>6 DEF vars
  <2>7. Activations \subseteq SUBSET Task
    BY TaskAssumption
  <2> QED BY <2>1, <2>2, <2>4, <2>5, <2>6, <2>7 DEF Next
<1> QED BY <1>1, <1>2, PTL DEF Spec

(***************************************************************************)
(* The variables of the scheduler keep their types: in particular, the     *)
(* wait of a task never leaves its range and waiting is never negative.    *)
(***************************************************************************)
THEOREM TypeCorrect == Spec => []TypeOK
<1>1. IInv /\ SpurnedRange => TypeOK
  <2> SUFFICES ASSUME IInv, SpurnedRange PROVE TypeOK
    OBVIOUS
  <2>1. LooseType
    BY DEF IInv, Shape
  <2>2. waiting \in Nat
    <3>1. /\ Balance /\ Cardinality(InQueues) \in Nat /\ Cardinality(InHands) \in Nat
          /\ Cardinality(OnRunners) \in Nat /\ Guards \in Nat
      BY FlightFacts, FlightSum DEF IInv, Guards
    <3> QED BY <3>1 DEF Balance
  <2> QED BY <2>1, <2>2 DEF TypeOK, LooseType, SpurnedRange
<1> QED BY <1>1, InvariantHolds, SpurnedAreRunners, PTL

(***************************************************************************)
(* scheduler_done never finds a dependant's wait below 1 ("Negative        *)
(* wait!"), whatever the order in which the engine loads the tasks and the *)
(* runners finish them.                                                    *)
(***************************************************************************)
THEOREM WaitNeverNegative == Spec => []NoNegativeWait
<1>1. ASSUME IInv PROVE NoNegativeWait
  <2> SUFFICES ASSUME NEW p \in Thread, pc[p] = "decs", todo[p] # <<>>,
                      Head(todo[p]).by = "done", ~ skip[Head(todo[p]).of]
               PROVE  wait[Head(todo[p]).of] >= 1
    BY DEF NoNegativeWait
  <2>1. Shape /\ TaskPart /\ todo \in [Thread -> Seq(Decrement)]
    BY <1>1 DEF IInv, TaskPart, Shape, LooseType
  <2>2. PICK t \in Task : Head(todo[p]).of = t
    <3>1. Head(todo[p]) \in Decrement
      BY <2>1
    <3> QED BY <3>1 DEF Decrement
  <2>3. ~ skip[t] => wait[t] >= 1
    BY <2>1, <2>2, DecFinds
  <2> QED BY <2>2, <2>3
<1> QED BY <1>1, InvariantHolds, PTL

(***************************************************************************)
(* s->waiting is the number of tasks enqueued, running or not yet          *)
(* signalled, and the engine's safeguard while it loads the tasks.         *)
(***************************************************************************)
THEOREM WaitingRight == Spec => []WaitingIsInFlight
<1>1. IInv => WaitingIsInFlight
  BY DEF IInv
<1> QED BY <1>1, InvariantHolds, PTL

(***************************************************************************)
(* No runner goes to the barrier before every active task is loaded and    *)
(* done.                                                                   *)
(***************************************************************************)
THEOREM NobodyLeavesEarly == Spec => []HomeMeansDone
<1>1. IInv => HomeMeansDone
  BY DEF IInv
<1> QED BY <1>1, InvariantHolds, PTL

-----------------------------------------------------------------------------
(***************************************************************************)
(* The abstract task graph.                                                *)
(***************************************************************************)
LEMMA RunningIs ==
  ASSUME NEW t
  PROVE  t \in Running <=> \E r \in Runner : RunBy(r, t)
BY DEF Running, RunBy

LEMMA BeforeMeans ==
  ASSUME Shape, NEW t \in Task, Before(t) = {}
  PROVE  \A u \in active : t \in UnlockSet(u) => u \in done
BY DEF Before

LEMMA QuietMaps ==
  ASSUME UNCHANGED <<active, done>>, (main' # "idle") = (main # "idle"),
         \A r \in Runner : /\ pc'[r] = "run" <=> pc[r] = "run"
                           /\ pc[r] = "run" => task'[r] = task[r]
  PROVE  UNCHANGED <<active, Running, done, main # "idle">>
<1>1. Running' = Running
  BY DEF Running
<1> QED BY <1>1

LEMMA Maps ==
  ASSUME IInv, IInv', Next
  PROVE  TG!Next \/ UNCHANGED <<active, Running, done, main # "idle">>
<1>0. Shape /\ TaskPart /\ Shape' /\ TaskPart'
  BY DEF IInv, TaskPart
<1>0a. /\ Runner \subseteq Thread /\ Loader \subseteq Thread /\ Thread = Runner \cup Loader
       /\ Runner \cap Loader = {} /\ NoTask \notin Task
  BY ThreadAssumption, TaskAssumption DEF Thread
<1>0b. /\ pc \in [Thread -> {"home", "look", "try", "final", "nap", "sleep", "woken",
                            "run", "decs", "insert", "mark"}]
       /\ task \in [Thread -> Task \cup {NoTask}] /\ active \subseteq Task
  BY <1>0 DEF Shape, LooseType
<1>0c. main = "idle" => done = active /\ \A p \in Thread : pc[p] = "home"
  BY <1>0, <1>0a DEF Shape, MainShape
<1>1. ASSUME NEW A \in SUBSET Task, Launch(A) PROVE TG!Next
  <2>1. \A r \in Runner : pc[r] = "home" /\ pc'[r] = "look"
    BY <1>0a, <1>1 DEF Launch, Activate
  <2>2. Running' = Running
    BY <2>1 DEF Running
  <2>3. TG!Launch(A)
    BY <1>1, <2>2 DEF Launch, Activate, TG!Launch
  <2> QED BY <2>3 DEF TG!Next
<1>2. CASE Rewait \/ Loaded \/ Flush \/ Unguard
  <2>1. UNCHANGED <<active, done, task>> /\ main # "idle" /\ main' # "idle"
    BY <1>2 DEF Rewait, Loaded, Flush, Unguard
  <2>2. \A r \in Runner : pc'[r] = "run" <=> pc[r] = "run"
    BY <1>0a, <1>2 DEF Rewait, Loaded, Flush, Unguard, Broadcast
  <2> QED BY <2>1, <2>2, QuietMaps
<1>3. CASE Join
  <2>1. UNCHANGED <<active, done, pc, task>> /\ main = "join" /\ main' = "idle"
    BY <1>3 DEF Join
  <2>2. done = active
    BY <1>0, <2>1 DEF Shape, MainShape
  <2>3. Running' = Running
    BY <2>1 DEF Running
  <2>4. TG!Return
    BY <2>1, <2>2, <2>3 DEF TG!Return
  <2> QED BY <2>4 DEF TG!Next
<1>4. ASSUME NEW p \in Thread, QuietThread(p)
      PROVE  UNCHANGED <<active, Running, done, main # "idle">>
  <2>1. Quiet
    BY <1>0, <1>4, QuietSteps
  <2>2. main' = main
    BY <1>4 DEF QuietThread, LoaderDone, Look, GetNothing, Nap, SpuriousWakeup, Woken, Signal
  <2> QED BY <2>1, <2>2, QuietMaps DEF Quiet
<1>5. ASSUME NEW l \in Loader, NEW t \in Task, Load(l, t)
      PROVE  UNCHANGED <<active, Running, done, main # "idle">>
  <2>1. UNCHANGED <<active, done, task, main>> /\ \A r \in Runner : pc'[r] = pc[r]
    BY <1>0a, <1>0b, <1>5 DEF Load, Goto
  <2> QED BY <2>1, QuietMaps
<1>6. ASSUME NEW p \in Thread, NEW q \in Queue, Insert(p, q)
      PROVE  UNCHANGED <<active, Running, done, main # "idle">>
  <2>1. UNCHANGED <<active, done, task, main>>
        /\ \A r \in Runner : pc'[r] = "run" <=> pc[r] = "run"
    BY <1>0a, <1>0b, <1>6 DEF Insert, Goto
  <2> QED BY <2>1, QuietMaps
<1>7. ASSUME NEW r \in Runner, NEW q \in Queue, NEW t \in Task, Take(r, q, t)
      PROVE  TG!Next
  <2>1. /\ UNCHANGED <<active, done, main>> /\ t \in queue[q] /\ Lockable(t)
        /\ pc[r] # "run" /\ pc' = [pc EXCEPT ![r] = "run"] /\ task' = [task EXCEPT ![r] = t]
    BY <1>7 DEF Take, TakeFrom, Goto
  <2>2. Held(t)
    BY <2>1 DEF Held
  <2>3. t \in active \ done /\ t \notin Implicit /\ wait[t] = 0 /\ main # "rewait"
    BY <1>0, <2>2 DEF TaskPart, HeldWhenReady
  <2>4. main # "idle"
    BY <1>0c, <2>3
  <2>5. t \notin Running
    BY <1>0, <2>1, RunningIs DEF TaskPart, HeldOnce
  <2>6. Before(t) = {}
    BY <1>0, <2>3, NothingToCome DEF TaskPart, WaitCounts
  <2>7. \A u \in active : t \in UnlockSet(u) => u \in done
    BY <1>0, <2>6, BeforeMeans
  <2>8. Running' = Running \cup {t}
    <3>1. /\ pc'[r] = "run" /\ task'[r] = t
          /\ \A o \in Runner : o # r => pc'[o] = pc[o] /\ task'[o] = task[o]
      BY <1>0a, <1>0b, <2>1
    <3> QED BY <2>1, <3>1 DEF Running
  <2>9. TG!Ready(t)
    BY <1>0b, <2>3, <2>5, <2>7 DEF TG!Ready
  <2>10. TG!Start(t)
    BY <2>1, <2>3, <2>4, <2>8, <2>9 DEF TG!Start, Lockable
  <2> QED BY <2>10 DEF TG!Next
<1>8. ASSUME NEW r \in Runner, Finish(r) PROVE TG!Next
  <2>1. PICK t \in Task : task[r] = t
    BY <1>0, <1>0a, <1>0b, <1>8 DEF Shape, ThreadShape, Finish
  <2>2. /\ UNCHANGED <<active, task, main>> /\ done' = done \cup {t} /\ pc[r] = "run"
        /\ pc' = [pc EXCEPT ![r] = "decs"]
    BY <1>8, <2>1 DEF Finish, Goto
  <2>3. RunBy(r, t) /\ \A o \in Runner : RunBy(o, t) => o = r
    BY <1>0, <2>1, <2>2 DEF RunBy, TaskPart, HeldOnce
  <2>4. t \in Running
    BY <2>3, RunningIs
  <2>5. Running' = Running \ {t}
    <3>1. /\ pc'[r] = "decs" /\ \A o \in Runner : o # r => pc'[o] = pc[o]
          /\ \A o \in Runner : pc[o] = "run" /\ task[o] = t => o = r
      BY <1>0a, <1>0b, <2>2, <2>3 DEF RunBy
    <3> QED BY <2>1, <2>2, <3>1 DEF Running
  <2>6. TG!Finish(t)
    BY <2>2, <2>4, <2>5 DEF TG!Finish
  <2> QED BY <2>6 DEF TG!Next
<1>9. ASSUME NEW r \in Runner, Mark(r)
      PROVE  UNCHANGED <<active, Running, done, main # "idle">>
  <2>1. UNCHANGED <<active, done, main>>
        /\ \A o \in Runner : /\ pc'[o] = "run" <=> pc[o] = "run"
                             /\ pc[o] = "run" => task'[o] = task[o]
    BY <1>0a, <1>0b, <1>9 DEF Mark, Goto
  <2> QED BY <2>1, QuietMaps
<1>10. ASSUME NEW p \in Thread, NEW t \in Task, DecOf(p, t)
       PROVE  TG!Next \/ UNCHANGED <<active, Running, done, main # "idle">>
  <2>1. /\ UNCHANGED <<active, task, main>> /\ pc[p] = "decs" /\ todo[p] # <<>>
        /\ Head(todo[p]).of = t
    BY <1>10 DEF DecOf
  <2>2. \A r \in Runner : pc'[r] = "run" <=> pc[r] = "run"
    BY <1>0a, <1>0b, <1>10 DEF DecOf, DecSkipped, DecOnly, DecPass, DecReady
  <2>3. CASE done' = done
    BY <2>1, <2>2, <2>3, QuietMaps
  <2>4. CASE DecPass(p, t)
    <3>1. done' = done \cup {t} /\ t \in Implicit /\ wait[t] = 1 /\ ~ skip[t]
      BY <2>4 DEF DecPass
    <3>2. t \in active \ done /\ ~ Held(t) /\ wait[t] = StillToCome(t) /\ main # "idle"
      BY <1>0, <2>1, <3>1, DecFinds
    <3>3. t \notin Running
      BY <3>2, RunningIs DEF Held
    <3>4. Before(t) = {}
      <4>1. /\ Cardinality(Owed(t)) \in Nat /\ Cardinality(Before(t)) \in Nat
            /\ Cardinality(Owed(t)) # 0
        BY <1>0, <2>1, PoppedOwed, CountFacts DEF TaskPart
      <4>2. Cardinality(Before(t)) = 0
        BY <3>1, <3>2, <4>1 DEF StillToCome
      <4> QED BY <1>0, <4>2, CountFacts DEF TaskPart
    <3>5. \A u \in active : t \in UnlockSet(u) => u \in done
      BY <1>0, <3>4, BeforeMeans
    <3>6. Running' = Running
      BY <2>1, <2>2 DEF Running
    <3>7. TG!Ready(t)
      BY <1>0b, <3>2, <3>3, <3>5 DEF TG!Ready
    <3>8. TG!Pass(t)
      BY <2>1, <3>1, <3>2, <3>6, <3>7 DEF TG!Pass
    <3> QED BY <3>8 DEF TG!Next
  <2> QED BY <1>10, <2>3, <2>4 DEF DecOf, DecSkipped, DecOnly, DecReady
<1>11. ASSUME NEW p \in Thread, Dec(p)
       PROVE  TG!Next \/ UNCHANGED <<active, Running, done, main # "idle">>
  <2>1. PICK t \in Task : DecOf(p, t)
    BY <1>0, <1>11, DecCases DEF Shape
  <2> QED BY <1>10, <2>1
<1> QED BY <1>1, <1>2, <1>3, <1>4, <1>5, <1>6, <1>7, <1>8, <1>9, <1>11, StepCases

(***************************************************************************)
(* Every launch runs each active task once, after the active tasks it      *)
(* depends on and apart from the tasks it conflicts with, and returns when *)
(* all of them are done: engine_launch with its runners and loaders        *)
(* implements TaskGraph.                                                   *)
(***************************************************************************)
THEOREM Refines == Spec => ImplementsTaskGraph
<1>1. Init => TG!Init
  BY DEF Init, TG!Init, Running, Thread
<1>2. IInv /\ IInv' /\ [Next]_vars
        => [TG!Next]_<<active, Running, done, main # "idle">>
  <2>1. ASSUME IInv, IInv', Next PROVE [TG!Next]_<<active, Running, done, main # "idle">>
    BY <2>1, Maps
  <2>2. ASSUME UNCHANGED vars PROVE UNCHANGED <<active, Running, done, main # "idle">>
    BY <2>2 DEF vars, Running
  <2> QED BY <2>1, <2>2
<1> QED BY <1>1, <1>2, InvariantHolds, PTL DEF Spec, ImplementsTaskGraph, TG!Spec
=============================================================================
