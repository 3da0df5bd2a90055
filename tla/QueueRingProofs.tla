-------------------------- MODULE QueueRingProofs --------------------------
(***************************************************************************)
(* Proofs about QueueRing for any number of threads and tasks, any size of *)
(* the ring and any width of the counters.  The argument:                  *)
(*                                                                         *)
(*  - one thread at a time is between a lock and its unlock (LockOwned),   *)
(*    and a thread's locals say where it is (LocalsMatch);                 *)
(*  - the tickets that are out, from first_incoming to last_incoming, can  *)
(*    be matched one to one with the tasks that are in the ring or on      *)
(*    their way to it, so that each task is in, or goes to, the slot of    *)
(*    its ticket (TicketsMatch).  An inserter that is overtaken by the     *)
(*    next one for its slot swaps tickets with it in this matching.  While *)
(*    the drain has emptied a slot and not yet advanced first_incoming,    *)
(*    the first ticket that is out is the next one.                        *)
(***************************************************************************)
EXTENDS QueueRing, TLAPS, FiniteSetTheorems

UnderLock == {"drain", "advance", "push", "dec", "scan"}

LockOwned ==
  /\ \A p \in Thread : pc[p] \in UnderLock => lock = 1
  /\ \A p, q \in Thread : pc[p] \in UnderLock /\ pc[q] \in UnderLock => p = q

LocalsMatch ==
  \A p \in Thread :
    /\ pc[p] \in {"idle", "scan"} => arg[p] = NoTask
    /\ pc[p] \in {"cas", "trylock", "count"} => arg[p] # NoTask
    /\ offset[p] # NoTask <=> pc[p] \in {"advance", "push"}

(* Task t is in slot s, or a thread is on its way to put it there. *)
GoesTo(t, s) ==
  \/ tid_incoming[s] = t
  \/ \E p \in Thread : pc[p] # "count" /\ arg[p] = t /\ ind[p] = s

(* The first ticket whose task is not yet in the hands of the drain. *)
FirstOut ==
  IF \E p \in Thread : pc[p] = "advance"
  THEN (first_incoming + 1) % UIntMod ELSE first_incoming

SlotOf(first, i) == ((first + i) % UIntMod) % RingSize

Matching(n, m) ==
  /\ m \in [0..(n - 1) -> Task]
  /\ \A i, j \in 0..(n - 1) : m[i] = m[j] => i = j
  /\ \A t \in Task : (\E s \in Slot : GoesTo(t, s)) => \E i \in 0..(n - 1) : m[i] = t
  /\ \A i \in 0..(n - 1) : GoesTo(m[i], SlotOf(FirstOut, i))
  /\ last_incoming = (FirstOut + n) % UIntMod

TicketsMatch == \E n \in Nat : \E m \in [0..(n - 1) -> Task] : Matching(n, m)

IInv ==
  /\ RingTypeOK /\ LockOwned /\ LocalsMatch
  /\ TaskInOnePlace /\ CountIncomingExact /\ TicketsMatch

-----------------------------------------------------------------------------
(***************************************************************************)
(* Arithmetic of counters that wrap.                                       *)
(***************************************************************************)
LEMMA DivMod ==
  ASSUME NEW M \in Nat \ {0}, NEW x \in Int
  PROVE  /\ x % M \in 0..(M - 1) /\ x \div M \in Int
         /\ x = M * (x \div M) + (x % M)
  OBVIOUS

LEMMA ModUnique ==
  ASSUME NEW M \in Nat \ {0}, NEW x \in Int, NEW k \in Int, NEW r \in 0..(M - 1),
         x = M * k + r
  PROVE  r = x % M
<1> DEFINE d == x \div M
           e == x % M
<1>1. e \in 0..(M - 1) /\ d \in Int /\ x = M * d + e
  BY DivMod
<1>2. M * (k - d) = e - r
  BY <1>1
<1>3. e - r < M /\ e - r > -M /\ k - d \in Int
  BY <1>1
<1> HIDE DEF d, e
<1>4. CASE k - d >= 1
  <2>1. M * (k - d) >= M
    BY <1>4, <1>3
  <2> QED BY <2>1, <1>2, <1>3
<1>5. CASE k - d <= -1
  <2>1. M * (k - d) <= -M
    BY <1>5, <1>3
  <2> QED BY <2>1, <1>2, <1>3
<1>6. CASE k - d = 0
  BY <1>6, <1>2, <1>1 DEF d, e
<1> QED BY <1>3, <1>4, <1>5, <1>6

LEMMA ModAdd ==
  ASSUME NEW M \in Nat \ {0}, NEW x \in Int, NEW y \in Int
  PROVE  ((x % M) + y) % M = (x + y) % M
<1> DEFINE z == (x % M) + y
           k == (x \div M) + (z \div M)
           r == z % M
<1>1. x % M \in 0..(M - 1) /\ x \div M \in Int /\ x = M * (x \div M) + (x % M)
  BY DivMod
<1>2. z \in Int
  BY <1>1
<1>3. r \in 0..(M - 1) /\ z \div M \in Int /\ z = M * (z \div M) + r
  BY <1>2, DivMod
<1>4. k \in Int /\ M * k = M * (x \div M) + M * (z \div M)
  BY <1>1, <1>3
<1>5. x + y = M * k + r
  BY <1>1, <1>3, <1>4
<1> DEFINE w == x + y
<1>6. w \in Int /\ k \in Int /\ r \in 0..(M - 1) /\ w = M * k + r
  BY <1>3, <1>4, <1>5
<1> HIDE DEF k, r, w
<1>7. r = w % M
  BY <1>6, ModUnique
<1> QED BY <1>7 DEF r, w

LEMMA ModSmall ==
  ASSUME NEW M \in Nat \ {0}, NEW x \in 0..(M - 1)
  PROVE  x % M = x
<1>1. x = M * 0 + x
  OBVIOUS
<1> QED BY <1>1, ModUnique

(* The same for the counters. *)
LEMMA WrapAdd ==
  \A x, y \in Int : ((x % UIntMod) + y) % UIntMod = (x + y) % UIntMod
  BY ModAdd, RingAssumption, Zenon

-----------------------------------------------------------------------------
(***************************************************************************)
(* The locals and the lock.                                                *)
(***************************************************************************)
Locals == RingTypeOK /\ LockOwned /\ LocalsMatch

LEMMA SlotFacts ==
  /\ \A i \in Int : i % RingSize \in Slot
  /\ \A i \in Int : i % UIntMod \in UInt
  /\ UInt \subseteq Nat
  BY RingAssumption, DivMod DEF Slot, UInt

LEMMA LocalsStep ==
  ASSUME Locals, RingNext
  PROVE  Locals'
<1> USE DEF Locals, RingTypeOK, Goto
<1>1. PICK p \in Thread :
        \/ Begin(p) \/ InsertStep(p) \/ DrainStep(p) \/ Nothing(p)
        \/ \E t \in Task : Take(p, t)
  BY DEF RingNext
<1>2. CASE GetLock(p)
  BY <1>2 DEF GetLock, LockOwned, LocalsMatch, UnderLock
<1>3. CASE \E t \in Task : Ticket(p, t)
  <2>1. last_incoming % RingSize \in Slot /\ (last_incoming + 1) % UIntMod \in UInt
    BY SlotFacts
  <2> QED BY <1>3, <2>1, TaskAssumption DEF Ticket, LockOwned, LocalsMatch, UnderLock
<1>4. CASE Store(p)
  BY <1>4 DEF Store, LockOwned, LocalsMatch, UnderLock
<1>5. CASE Help(p)
  BY <1>5 DEF Help, LockOwned, LocalsMatch, UnderLock
<1>6. CASE Count(p)
  <2>1. (count_incoming + 1) % UIntMod \in UInt
    BY SlotFacts
  <2> QED BY <1>6, <2>1 DEF Count, LockOwned, LocalsMatch, UnderLock
<1>7. CASE DrainEnd(p)
  BY <1>7 DEF DrainEnd, Unlock, LockOwned, LocalsMatch, UnderLock
<1>8. CASE Swap(p)
  <2>1. NextSlot \in Slot
    BY SlotFacts DEF NextSlot
  <2> QED BY <1>8, <2>1 DEF Swap, LockOwned, LocalsMatch, UnderLock
<1>9. CASE Advance(p)
  <2>1. (first_incoming + 1) % UIntMod \in UInt
    BY SlotFacts
  <2> QED BY <1>9, <2>1 DEF Advance, LockOwned, LocalsMatch, UnderLock
<1>10. CASE Push(p)
  <2>1. offset[p] \in Task
    BY <1>10 DEF Push, LocalsMatch
  <2> QED BY <1>10, <2>1 DEF Push, LockOwned, LocalsMatch, UnderLock
<1>11. CASE Dec(p)
  <2>1. (count_incoming - 1) % UIntMod \in UInt
    BY SlotFacts
  <2> QED BY <1>11, <2>1 DEF Dec, LockOwned, LocalsMatch, UnderLock
<1>12. CASE Nothing(p)
  BY <1>12 DEF Nothing, Unlock, LockOwned, LocalsMatch, UnderLock
<1>13. CASE \E t \in Task : Take(p, t)
  BY <1>13 DEF Take, Unlock, LockOwned, LocalsMatch, UnderLock
<1> QED BY <1>1, <1>2, <1>3, <1>4, <1>5, <1>6, <1>7, <1>8, <1>9, <1>10, <1>11,
           <1>12, <1>13 DEF Begin, InsertStep, DrainStep

-----------------------------------------------------------------------------
(***************************************************************************)
(* Where the tasks are.                                                    *)
(***************************************************************************)
(* Thread p is to put task t into the ring. *)
With(p, t) == pc[p] # "count" /\ arg[p] = t

Places ==
  \A t \in Task :
    /\ \/ t \in outside \/ t \in stored
       \/ \E p \in Thread : With(p, t) \/ offset[p] = t
       \/ \E s \in Slot : tid_incoming[s] = t
    /\ t \in outside => t \notin stored
    /\ \A p \in Thread : With(p, t) =>
         /\ t \notin outside /\ t \notin stored
         /\ \A q \in Thread : offset[q] # t /\ (With(q, t) => q = p)
         /\ \A s \in Slot : tid_incoming[s] # t
    /\ \A s \in Slot : tid_incoming[s] = t =>
         /\ t \notin outside /\ t \notin stored
         /\ \A q \in Thread : offset[q] # t
         /\ \A r \in Slot : tid_incoming[r] = t => r = s
    /\ \A p \in Thread : offset[p] = t =>
         /\ t \notin outside /\ t \notin stored
         /\ \A q \in Thread : offset[q] = t => q = p

(* The two ways to say that every task is in one place. *)
LEMMA PlacesEquiv ==
  ASSUME RingTypeOK
  PROVE  TaskInOnePlace <=> Places
<1>1. \A t \in Task :
        /\ t \in Inserting <=> \E p \in Thread : With(p, t)
        /\ t \in Incoming <=> \E s \in Slot : tid_incoming[s] = t
        /\ t \in InHand <=> \E p \in Thread : offset[p] = t
  BY TaskAssumption DEF Inserting, Incoming, InHand, With
<1>2. TaskInOnePlace => Places
  BY <1>1, TaskAssumption DEF TaskInOnePlace, Places, With
<1>3. ASSUME Places PROVE TaskInOnePlace
  <2>1. \A t \in Task :
       /\ t \in outside \cup Inserting \cup Incoming \cup InHand \cup stored
       /\ t \in outside => t \notin Inserting \cup Incoming \cup InHand \cup stored
       /\ t \in Inserting => t \notin Incoming \cup InHand \cup stored
       /\ t \in Incoming => t \notin InHand \cup stored
       /\ t \in InHand => t \notin stored
    BY <1>1, <1>3 DEF Places
  <2>2. \A r, s \in Slot :
       tid_incoming[r] = tid_incoming[s] /\ tid_incoming[r] # NoTask => r = s
    BY <1>3 DEF Places, RingTypeOK
  <2>3. \A p, q \in Thread : offset[p] = offset[q] /\ offset[p] # NoTask => p = q
    BY <1>3 DEF Places, RingTypeOK
  <2>4. \A p, q \in Thread :
          arg[p] = arg[q] /\ arg[p] # NoTask /\ pc[p] # "count" /\ pc[q] # "count"
            => p = q
    BY <1>3 DEF Places, RingTypeOK, With
  <2> QED BY <2>1, <2>2, <2>3, <2>4 DEF TaskInOnePlace
<1> QED BY <1>2, <1>3

LEMMA PlacesStep ==
  ASSUME Locals, Places, RingNext
  PROVE  Places'
<1> USE TaskAssumption DEF Locals, RingTypeOK, Goto, With
<1>1. PICK p \in Thread :
        \/ Begin(p) \/ InsertStep(p) \/ DrainStep(p) \/ Nothing(p)
        \/ \E t \in Task : Take(p, t)
  BY DEF RingNext
<1>2. CASE GetLock(p) \/ Help(p) \/ Advance(p) \/ Dec(p) \/ DrainEnd(p) \/ Nothing(p)
  <2>1. \A q \in Thread, t \in Task : With(q, t)' <=> With(q, t)
    BY <1>2 DEF GetLock, Help, Advance, Dec, DrainEnd, Nothing
  <2>2. UNCHANGED <<outside, stored, offset, tid_incoming>>
    BY <1>2 DEF GetLock, Help, Advance, Dec, DrainEnd, Nothing
  <2> HIDE DEF With
  <2> QED BY <2>1, <2>2 DEF Places
<1>3. CASE \E t \in Task : Ticket(p, t)
  BY <1>3 DEF Ticket, Places, LocalsMatch
<1>4. CASE Store(p)
  BY <1>4 DEF Store, Places, LocalsMatch
<1>5. CASE Count(p)
  <2>1. \A q \in Thread, t \in Task : With(q, t)' <=> With(q, t)
    BY <1>5 DEF Count
  <2>2. UNCHANGED <<outside, stored, offset, tid_incoming>>
    BY <1>5 DEF Count
  <2> HIDE DEF With
  <2> QED BY <2>1, <2>2 DEF Places
<1>6. CASE Swap(p)
  <2>1. NextSlot \in Slot
    BY SlotFacts DEF NextSlot
  <2>2. offset[p] = NoTask
    BY <1>6 DEF Swap, LocalsMatch
  <2> QED BY <1>6, <2>1, <2>2 DEF Swap, Places
<1>7. CASE Push(p)
  <2>1. offset[p] \in Task
    BY <1>7 DEF Push, LocalsMatch
  <2> QED BY <1>7, <2>1 DEF Push, Places
<1>8. CASE \E t \in Task : Take(p, t)
  BY <1>8 DEF Take, Places
<1> QED BY <1>1, <1>2, <1>3, <1>4, <1>5, <1>6, <1>7, <1>8
        DEF Begin, InsertStep, DrainStep

-----------------------------------------------------------------------------
(***************************************************************************)
(* count_incoming.                                                         *)
(***************************************************************************)
FullSlots == {s \in Slot : tid_incoming[s] # NoTask}
Draining == {p \in Thread : pc[p] \in {"advance", "push", "dec"}}
Counting == {p \in Thread : pc[p] = "count"}
ToCount == Cardinality(FullSlots) + Cardinality(Draining) - Cardinality(Counting)

LEMMA CountedFinite ==
  /\ IsFiniteSet(FullSlots) /\ IsFiniteSet(Draining) /\ IsFiniteSet(Counting)
  /\ Cardinality(FullSlots) \in Nat /\ Cardinality(Draining) \in Nat
  /\ Cardinality(Counting) \in Nat
<1>1. IsFiniteSet(Slot)
  BY RingAssumption, FS_Interval DEF Slot
<1>2. IsFiniteSet(FullSlots)
  BY <1>1, FS_Subset DEF FullSlots
<1>3. IsFiniteSet(Draining) /\ IsFiniteSet(Counting)
  BY ThreadAssumption, FS_Subset DEF Draining, Counting
<1> QED BY <1>2, <1>3, FS_CardinalityType

LEMMA CountStep ==
  ASSUME Locals, CountIncomingExact, RingNext
  PROVE  CountIncomingExact'
<1> USE DEF Locals, RingTypeOK, Goto
<1>0. count_incoming = ToCount % UIntMod /\ ToCount \in Int
  BY CountedFinite DEF CountIncomingExact, ToCount, FullSlots, Draining, Counting
<1> SUFFICES count_incoming' = ToCount' % UIntMod
  BY DEF CountIncomingExact, ToCount, FullSlots, Draining, Counting
<1>1. PICK p \in Thread :
        \/ Begin(p) \/ InsertStep(p) \/ DrainStep(p) \/ Nothing(p)
        \/ \E t \in Task : Take(p, t)
  BY DEF RingNext
<1>2. CASE \/ GetLock(p) \/ Help(p) \/ Advance(p) \/ DrainEnd(p) \/ Nothing(p)
           \/ Push(p) \/ \E t \in Task : Take(p, t) \/ Ticket(p, t)
  <2>1. FullSlots' = FullSlots /\ count_incoming' = count_incoming
    BY <1>2 DEF FullSlots, GetLock, Help, Advance, DrainEnd, Nothing, Push, Take, Ticket
  <2>2. Draining' = Draining
    BY <1>2 DEF Draining, GetLock, Help, Advance, DrainEnd, Nothing, Push, Take, Ticket
  <2>3. Counting' = Counting
    BY <1>2 DEF Counting, GetLock, Help, Advance, DrainEnd, Nothing, Push, Take, Ticket
  <2> QED BY <1>0, <2>1, <2>2, <2>3 DEF ToCount
<1>3. CASE Store(p)
  <2>1. CASE tid_incoming[ind[p]] # NoTask
    <3>1. FullSlots' = FullSlots /\ count_incoming' = count_incoming
      BY <1>3, <2>1 DEF FullSlots, Store
    <3>2. Draining' = Draining /\ Counting' = Counting
      BY <1>3, <2>1 DEF Draining, Counting, Store
    <3> QED BY <1>0, <3>1, <3>2 DEF ToCount
  <2>2. CASE tid_incoming[ind[p]] = NoTask
    <3>1. /\ FullSlots' = FullSlots \cup {ind[p]} /\ ind[p] \notin FullSlots
          /\ count_incoming' = count_incoming
      BY <1>3, <2>2 DEF FullSlots, Store, LocalsMatch
    <3>2. Counting' = Counting \cup {p} /\ p \notin Counting
      BY <1>3, <2>2 DEF Counting, Store
    <3>3. Draining' = Draining
      BY <1>3, <2>2 DEF Draining, Store
    <3>4. /\ Cardinality(FullSlots') = Cardinality(FullSlots) + 1
          /\ Cardinality(Counting') = Cardinality(Counting) + 1
      BY <3>1, <3>2, CountedFinite, FS_AddElement
    <3>5. ToCount' = ToCount
      BY <3>3, <3>4, CountedFinite DEF ToCount
    <3> QED BY <1>0, <3>1, <3>5
  <2> QED BY <2>1, <2>2
<1>4. CASE Count(p)
  <2>1. FullSlots' = FullSlots /\ count_incoming' = (count_incoming + 1) % UIntMod
    BY <1>4 DEF FullSlots, Count
  <2>2. Counting' = Counting \ {p} /\ p \in Counting
    BY <1>4 DEF Counting, Count
  <2>3. Draining' = Draining
    BY <1>4 DEF Draining, Count
  <2>4. Cardinality(Counting') = Cardinality(Counting) - 1
    BY <2>2, CountedFinite, FS_RemoveElement
  <2>5. ToCount' = ToCount + 1
    BY <2>1, <2>3, <2>4, CountedFinite DEF ToCount
  <2> HIDE DEF ToCount
  <2>6. 1 \in Int
    OBVIOUS
  <2>7. ((ToCount % UIntMod) + 1) % UIntMod = (ToCount + 1) % UIntMod
    BY <1>0, <2>6, WrapAdd, Zenon
  <2> QED BY <1>0, <2>1, <2>5, <2>7
<1>5. CASE Swap(p)
  <2>1. NextSlot \in Slot
    BY SlotFacts DEF NextSlot
  <2>2. /\ FullSlots' = FullSlots \ {NextSlot} /\ NextSlot \in FullSlots
        /\ count_incoming' = count_incoming
    BY <1>5, <2>1 DEF FullSlots, Swap
  <2>3. Counting' = Counting
    BY <1>5 DEF Counting, Swap
  <2>4. Draining' = Draining \cup {p} /\ p \notin Draining
    BY <1>5 DEF Draining, Swap
  <2>5. /\ Cardinality(FullSlots') = Cardinality(FullSlots) - 1
        /\ Cardinality(Draining') = Cardinality(Draining) + 1
    BY <2>2, <2>4, CountedFinite, FS_AddElement, FS_RemoveElement
  <2>6. ToCount' = ToCount
    BY <2>3, <2>5, CountedFinite DEF ToCount
  <2> QED BY <1>0, <2>2, <2>6
<1>6. CASE Dec(p)
  <2>1. FullSlots' = FullSlots /\ count_incoming' = (count_incoming + (-1)) % UIntMod
    BY <1>6 DEF FullSlots, Dec, UInt
  <2>2. Draining' = Draining \ {p} /\ p \in Draining
    BY <1>6 DEF Draining, Dec
  <2>3. Counting' = Counting
    BY <1>6 DEF Counting, Dec
  <2>4. Cardinality(Draining') = Cardinality(Draining) - 1
    BY <2>2, CountedFinite, FS_RemoveElement
  <2>5. ToCount' = ToCount + (-1)
    BY <2>1, <2>3, <2>4, CountedFinite DEF ToCount
  <2> HIDE DEF ToCount
  <2>6. (-1) \in Int
    OBVIOUS
  <2>7. ((ToCount % UIntMod) + (-1)) % UIntMod = (ToCount + (-1)) % UIntMod
    BY <1>0, <2>6, WrapAdd, Zenon
  <2> QED BY <1>0, <2>1, <2>5, <2>7
<1> QED BY <1>1, <1>2, <1>3, <1>4, <1>5, <1>6 DEF Begin, InsertStep, DrainStep

-----------------------------------------------------------------------------
(***************************************************************************)
(* The tickets.                                                            *)
(***************************************************************************)
LEMMA FirstOutType ==
  ASSUME RingTypeOK
  PROVE  FirstOut \in UInt /\ FirstOut \in Nat
<1>1. first_incoming \in UInt /\ first_incoming + 1 \in Int
  BY SlotFacts DEF RingTypeOK
<1>2. (first_incoming + 1) % UIntMod \in UInt
  BY <1>1, SlotFacts, Zenon
<1> QED BY <1>1, <1>2, SlotFacts DEF FirstOut

(* A ticket's slot is one of the ring's. *)
LEMMA SlotOfType ==
  \A f, i \in Nat : SlotOf(f, i) \in Slot
<1> SUFFICES ASSUME NEW f \in Nat, NEW i \in Nat PROVE SlotOf(f, i) \in Slot
  OBVIOUS
<1>1. f + i \in Int
  OBVIOUS
<1>2. (f + i) % UIntMod \in Int
  BY <1>1, DivMod, RingAssumption
<1>3. ((f + i) % UIntMod) % RingSize \in Slot
  BY <1>2, SlotFacts, Zenon
<1> QED BY <1>3 DEF SlotOf

(* Most steps change neither the tickets nor what they stand for. *)
LEMMA SameMatching ==
  ASSUME RingTypeOK, TicketsMatch,
         \A t \in Task, s \in Slot : GoesTo(t, s)' <=> GoesTo(t, s),
         FirstOut' = FirstOut, last_incoming' = last_incoming
  PROVE  TicketsMatch'
<1>a. PICK n \in Nat : \E m \in [0..(n - 1) -> Task] : Matching(n, m)
  BY DEF TicketsMatch
<1>1. PICK m \in [0..(n - 1) -> Task] : Matching(n, m)
  BY <1>a
<1>2. \A i \in 0..(n - 1) : SlotOf(FirstOut, i) \in Slot
  BY FirstOutType, SlotOfType
<1>3. Matching(n, m)'
  BY <1>1, <1>2 DEF Matching, SlotOf
<1> QED BY <1>3 DEF TicketsMatch

(* A new ticket comes last. *)
LEMMA TicketMatching ==
  ASSUME Locals, Places, TicketsMatch, NEW p \in Thread, NEW t \in Task, Ticket(p, t)
  PROVE  TicketsMatch'
<1> USE DEF Locals, RingTypeOK
<1>a. PICK n \in Nat : \E m \in [0..(n - 1) -> Task] : Matching(n, m)
  BY DEF TicketsMatch
<1>1. PICK m \in [0..(n - 1) -> Task] : Matching(n, m)
  BY <1>a
<1> DEFINE m2 == [i \in 0..n |-> IF i = n THEN t ELSE m[i]]
<1>2. FirstOut' = FirstOut /\ FirstOut \in Nat
  BY FirstOutType DEF Ticket, Goto, FirstOut
<1>3. /\ last_incoming = (FirstOut + n) % UIntMod
      /\ last_incoming' = (last_incoming + 1) % UIntMod
      /\ ind'[p] = SlotOf(FirstOut, n)
  BY <1>1 DEF Ticket, Matching, SlotOf
<1>4. last_incoming' = (FirstOut' + (n + 1)) % UIntMod
  <2>1. (((FirstOut + n) % UIntMod) + 1) % UIntMod = ((FirstOut + n) + 1) % UIntMod
    <3>1. FirstOut + n \in Int /\ 1 \in Int
      BY <1>2
    <3> QED BY <3>1, WrapAdd, Zenon
  <2>2. (FirstOut + n) + 1 = FirstOut' + (n + 1)
    BY <1>2
  <2> QED BY <1>3, <2>1, <2>2
<1>5. SlotOf(FirstOut, n) \in Slot
  BY <1>2, SlotOfType
<1>6. /\ \A s \in Slot : GoesTo(t, s)' <=> s = SlotOf(FirstOut, n)
      /\ \A s \in Slot : ~ GoesTo(t, s)
  BY <1>3, <1>5, TaskAssumption DEF Ticket, Goto, GoesTo, Places, With, LocalsMatch
<1>7. \A u \in Task, s \in Slot : u # t => (GoesTo(u, s)' <=> GoesTo(u, s))
  BY TaskAssumption DEF Ticket, Goto, GoesTo, LocalsMatch
<1>8. \A i \in 0..(n - 1) : m[i] # t /\ SlotOf(FirstOut, i) \in Slot
  <2>1. \A i \in 0..(n - 1) : SlotOf(FirstOut, i) \in Slot
    BY <1>2, SlotOfType
  <2> QED BY <1>1, <1>6, <2>1 DEF Matching
<1>9. m2 \in [0..((n + 1) - 1) -> Task]
  OBVIOUS
<1>10. \A i, j \in 0..((n + 1) - 1) : m2[i] = m2[j] => i = j
  BY <1>1, <1>8 DEF Matching
<1>11. \A u \in Task : (\E s \in Slot : GoesTo(u, s)') => \E i \in 0..((n + 1) - 1) : m2[i] = u
  BY <1>1, <1>7 DEF Matching
<1>12. ASSUME NEW i \in 0..((n + 1) - 1) PROVE GoesTo(m2[i], SlotOf(FirstOut, i))'
  <2>1. CASE i = n
    <3>1. m2[i] = t
      BY <2>1
    <3>2. GoesTo(t, SlotOf(FirstOut, n))'
      BY <1>2, <1>5, <1>6 DEF GoesTo
    <3> QED BY <2>1, <3>1, <3>2
  <2>2. CASE i \in 0..(n - 1)
    <3>1. GoesTo(m[i], SlotOf(FirstOut, i)) /\ m2[i] = m[i] /\ m[i] \in Task
      BY <1>1, <2>2 DEF Matching
    <3> QED BY <1>2, <1>7, <1>8, <2>2, <3>1 DEF GoesTo
  <2> QED BY <2>1, <2>2
<1>13. Matching(n + 1, m2)'
  BY <1>4, <1>9, <1>10, <1>11, <1>12 DEF Matching, SlotOf
<1> QED BY <1>9, <1>13 DEF TicketsMatch

(***************************************************************************)
(* The drain takes the task of the first slot, and the first ticket goes   *)
(* out of use.  If the task had another ticket, the first task that is out *)
(* is on its way to the same slot, and takes over that ticket.             *)
(***************************************************************************)
LEMMA SwapMatching ==
  ASSUME Locals, Places, TicketsMatch, NEW p \in Thread, Swap(p)
  PROVE  TicketsMatch'
<1> USE DEF Locals, RingTypeOK
<1>0. NextSlot \in Slot
  BY SlotFacts DEF NextSlot
<1>a. PICK n \in Nat : \E m \in [0..(n - 1) -> Task] : Matching(n, m)
  BY DEF TicketsMatch
<1>1. PICK m \in [0..(n - 1) -> Task] : Matching(n, m)
  BY <1>a
<1>b. PICK t \in Task : tid_incoming[NextSlot] = t
  BY <1>0 DEF Swap
<1> DEFINE m2 == [i \in 0..(n - 2) |-> IF m[i + 1] = t THEN m[0] ELSE m[i + 1]]
<1>2. FirstOut = first_incoming /\ FirstOut' = (first_incoming + 1) % UIntMod
  BY DEF Swap, Goto, FirstOut, LockOwned, UnderLock
<1>3. GoesTo(t, NextSlot)
  BY <1>b DEF GoesTo
<1>4. PICK k \in 0..(n - 1) : m[k] = t
  BY <1>0, <1>1, <1>3 DEF Matching
<1>5. n - 1 \in Nat /\ 0 \in 0..(n - 1) /\ (n - 1) - 1 = n - 2
  BY <1>4
<1>6. SlotOf(FirstOut, 0) = NextSlot
  <2>1. first_incoming % UIntMod = first_incoming
    BY ModSmall, RingAssumption DEF UInt
  <2>2. first_incoming + 0 = first_incoming
    BY SlotFacts
  <2> QED BY <1>2, <2>1, <2>2 DEF SlotOf, NextSlot
<1>7. \A s \in Slot : GoesTo(t, s) => s = NextSlot
  BY <1>0, <1>b DEF Places, With, GoesTo
<1>8. \A s \in Slot : ~ GoesTo(t, s)'
  BY <1>0, <1>b, TaskAssumption DEF Swap, Goto, GoesTo, Places, With
<1>9. \A u \in Task, s \in Slot : u # t => (GoesTo(u, s)' <=> GoesTo(u, s))
  BY <1>0, <1>b, TaskAssumption DEF Swap, Goto, GoesTo
<1>10. \A i \in 0..(n - 1) : SlotOf(FirstOut, i) \in Slot
  BY FirstOutType, SlotOfType
<1>11. ASSUME NEW i \in 0..(n - 2)
       PROVE  SlotOf(FirstOut', i) = SlotOf(FirstOut, i + 1)
  <2>1. (((first_incoming + 1) % UIntMod) + i) % UIntMod
          = ((first_incoming + 1) + i) % UIntMod
    <3>1. first_incoming + 1 \in Int /\ i \in Int
      BY SlotFacts
    <3> QED BY <3>1, WrapAdd, Zenon
  <2>2. (first_incoming + 1) + i = first_incoming + (i + 1)
    BY DEF UInt
  <2> QED BY <1>2, <2>1, <2>2 DEF SlotOf
<1>12. last_incoming' = (FirstOut' + (n - 1)) % UIntMod
  <2>1. last_incoming' = (first_incoming + n) % UIntMod
    BY <1>1, <1>2 DEF Swap, Matching
  <2>2. (((first_incoming + 1) % UIntMod) + (n - 1)) % UIntMod
          = ((first_incoming + 1) + (n - 1)) % UIntMod
    <3>1. first_incoming + 1 \in Int /\ (n - 1) \in Int
      BY SlotFacts
    <3> QED BY <3>1, WrapAdd, Zenon
  <2>3. (first_incoming + 1) + (n - 1) = first_incoming + n
    BY DEF UInt
  <2> QED BY <1>2, <2>1, <2>2, <2>3
<1>13. m2 \in [0..((n - 1) - 1) -> Task]
  BY <1>5
<1>14. \A i, j \in 0..((n - 1) - 1) : m2[i] = m2[j] => i = j
  BY <1>1, <1>4, <1>5 DEF Matching
<1>15. ASSUME NEW u \in Task, \E s \in Slot : GoesTo(u, s)'
       PROVE  \E i \in 0..((n - 1) - 1) : m2[i] = u
  <2>1. u # t /\ \E s \in Slot : GoesTo(u, s)
    BY <1>8, <1>9, <1>15
  <2>2. PICK j \in 0..(n - 1) : m[j] = u
    BY <1>1, <2>1 DEF Matching
  <2>3. CASE j # 0
    <3>1. j - 1 \in 0..((n - 1) - 1) /\ m2[j - 1] = u
      BY <2>1, <2>2, <2>3
    <3> QED BY <3>1
  <2>4. CASE j = 0
    <3>1. k # 0
      BY <1>4, <2>1, <2>2, <2>4
    <3>2. k - 1 \in 0..((n - 1) - 1) /\ m2[k - 1] = u
      BY <1>4, <2>2, <2>4, <3>1
    <3> QED BY <3>2
  <2> QED BY <2>3, <2>4
<1>16. ASSUME NEW i \in 0..((n - 1) - 1)
       PROVE  GoesTo(m2[i], SlotOf(FirstOut, i))'
  <2>1. i \in 0..(n - 2) /\ i + 1 \in 0..(n - 1) /\ m2[i] \in Task
    BY <1>5
  <2>2. m2[i] # t
    BY <1>1, <1>5, <2>1 DEF Matching
  <2>3. GoesTo(m2[i], SlotOf(FirstOut, i + 1))
    <3>1. CASE m[i + 1] = t
      <4>1. SlotOf(FirstOut, i + 1) = NextSlot
        BY <1>1, <1>7, <1>10, <2>1, <3>1 DEF Matching
      <4>2. GoesTo(m[0], NextSlot)
        BY <1>1, <1>5, <1>6 DEF Matching
      <4> QED BY <2>1, <3>1, <4>1, <4>2
    <3>2. CASE m[i + 1] # t
      BY <1>1, <2>1, <3>2 DEF Matching
    <3> QED BY <3>1, <3>2
  <2>4. SlotOf(FirstOut', i) \in Slot /\ SlotOf(FirstOut', i) = SlotOf(FirstOut, i + 1)
    BY <1>10, <1>11, <2>1
  <2> QED BY <1>9, <2>1, <2>2, <2>3, <2>4 DEF GoesTo
<1>17. Matching(n - 1, m2)'
  BY <1>12, <1>13, <1>14, <1>15, <1>16 DEF Matching, SlotOf
<1> QED BY <1>5, <1>13, <1>17 DEF TicketsMatch

LEMMA TicketStep ==
  ASSUME Locals, Places, TicketsMatch, RingNext
  PROVE  TicketsMatch'
<1> USE DEF Locals, RingTypeOK, Goto
<1>1. PICK p \in Thread :
        \/ Begin(p) \/ InsertStep(p) \/ DrainStep(p) \/ Nothing(p)
        \/ \E t \in Task : Take(p, t)
  BY DEF RingNext
<1>2. CASE \E t \in Task : Ticket(p, t)
  BY <1>2, TicketMatching
<1>3. CASE Swap(p)
  BY <1>3, SwapMatching
<1>4. CASE \/ GetLock(p) \/ Help(p) \/ DrainEnd(p) \/ Nothing(p) \/ Push(p) \/ Dec(p)
           \/ \E t \in Task : Take(p, t)
  <2>1. \A t \in Task, s \in Slot : GoesTo(t, s)' <=> GoesTo(t, s)
    BY <1>4 DEF GoesTo, GetLock, Help, DrainEnd, Nothing, Push, Dec, Take
  <2>2. FirstOut' = FirstOut /\ last_incoming' = last_incoming
    BY <1>4 DEF FirstOut, GetLock, Help, DrainEnd, Nothing, Push, Dec, Take
  <2> QED BY <2>1, <2>2, SameMatching
<1>5. CASE Store(p)
  <2>1. \A t \in Task, s \in Slot : GoesTo(t, s)' <=> GoesTo(t, s)
    BY <1>5, TaskAssumption DEF GoesTo, Store
  <2>2. FirstOut' = FirstOut /\ last_incoming' = last_incoming
    BY <1>5 DEF FirstOut, Store
  <2> QED BY <2>1, <2>2, SameMatching
<1>6. CASE Count(p)
  <2>1. \A t \in Task, s \in Slot : GoesTo(t, s)' <=> GoesTo(t, s)
    BY <1>6, TaskAssumption DEF GoesTo, Count
  <2>2. FirstOut' = FirstOut /\ last_incoming' = last_incoming
    BY <1>6 DEF FirstOut, Count
  <2> QED BY <2>1, <2>2, SameMatching
<1>7. CASE Advance(p)
  <2>1. \A t \in Task, s \in Slot : GoesTo(t, s)' <=> GoesTo(t, s)
    BY <1>7 DEF GoesTo, Advance
  <2>2. \A q \in Thread : pc'[q] # "advance"
    BY <1>7 DEF Advance, LockOwned, UnderLock
  <2>3. FirstOut' = FirstOut /\ last_incoming' = last_incoming
    BY <1>7, <2>2 DEF FirstOut, Advance
  <2> QED BY <2>1, <2>3, SameMatching
<1> QED BY <1>1, <1>2, <1>3, <1>4, <1>5, <1>6, <1>7
        DEF Begin, InsertStep, DrainStep

-----------------------------------------------------------------------------
LEMMA InitIInv == RingInit => IInv
<1> SUFFICES ASSUME RingInit PROVE IInv
  OBVIOUS
<1>1. 0 \in Slot /\ 0 \in UInt
  BY RingAssumption DEF Slot, UInt
<1>2. RingTypeOK
  BY <1>1 DEF RingInit, RingTypeOK
<1>3. LockOwned /\ LocalsMatch
  BY DEF RingInit, LockOwned, LocalsMatch, UnderLock
<1>4. TaskInOnePlace
  <2>1. Places
    BY TaskAssumption DEF RingInit, Places, With
  <2> QED BY <1>2, <2>1, PlacesEquiv
<1>5. CountIncomingExact
  <2>1. FullSlots = {} /\ Draining = {} /\ Counting = {}
    BY DEF RingInit, FullSlots, Draining, Counting
  <2>2. ToCount = 0
    BY <2>1, FS_EmptySet DEF ToCount
  <2>3. 0 % UIntMod = 0
    BY ModSmall, RingAssumption
  <2> QED BY <2>2, <2>3
          DEF RingInit, CountIncomingExact, ToCount, FullSlots, Draining, Counting
<1>6. TicketsMatch
  <2> DEFINE m == [i \in 0..(0 - 1) |-> CHOOSE t \in Task : TRUE]
  <2>1. m \in [0..(0 - 1) -> Task]
    OBVIOUS
  <2>2. FirstOut = first_incoming /\ \A t \in Task, s \in Slot : ~ GoesTo(t, s)
    BY TaskAssumption DEF RingInit, FirstOut, GoesTo
  <2>3. first_incoming + 0 = first_incoming /\ first_incoming % UIntMod = first_incoming
    BY <1>2, ModSmall, RingAssumption DEF RingTypeOK, UInt
  <2>4. last_incoming = (FirstOut + 0) % UIntMod
    BY <2>2, <2>3 DEF RingInit
  <2>5. Matching(0, m)
    BY <2>1, <2>2, <2>4 DEF Matching
  <2> QED BY <2>1, <2>5 DEF TicketsMatch
<1> QED BY <1>2, <1>3, <1>4, <1>5, <1>6 DEF IInv

LEMMA StepIInv == IInv /\ [RingNext]_ringVars => IInv'
<1> SUFFICES ASSUME IInv, [RingNext]_ringVars PROVE IInv'
  OBVIOUS
<1>1. Locals /\ Places
  BY PlacesEquiv DEF IInv, Locals
<1>2. CASE RingNext
  <2>1. Locals' /\ Places' /\ CountIncomingExact' /\ TicketsMatch'
    BY <1>1, <1>2, LocalsStep, PlacesStep, CountStep, TicketStep DEF IInv
  <2>2. RingTypeOK' => (TaskInOnePlace' <=> Places')
    BY PlacesEquiv, PTL
  <2> QED BY <2>1, <2>2 DEF IInv, Locals
<1>3. CASE UNCHANGED ringVars
  <2>1. Locals'
    BY <1>1, <1>3 DEF Locals, RingTypeOK, LockOwned, LocalsMatch, UnderLock, ringVars
  <2>2. TaskInOnePlace' /\ CountIncomingExact'
    BY <1>3 DEF IInv, ringVars, TaskInOnePlace, Inserting, Incoming, InHand,
                CountIncomingExact
  <2>3. TicketsMatch'
    <3>1. \A t \in Task, s \in Slot : GoesTo(t, s)' <=> GoesTo(t, s)
      BY <1>3 DEF GoesTo, ringVars
    <3>2. FirstOut' = FirstOut /\ last_incoming' = last_incoming
      BY <1>3 DEF FirstOut, ringVars
    <3> QED BY <3>1, <3>2, SameMatching DEF IInv
  <2> QED BY <2>1, <2>2, <2>3 DEF IInv, Locals
<1> QED BY <1>2, <1>3

LEMMA InvariantHolds == RingSpec => []IInv
<1> QED BY InitIInv, StepIInv, PTL DEF RingSpec

-----------------------------------------------------------------------------
(***************************************************************************)
(* The fields of the queue and the locals of its callers keep their types: *)
(* no index leaves the ring and no counter its width.                      *)
(***************************************************************************)
THEOREM TypeCorrect == RingSpec => []RingTypeOK
<1>1. IInv => RingTypeOK
  BY DEF IInv
<1> QED BY <1>1, InvariantHolds, PTL

(***************************************************************************)
(* queue_insert and queue_gettask lose no task and duplicate none, however *)
(* many threads insert, help and drain.                                    *)
(***************************************************************************)
THEOREM NoTaskLost == RingSpec => []TaskInOnePlace
<1>1. IInv => TaskInOnePlace
  BY DEF IInv
<1> QED BY <1>1, InvariantHolds, PTL

(***************************************************************************)
(* count_incoming is right whenever no thread is between moving a task and *)
(* counting it, through every wrap.                                        *)
(***************************************************************************)
THEOREM CountRight == RingSpec => []CountIncomingExact
<1>1. IInv => CountIncomingExact
  BY DEF IInv
<1> QED BY <1>1, InvariantHolds, PTL

(***************************************************************************)
(* The drain, which stops at the first empty slot, never stops in front of *)
(* a task that is in the ring, although the counters wrap at a number the  *)
(* size of the ring does not divide.                                       *)
(***************************************************************************)
THEOREM NoneStranded == RingSpec => []NotStranded
<1>1. IInv => NotStranded
  <2> SUFFICES ASSUME IInv, Inserting = {}, \A p \in Thread : pc[p] # "advance",
                      Incoming # {}
               PROVE  tid_incoming[NextSlot] # NoTask
    BY DEF NotStranded
  <2>1. PICK n \in Nat : \E m \in [0..(n - 1) -> Task] : Matching(n, m)
    BY DEF IInv, TicketsMatch
  <2>2. PICK m \in [0..(n - 1) -> Task] : Matching(n, m)
    BY <2>1
  <2>3. \E i \in 0..(n - 1) : TRUE
    BY <2>2 DEF IInv, RingTypeOK, Incoming, Matching, GoesTo
  <2>4. 0 \in 0..(n - 1) /\ m[0] \in Task
    BY <2>3
  <2>5. FirstOut = first_incoming /\ first_incoming + 0 = first_incoming
    BY SlotFacts DEF FirstOut, IInv, RingTypeOK
  <2>6. first_incoming % UIntMod = first_incoming
    BY ModSmall, RingAssumption DEF IInv, RingTypeOK, UInt
  <2>7. GoesTo(m[0], NextSlot)
    BY <2>2, <2>4, <2>5, <2>6 DEF Matching, SlotOf, NextSlot
  <2>8. \A p \in Thread : ~ (pc[p] # "count" /\ arg[p] = m[0])
    BY <2>4, TaskAssumption DEF Inserting
  <2> QED BY <2>4, <2>7, <2>8, TaskAssumption DEF GoesTo
<1> QED BY <1>1, InvariantHolds, PTL
=============================================================================
