-------------------------- MODULE QueueHeapProofs --------------------------
(***************************************************************************)
(* Proofs about QueueHeap for any number of threads, tasks and weights.    *)
(* The argument:                                                           *)
(*                                                                         *)
(*  - a sift is a walk along one branch of the tree of indices: from k the *)
(*    entry sinks to the larger child, or rises to the parent, until it    *)
(*    may stop.  SiftDownTo and BubbleUpTo say where the walk ends and     *)
(*    SiftStep and BubbleUpStep say that the walk from k is one exchange   *)
(*    of neighbours and then the walk from the neighbour;                  *)
(*  - an exchange neither loses nor doubles an entry (ExchangeKeeps), and  *)
(*    an array that is a heap but for the pairs below k, or but for the    *)
(*    pair above k, is after the exchange one but for the pairs of the     *)
(*    neighbour (SiftDownHeap, BubbleUpHeap).  These are inductions over   *)
(*    the length of the walk, in the form of a least counterexample;       *)
(*  - HeapInv joins what is in the array (Content), the order (Ordered)    *)
(*    and the scan (Scanned): what lies before the place of the scan has   *)
(*    been tried, because a refused entry that sinks changes nothing       *)
(*    before its place.                                                    *)
(***************************************************************************)
EXTENDS QueueHeap, QueueRingProofs, WellFoundedInduction, SequenceTheorems

-----------------------------------------------------------------------------
LEMMA LessWF == IsWellFoundedOn({ss \in Nat \X Nat : ss[1] < ss[2]}, Nat)
  BY NatLessThanWellFounded, Zenon DEF OpToRel

(* A set of naturals that is not empty has a least element. *)
LEMMA Least ==
  ASSUME NEW S \in SUBSET Nat, S # {}
  PROVE  \E x \in S : \A y \in S : x <= y
<1>1. \E x \in S : \A y \in S : ~ (<<y, x>> \in {ss \in Nat \X Nat : ss[1] < ss[2]})
  BY LessWF, WFMin, Zenon
<1>2. PICK x \in S : \A y \in S : ~ (<<y, x>> \in {ss \in Nat \X Nat : ss[1] < ss[2]})
  BY <1>1
<1>3. ASSUME NEW y \in S PROVE x <= y
  <2>1. ~(y < x)
    BY <1>2
  <2> QED
    BY <2>1
<1> QED
  BY <1>3

LEMMA HalfFacts ==
  ASSUME NEW k \in Nat \ {0}
  PROVE  /\ k \div 2 \in Nat /\ k \div 2 < k
         /\ k = 2 * (k \div 2) \/ k = 2 * (k \div 2) + 1
  OBVIOUS

(* The way of k to the top, and on to 0. *)
Ups(k) ==
  {m \in Nat : \A S \in SUBSET Nat : k \in S /\ (\A x \in S : x \div 2 \in S) => m \in S}

LEMMA UpsIs ==
  ASSUME NEW k \in Nat
  PROVE  Ups(k) = {k} \cup Ups(k \div 2)
<1>0. k \div 2 \in Nat
  OBVIOUS
<1>1. k \in Ups(k)
  BY DEF Ups
<1>2. Ups(k \div 2) \subseteq Ups(k)
  BY DEF Ups
<1>3. Ups(k) \subseteq {k} \cup Ups(k \div 2)
  <2> DEFINE T == {k} \cup Ups(k \div 2)
  <2>1. T \in SUBSET Nat /\ k \in T
    BY DEF Ups
  <2>2. ASSUME NEW x \in T PROVE x \div 2 \in T
    <3>1. CASE x = k
      BY <3>1, <1>0 DEF Ups
    <3>2. CASE x \in Ups(k \div 2)
      <4>1. x \in Nat /\ x \div 2 \in Nat
        BY <3>2 DEF Ups
      <4>2. x \div 2 \in Ups(k \div 2)
        BY <4>1, <3>2 DEF Ups
      <4> QED
        BY <4>2
    <3> QED
      BY <3>1, <3>2
  <2> HIDE DEF T
  <2>3. Ups(k) \subseteq T
    BY <2>1, <2>2 DEF Ups
  <2> QED
    BY <2>3 DEF T
<1> QED
  BY <1>1, <1>2, <1>3

IsClimb(f, j, k) == f = [i \in 0..k |-> i > 0 /\ (i = j \/ f[i \div 2])]

LEMMA ClimbIs ==
  ASSUME NEW j \in Nat \ {0}, NEW k \in Nat
  PROVE  IsAncestor(j, k) <=> k > 0 /\ j \in Ups(k)
<1> DEFINE g == [i \in 0..k |-> i > 0 /\ j \in Ups(i)]
<1>1. IsClimb(g, j, k)
  <2>1. ASSUME NEW i \in 0..k
        PROVE  (i > 0 /\ j \in Ups(i)) <=> (i > 0 /\ (i = j \/ g[i \div 2]))
    <3>1. CASE i = 0
      BY <3>1
    <3>2. CASE i > 0
      <4>1. i \in Nat /\ i \div 2 \in Nat /\ i \div 2 \in 0..k
        BY <3>2
      <4>2. j \in Ups(i) <=> (i = j \/ j \in Ups(i \div 2))
        BY <4>1, UpsIs
      <4>3. g[i \div 2] <=> (i \div 2 > 0 /\ j \in Ups(i \div 2))
        BY <4>1
      <4>4. ASSUME i \div 2 = 0, j \in Ups(i \div 2) PROVE FALSE
        <5>1. {0} \in SUBSET Nat /\ 0 \in {0} /\ \A x \in {0} : x \div 2 \in {0}
          OBVIOUS
        <5>2. j \in {0}
          BY <4>4, <5>1 DEF Ups
        <5> QED
          BY <5>2
      <4>5. i \div 2 > 0 \/ i \div 2 = 0
        BY <4>1
      <4> QED
        BY <3>2, <4>2, <4>3, <4>4, <4>5, Zenon
    <3> QED
      BY <3>1, <3>2
  <2> QED
    BY <2>1, Zenon DEF IsClimb
<1>2. ASSUME NEW f, IsClimb(f, j, k) PROVE f[k] <=> g[k]
  <2> DEFINE S == {i \in 0..k : f[i] # g[i]}
  <2>1. ASSUME S # {} PROVE FALSE
    <3>0. S \in SUBSET Nat
      OBVIOUS
    <3>1. PICK i \in S : \A x \in S : i <= x
      <4> HIDE DEF S
      <4> QED
        BY <2>1, <3>0, Least
    <3>2. f[i] = (i > 0 /\ (i = j \/ f[i \div 2]))
      BY <1>2, Zenon DEF IsClimb
    <3>3. g[i] = (i > 0 /\ (i = j \/ g[i \div 2]))
      BY <1>1, Zenon DEF IsClimb
    <3>4. i > 0
      BY <3>1, <3>2, <3>3, Zenon
    <3>5. i \div 2 \in 0..k /\ i \div 2 < i
      BY <3>4
    <3>6. i \div 2 \notin S
      BY <3>1, <3>5
    <3>7. f[i \div 2] = g[i \div 2]
      BY <3>5, <3>6
    <3> HIDE DEF g
    <3> QED
      BY <3>1, <3>2, <3>3, <3>7, Zenon
  <2>2. k \in 0..k
    OBVIOUS
  <2> QED
    BY <2>1, <2>2
<1>3. \E f : IsClimb(f, j, k) /\ (IsAncestor(j, k) <=> f[k])
  BY <1>1, Zenon DEF IsAncestor, IsClimb
<1>4. g[k] <=> k > 0 /\ j \in Ups(k)
  <2>1. k \in 0..k
    OBVIOUS
  <2> QED
    BY <2>1, Zenon
<1> HIDE DEF g
<1> QED
  BY <1>2, <1>3, <1>4, Zenon

(* IsAncestor, step by step. *)
LEMMA AncestorIs ==
  ASSUME NEW j \in Nat \ {0}, NEW k \in Nat \ {0}
  PROVE  IsAncestor(j, k) <=> (j = k \/ IsAncestor(j, k \div 2))
<1>1. k \div 2 \in Nat /\ k > 0
  OBVIOUS
<1>2. IsAncestor(j, k) <=> j \in Ups(k)
  BY <1>1, ClimbIs
<1>3. IsAncestor(j, k \div 2) <=> k \div 2 > 0 /\ j \in Ups(k \div 2)
  BY <1>1, ClimbIs
<1>4. j \in Ups(k \div 2) => k \div 2 > 0
  <2>1. SUFFICES ASSUME k \div 2 = 0, j \in Ups(0) PROVE FALSE
    BY <1>1
  <2>2. {0} \in SUBSET Nat /\ 0 \in {0} /\ \A x \in {0} : x \div 2 \in {0}
    OBVIOUS
  <2>3. j \in {0}
    BY <2>1, <2>2 DEF Ups
  <2> QED
    BY <2>3
<1> QED
  BY <1>2, <1>3, <1>4, UpsIs

(* Nothing is above the top. *)
LEMMA AncestorZero ==
  ASSUME NEW j \in Nat \ {0}
  PROVE  ~IsAncestor(j, 0)
  BY ClimbIs

LEMMA AncestorSelf ==
  ASSUME NEW j \in Nat \ {0}
  PROVE  IsAncestor(j, j)
  BY AncestorIs

LEMMA AncestorBelow ==
  ASSUME NEW j \in Nat \ {0}, NEW k \in Nat, IsAncestor(j, k)
  PROVE  j <= k
<1> DEFINE S == {i \in Nat : IsAncestor(j, i) /\ ~(j <= i)}
<1>1. SUFFICES ASSUME S # {} PROVE FALSE
  OBVIOUS
<1>2. S \in SUBSET Nat
  OBVIOUS
<1>3. PICK i \in S : \A x \in S : i <= x
  <2> HIDE DEF S
  <2> QED
    BY <1>1, <1>2, Least
<1>4. i # 0 /\ i \in Nat
  BY AncestorZero
<1>5. IsAncestor(j, i \div 2)
  BY <1>4, AncestorIs
<1>6. i \div 2 \in Nat /\ i \div 2 < i
  BY <1>4, HalfFacts
<1>7. i \div 2 \notin S
  BY <1>3, <1>6
<1> QED
  BY <1>5, <1>6, <1>7

LEMMA AncestorTrans ==
  ASSUME NEW a \in Nat \ {0}, NEW b \in Nat \ {0}, NEW c \in Nat,
         IsAncestor(a, b), IsAncestor(b, c)
  PROVE  IsAncestor(a, c)
<1> DEFINE S == {i \in Nat : IsAncestor(b, i) /\ ~IsAncestor(a, i)}
<1>1. SUFFICES ASSUME S # {} PROVE FALSE
  OBVIOUS
<1>2. S \in SUBSET Nat
  OBVIOUS
<1>3. PICK i \in S : \A x \in S : i <= x
  <2> HIDE DEF S
  <2> QED
    BY <1>1, <1>2, Least
<1>4. i # 0 /\ i \in Nat
  BY AncestorZero
<1>5. i # b /\ IsAncestor(b, i \div 2) /\ ~IsAncestor(a, i \div 2)
  BY <1>4, AncestorIs
<1>6. i \div 2 \in Nat /\ i \div 2 < i
  BY <1>4, HalfFacts
<1>7. i \div 2 \notin S
  BY <1>3, <1>6
<1> QED
  BY <1>5, <1>6, <1>7

(* Of two entries above c the first is above the second. *)
LEMMA AncestorChain ==
  ASSUME NEW a \in Nat \ {0}, NEW b \in Nat \ {0}, NEW c \in Nat, a <= b,
         IsAncestor(a, c), IsAncestor(b, c)
  PROVE  IsAncestor(a, b)
<1> DEFINE S == {i \in Nat : IsAncestor(a, i) /\ IsAncestor(b, i)}
<1>1. S # {} /\ S \in SUBSET Nat
  OBVIOUS
<1>2. PICK i \in S : \A x \in S : i <= x
  <2> HIDE DEF S
  <2> QED
    BY <1>1, Least
<1>3. i # 0 /\ i \in Nat
  BY AncestorZero
<1>4. i \div 2 \in Nat /\ i \div 2 < i
  BY <1>3, HalfFacts
<1>5. i \div 2 \notin S
  BY <1>2, <1>4
<1>6. i = a \/ i = b
  BY <1>3, <1>4, <1>5, AncestorIs
<1>7. a <= i /\ b <= i
  BY <1>3, AncestorBelow
<1>8. i = b
  BY <1>3, <1>6, <1>7
<1> QED
  BY <1>8

-----------------------------------------------------------------------------
(* Where the steps of g lead from k. *)
Trace(S, g, k) ==
  {x \in S : \A T \in SUBSET S : k \in T /\ (\A y \in T : g[y] \in T) => x \in T}

(* f says where the steps of g end. *)
IsEnd(f, S, g) == f = [i \in S |-> IF g[i] = i THEN i ELSE f[g[i]]]

(* Steps that come closer to an end, as m measures it, have one. *)
LEMMA EndExists ==
  ASSUME NEW S, NEW g \in [S -> S], NEW m \in [S -> Nat],
         \A i, j \in S : m[i] = m[j] => i = j,
         \A i \in S : g[i] # i => m[g[i]] < m[i]
  PROVE  \E f : IsEnd(f, S, g)
<1> DEFINE low(k) == CHOOSE x \in Trace(S, g, k) : \A y \in Trace(S, g, k) : m[x] <= m[y]
           f == [k \in S |-> low(k)]
<1>1. ASSUME NEW k \in S
      PROVE  k \in Trace(S, g, k) /\ Trace(S, g, k) \in SUBSET S
  BY DEF Trace
<1>2. ASSUME NEW k \in S
      PROVE  low(k) \in Trace(S, g, k) /\ \A y \in Trace(S, g, k) : m[low(k)] <= m[y]
  <2> DEFINE M == {m[x] : x \in Trace(S, g, k)}
  <2>1. M \in SUBSET Nat /\ M # {}
    BY <1>1
  <2>2. PICK n \in M : \A y \in M : n <= y
    <3> HIDE DEF M
    <3> QED
      BY <2>1, Least
  <2>3. PICK x \in Trace(S, g, k) : n = m[x]
    BY <2>2
  <2>4. \A y \in Trace(S, g, k) : m[x] <= m[y]
    BY <2>2, <2>3
  <2> QED
    BY <2>4, Zenon
<1>3. ASSUME NEW k \in S, g[k] = k
      PROVE  low(k) = k
  <2>1. \A x \in Trace(S, g, k) : x \in {k}
    <3> SUFFICES ASSUME NEW x \in Trace(S, g, k) PROVE x \in {k}
      OBVIOUS
    <3>1. {k} \in SUBSET S /\ k \in {k} /\ \A y \in {k} : g[y] \in {k}
      BY <1>3
    <3> QED
      BY <3>1 DEF Trace
  <2> HIDE DEF low
  <2> QED
    BY <2>1, <1>2
<1>4. ASSUME NEW k \in S, g[k] # k
      PROVE  low(k) = low(g[k])
  <2>1. g[k] \in S /\ m[g[k]] < m[k] /\ m[g[k]] \in Nat /\ m[k] \in Nat
    BY <1>4
  <2>2. Trace(S, g, g[k]) \subseteq Trace(S, g, k)
    BY DEF Trace
  <2>3. Trace(S, g, k) \subseteq {k} \cup Trace(S, g, g[k])
    <3> DEFINE T == {k} \cup Trace(S, g, g[k])
    <3>1. T \in SUBSET S /\ k \in T
      BY DEF Trace
    <3>2. ASSUME NEW x \in T PROVE g[x] \in T
      <4>1. CASE x = k
        BY <4>1, <2>1, <1>1
      <4>2. CASE x \in Trace(S, g, g[k])
        <5>1. x \in S /\ g[x] \in S
          BY <4>2 DEF Trace
        <5>2. g[x] \in Trace(S, g, g[k])
          BY <5>1, <4>2 DEF Trace
        <5> QED
          BY <5>2
      <4> QED
        BY <4>1, <4>2
    <3> HIDE DEF T
    <3>3. Trace(S, g, k) \subseteq T
      BY <3>1, <3>2 DEF Trace
    <3> QED
      BY <3>3 DEF T
  <2>4. g[k] \in Trace(S, g, k)
    BY <2>1, <2>2, <1>1
  <2> HIDE DEF low
  <2>5. low(k) # k
    <3>1. m[low(k)] <= m[g[k]]
      BY <2>4, <1>2
    <3> QED
      BY <3>1, <2>1
  <2>6. low(k) \in Trace(S, g, g[k]) /\ low(g[k]) \in Trace(S, g, k)
    BY <2>1, <2>2, <2>3, <2>5, <1>2
  <2>7. m[low(k)] <= m[low(g[k])] /\ m[low(g[k])] <= m[low(k)]
    BY <2>1, <2>6, <1>2
  <2>8. low(k) \in S /\ low(g[k]) \in S
    BY <2>6 DEF Trace
  <2>9. m[low(k)] = m[low(g[k])]
    <3>1. m[low(k)] \in Nat /\ m[low(g[k])] \in Nat
      BY <2>8
    <3> QED
      BY <2>7, <3>1
  <2> QED
    BY <2>8, <2>9
<1>5. IsEnd(f, S, g)
  <2> HIDE DEF low
  <2>1. ASSUME NEW k \in S
        PROVE  f[k] = IF g[k] = k THEN k ELSE f[g[k]]
    BY <1>3, <1>4
  <2> QED
    BY <2>1 DEF IsEnd
<1> QED
  BY <1>5

-----------------------------------------------------------------------------
(* Sequences of entries as functions. *)
Arrays(n) == {es \in Seq(Entry) : Len(es) = n}

LEMMA ArrayIs ==
  ASSUME NEW n \in Nat
  PROVE  Arrays(n) = [1..n -> Entry]
<1>1. ASSUME NEW es \in Arrays(n) PROVE es \in [1..n -> Entry]
  BY <1>1 DEF Arrays
<1>2. ASSUME NEW es \in [1..n -> Entry] PROVE es \in Arrays(n)
  <2>1. es \in Seq(Entry)
    BY SeqDef
  <2>2. DOMAIN es = 1..Len(es) /\ Len(es) \in Nat /\ DOMAIN es = 1..n
    BY <2>1, LenProperties
  <2> QED
    BY <2>1, <2>2 DEF Arrays
<1> QED
  BY <1>1, <1>2

LEMMA EntryIs ==
  ASSUME NEW n \in Nat, NEW es \in Arrays(n), NEW k \in 1..n
  PROVE  /\ es[k] \in Entry /\ es[k].weight \in Nat /\ es[k].tid \in Task
         /\ DOMAIN es = 1..n /\ Len(es) = n
<1>1. es \in [1..n -> Entry]
  BY ArrayIs
<1> QED
  BY <1>1 DEF Arrays, Entry

(* The larger of the children that k has. *)
LEMMA ChildIs ==
  ASSUME NEW n \in Nat, NEW es \in Arrays(n), NEW k \in Nat \ {0}, 2 * k <= n
  PROVE  /\ LargerChild(es, k) \in 1..n
         /\ LargerChild(es, k) > k
         /\ LargerChild(es, k) \div 2 = k
         /\ \A j \in 1..n : j \div 2 = k => es[j].weight <= es[LargerChild(es, k)].weight
<1>1. 2 * k \in 1..n /\ Len(es) = n
  BY DEF Arrays
<1>2. CASE 2 * k + 1 <= n /\ es[2 * k + 1].weight > es[2 * k].weight
  <2>1. LargerChild(es, k) = 2 * k + 1
    BY <1>1, <1>2 DEF LargerChild
  <2>2. 2 * k + 1 \in 1..n
    BY <1>2
  <2>3. ASSUME NEW j \in 1..n, j \div 2 = k
        PROVE  es[j].weight <= es[2 * k + 1].weight
    <3>1. j = 2 * k \/ j = 2 * k + 1
      BY <2>3
    <3>2. es[2 * k].weight \in Nat /\ es[2 * k + 1].weight \in Nat
      BY <1>1, <2>2, EntryIs
    <3> QED
      BY <1>2, <3>1, <3>2
  <2>4. (2 * k + 1) \div 2 = k
    OBVIOUS
  <2> QED
    BY <2>1, <2>2, <2>3, <2>4
<1>3. CASE ~(2 * k + 1 <= n /\ es[2 * k + 1].weight > es[2 * k].weight)
  <2>1. LargerChild(es, k) = 2 * k
    BY <1>1, <1>3 DEF LargerChild
  <2>2. ASSUME NEW j \in 1..n, j \div 2 = k
        PROVE  es[j].weight <= es[2 * k].weight
    <3>1. j = 2 * k \/ j = 2 * k + 1
      BY <2>2
    <3>2. es[2 * k].weight \in Nat /\ es[j].weight \in Nat
      BY <1>1, EntryIs
    <3> QED
      BY <1>3, <3>1, <3>2
  <2>3. (2 * k) \div 2 = k
    OBVIOUS
  <2> QED
    BY <1>1, <2>1, <2>2, <2>3
<1> QED
  BY <1>2, <1>3

-----------------------------------------------------------------------------
(* f says where an entry of weight w that starts to sink at i stops. *)
IsSink(f, es, w) ==
  f = [i \in 1..Len(es) |->
         IF 2 * i > Len(es) \/ es[LargerChild(es, i)].weight <= w
         THEN i ELSE f[LargerChild(es, i)]]

LEMMA SinkIs ==
  ASSUME NEW n \in Nat, NEW es \in Arrays(n), NEW k \in 1..n
  PROVE  \E f : IsSink(f, es, es[k].weight) /\ SiftDownTo(es, k) = f[k]
<1> DEFINE w == es[k].weight
           stays(i) == 2 * i > n \/ es[LargerChild(es, i)].weight <= w
           g == [i \in 1..n |-> IF stays(i) THEN i ELSE LargerChild(es, i)]
           m == [i \in 1..n |-> n - i]
<1>1. ASSUME NEW i \in 1..n, ~stays(i)
      PROVE  LargerChild(es, i) \in 1..n /\ LargerChild(es, i) > i
  <2>1. i \in Nat \ {0} /\ 2 * i <= n
    BY <1>1
  <2> QED
    BY <2>1, ChildIs
<1>2. g \in [1..n -> 1..n]
  <2> HIDE DEF stays
  <2> QED
    BY <1>1
<1>3. m \in [1..n -> Nat] /\ \A i, j \in 1..n : m[i] = m[j] => i = j
  OBVIOUS
<1>4. ASSUME NEW i \in 1..n, g[i] # i PROVE m[g[i]] < m[i]
  <2> HIDE DEF stays
  <2>1. ~stays(i) /\ g[i] = LargerChild(es, i)
    BY <1>4
  <2> QED
    BY <1>1, <2>1
<1>5. PICK f : IsEnd(f, 1..n, g)
  <2> HIDE DEF g, m
  <2> QED
    BY <1>2, <1>3, <1>4, EndExists
<1>6. Len(es) = n
  BY DEF Arrays
<1>7. ASSUME NEW i \in 1..n
      PROVE  f[i] = IF 2 * i > Len(es) \/ es[LargerChild(es, i)].weight <= w
                    THEN i ELSE f[LargerChild(es, i)]
  <2>1. f[i] = IF g[i] = i THEN i ELSE f[g[i]]
    BY <1>5, Zenon DEF IsEnd
  <2>2. CASE stays(i)
    BY <1>6, <2>1, <2>2
  <2>3. CASE ~stays(i)
    <3>1. g[i] = LargerChild(es, i) /\ g[i] # i
      <4>1. LargerChild(es, i) # i
        BY <1>1, <2>3
      <4> HIDE DEF stays
      <4> QED
        BY <2>3, <4>1
    <3> HIDE DEF g
    <3> QED
      BY <1>6, <2>1, <2>3, <3>1
  <2> QED
    BY <2>2, <2>3
<1>8. IsSink(f, es, w)
  <2>1. f = [i \in 1..n |-> f[i]]
    BY <1>5, Zenon DEF IsEnd
  <2> HIDE DEF g
  <2> QED
    BY <1>6, <1>7, <2>1, Zenon DEF IsSink
<1> QED
  BY <1>8, Zenon DEF SiftDownTo, IsSink

LEMMA SinkStep ==
  ASSUME NEW n \in Nat, NEW es \in Arrays(n), NEW w, NEW f, IsSink(f, es, w),
         NEW i \in 1..n
  PROVE  f[i] = IF 2 * i > n \/ es[LargerChild(es, i)].weight <= w
                THEN i ELSE f[LargerChild(es, i)]
  BY Zenon DEF IsSink, Arrays

(* It stops below where it started. *)
LEMMA SinkBelow ==
  ASSUME NEW n \in Nat, NEW es \in Arrays(n), NEW w, NEW f, IsSink(f, es, w),
         NEW i \in 1..n
  PROVE  f[i] \in i..n /\ IsAncestor(i, f[i])
<1> DEFINE Good(x) == f[x] \in x..n /\ IsAncestor(x, f[x])
           S == {d \in 0..n : n - d \in 1..n /\ ~Good(n - d)}
<1>1. SUFFICES ASSUME S # {} PROVE FALSE
  <2>1. n - i \in 0..n /\ n - (n - i) = i
    OBVIOUS
  <2>2. n - i \notin S
    BY <1>1
  <2> QED
    BY <2>1, <2>2
<1>2. S \in SUBSET Nat
  OBVIOUS
<1>3. PICK d \in S : \A e \in S : d <= e
  <2> HIDE DEF S
  <2> QED
    BY <1>1, <1>2, Least
<1> DEFINE x == n - d
           c == LargerChild(es, x)
<1>4. x \in 1..n /\ x \in Nat \ {0} /\ ~Good(x)
  BY <1>3
<1>5. f[x] = IF 2 * x > n \/ es[c].weight <= w THEN x ELSE f[c]
  <2> HIDE DEF x
  <2> QED
    BY <1>4, SinkStep
<1>6. ASSUME f[x] = x PROVE FALSE
  <2> HIDE DEF x
  <2> QED
    BY <1>4, <1>6, AncestorSelf
<1>7. ~(2 * x > n) /\ f[x] = f[c]
  <2> HIDE DEF x, c
  <2> QED
    BY <1>5, <1>6
<1>8. c \in 1..n /\ c > x /\ c \div 2 = x
  <2> HIDE DEF x
  <2>1. 2 * x <= n
    BY <1>4, <1>7
  <2> QED
    BY <1>4, <2>1, ChildIs
<1>9. Good(c)
  <2>1. n - c \in 0..n /\ n - c < d /\ n - (n - c) = c
    <3> HIDE DEF c
    <3> QED
      BY <1>8
  <2>2. n - c \notin S
    <3>1. d \in 0..n
      BY <1>3
    <3> HIDE DEF c, S
    <3> QED
      BY <1>3, <2>1, <3>1
  <2> HIDE DEF c
  <2> QED
    BY <1>8, <2>1, <2>2
<1>10. IsAncestor(x, c)
  <2> HIDE DEF x, c
  <2>1. c \in Nat \ {0}
    BY <1>8
  <2> QED
    BY <1>4, <1>8, <2>1, AncestorIs, AncestorSelf
<1>11. Good(x)
  <2> HIDE DEF x, c
  <2>1. f[c] \in Nat /\ c \in Nat \ {0}
    BY <1>8, <1>9
  <2>2. IsAncestor(x, f[c])
    BY <1>4, <1>9, <1>10, <2>1, AncestorTrans
  <2>3. f[c] \in x..n
    BY <1>4, <1>8, <1>9
  <2> QED
    BY <1>7, <2>2, <2>3
<1> QED
  BY <1>4, <1>11

(* Entries above c have no say in where one that starts at c stops. *)
LEMMA SinkSame ==
  ASSUME NEW n \in Nat, NEW es \in Arrays(n), NEW fs \in Arrays(n), NEW w, NEW c \in 1..n,
         \A j \in 1..n : j > c => fs[j] = es[j],
         NEW f, IsSink(f, es, w), NEW g, IsSink(g, fs, w)
  PROVE  /\ f[c] = g[c]
         /\ \A i \in c..n : 2 * i <= n => LargerChild(fs, i) = LargerChild(es, i)
<1>1. ASSUME NEW i \in c..n, 2 * i <= n
      PROVE  LargerChild(fs, i) = LargerChild(es, i)
  <2>1. Len(es) = n /\ Len(fs) = n
    BY DEF Arrays
  <2>2. fs[2 * i] = es[2 * i]
    BY <1>1
  <2>3. 2 * i + 1 <= n => fs[2 * i + 1] = es[2 * i + 1]
    BY <1>1
  <2> QED
    BY <2>1, <2>2, <2>3 DEF LargerChild
<1> DEFINE S == {d \in 0..n : n - d \in c..n /\ f[n - d] # g[n - d]}
<1>2. ASSUME S # {} PROVE FALSE
  <2>1. S \in SUBSET Nat
    OBVIOUS
  <2>2. PICK d \in S : \A e \in S : d <= e
    <3> HIDE DEF S
    <3> QED
      BY <1>2, <2>1, Least
  <2> DEFINE x == n - d
             y == LargerChild(es, x)
  <2>3. x \in c..n /\ x \in 1..n /\ f[x] # g[x]
    BY <2>2
  <2>4. /\ f[x] = IF 2 * x > n \/ es[y].weight <= w THEN x ELSE f[y]
        /\ g[x] = IF 2 * x > n \/ fs[LargerChild(fs, x)].weight <= w
                  THEN x ELSE g[LargerChild(fs, x)]
    <3> HIDE DEF x
    <3> QED
      BY <2>3, SinkStep
  <2>5. 2 * x <= n
    <3> HIDE DEF x, y
    <3> QED
      BY <2>3, <2>4
  <2>6. LargerChild(fs, x) = y
    BY <1>1, <2>3, <2>5
  <2>7. y \in 1..n /\ y > x
    <3> HIDE DEF x
    <3>1. x \in Nat \ {0}
      BY <2>3
    <3> QED
      BY <2>5, <3>1, ChildIs
  <2>8. fs[y] = es[y]
    <3> HIDE DEF x, y
    <3> QED
      BY <2>3, <2>7
  <2>9. f[y] = g[y]
    <3>1. n - y \in 0..n /\ n - y < d /\ n - (n - y) = y /\ y \in c..n
      <4> HIDE DEF y
      <4> QED
        BY <2>3, <2>7
    <3>2. n - y \notin S
      <4>1. d \in 0..n
        BY <2>2
      <4> HIDE DEF y, S
      <4> QED
        BY <2>2, <3>1, <4>1
    <3> HIDE DEF y
    <3> QED
      BY <3>1, <3>2
  <2> HIDE DEF x, y
  <2> QED
    BY <2>3, <2>4, <2>6, <2>8, <2>9
<1>3. n - c \in 0..n /\ n - (n - c) = c /\ c \in c..n
  OBVIOUS
<1>4. n - c \notin S
  BY <1>2
<1> QED
  BY <1>1, <1>3, <1>4

-----------------------------------------------------------------------------
(* Two entries change places. *)
Exchange(es, a, b) == [es EXCEPT ![a] = es[b], ![b] = es[a]]

LEMMA ExchangeIs ==
  ASSUME NEW n \in Nat, NEW es \in Arrays(n), NEW a \in 1..n, NEW b \in 1..n, a # b
  PROVE  /\ Exchange(es, a, b) \in Arrays(n)
         /\ Exchange(es, a, b)[a] = es[b]
         /\ Exchange(es, a, b)[b] = es[a]
         /\ \A j \in 1..n : j # a /\ j # b => Exchange(es, a, b)[j] = es[j]
<1>1. es \in [1..n -> Entry]
  BY ArrayIs
<1>2. Exchange(es, a, b) \in [1..n -> Entry]
  BY <1>1 DEF Exchange
<1>3. Exchange(es, a, b) \in Arrays(n)
  BY <1>2, ArrayIs
<1> QED
  BY <1>1, <1>3 DEF Exchange

(* Both are sequences of entries of the same tasks. *)
LEMMA SiftDownType ==
  ASSUME NEW n \in Nat, NEW es \in Arrays(n), NEW k \in 1..n
  PROVE  /\ SiftDownTo(es, k) \in k..n
         /\ IsAncestor(k, SiftDownTo(es, k))
         /\ SiftDown(es, k) = [j \in 1..n |->
              IF j = SiftDownTo(es, k) THEN es[k]
              ELSE IF j >= k /\ IsAncestor(k, j) /\ IsAncestor(j, SiftDownTo(es, k))
                   THEN es[LargerChild(es, j)] ELSE es[j]]
<1>1. PICK f : IsSink(f, es, es[k].weight) /\ SiftDownTo(es, k) = f[k]
  BY SinkIs
<1>2. f[k] \in k..n /\ IsAncestor(k, f[k])
  BY <1>1, SinkBelow
<1>3. DOMAIN es = 1..n
  BY EntryIs
<1> QED
  BY <1>1, <1>2, <1>3 DEF SiftDown

LEMMA SiftStops ==
  ASSUME NEW n \in Nat, NEW es \in Arrays(n), NEW k \in 1..n,
         2 * k > n \/ es[LargerChild(es, k)].weight <= es[k].weight
  PROVE  SiftDownTo(es, k) = k /\ SiftDown(es, k) = es
<1>1. PICK f : IsSink(f, es, es[k].weight) /\ SiftDownTo(es, k) = f[k]
  BY SinkIs
<1>2. SiftDownTo(es, k) = k
  BY <1>1, SinkStep
<1> DEFINE s == SiftDown(es, k)
<1>3. s = [j \in 1..n |->
              IF j = k THEN es[k]
              ELSE IF j >= k /\ IsAncestor(k, j) /\ IsAncestor(j, k)
                   THEN es[LargerChild(es, j)] ELSE es[j]]
  BY <1>2, SiftDownType
<1> HIDE DEF s
<1>4. ASSUME NEW j \in 1..n PROVE s[j] = es[j]
  <2>1. IsAncestor(j, k) => j <= k
    BY AncestorBelow
  <2>2. ~(j # k /\ j >= k /\ IsAncestor(j, k))
    BY <2>1
  <2> QED
    BY <1>3, <2>2
<1>5. es \in [1..n -> Entry]
  BY ArrayIs
<1>6. s = es
  BY <1>3, <1>4, <1>5
<1> QED
  BY <1>2, <1>6 DEF s

(* One round of the loop, and the rest of it. *)
LEMMA SiftStep ==
  ASSUME NEW n \in Nat, NEW es \in Arrays(n), NEW k \in 1..n,
         2 * k <= n, ~(es[LargerChild(es, k)].weight <= es[k].weight)
  PROVE  LET c == LargerChild(es, k)
             fs == Exchange(es, k, c)
         IN SiftDownTo(es, k) = SiftDownTo(fs, c) /\ SiftDown(es, k) = SiftDown(fs, c)
<1> DEFINE c == LargerChild(es, k)
           fs == Exchange(es, k, c)
           stop == SiftDownTo(es, k)
<1>1. c \in 1..n /\ c > k /\ c \div 2 = k
  BY ChildIs
<1>2. /\ fs \in Arrays(n) /\ fs[k] = es[c] /\ fs[c] = es[k]
      /\ \A j \in 1..n : j # k /\ j # c => fs[j] = es[j]
  <2> HIDE DEF c
  <2>1. c # k
    BY <1>1
  <2> QED
    BY <1>1, <2>1, ExchangeIs
<1>3. PICK f : IsSink(f, es, es[k].weight) /\ stop = f[k]
  BY SinkIs
<1>4. f[k] = f[c]
  BY <1>3, SinkStep
<1> HIDE DEF c, fs, stop
<1>5. PICK g : IsSink(g, fs, fs[c].weight) /\ SiftDownTo(fs, c) = g[c]
  BY <1>1, <1>2, SinkIs
<1>6. \A j \in 1..n : j > c => fs[j] = es[j]
  BY <1>1, <1>2
<1>7. /\ f[c] = g[c]
      /\ \A i \in c..n : 2 * i <= n => LargerChild(fs, i) = LargerChild(es, i)
  <2>1. IsSink(g, fs, es[k].weight)
    BY <1>2, <1>5
  <2> QED
    BY <1>1, <1>2, <1>3, <1>6, <2>1, SinkSame
<1>8. stop = SiftDownTo(fs, c)
  BY <1>3, <1>4, <1>5, <1>7
<1>9. stop \in c..n /\ IsAncestor(c, stop)
  BY <1>1, <1>2, <1>8, SiftDownType
<1>10. c \in Nat \ {0} /\ k \in Nat \ {0} /\ stop \in Nat \ {0}
  BY <1>1, <1>9
<1>11. IsAncestor(k, c) /\ IsAncestor(k, stop)
  <2>1. IsAncestor(k, c)
    BY <1>1, <1>10, AncestorIs, AncestorSelf
  <2> QED
    BY <1>9, <1>10, <2>1, AncestorTrans
<1>12. SiftDown(es, k) = [j \in 1..n |->
         IF j = stop THEN es[k]
         ELSE IF j >= k /\ IsAncestor(k, j) /\ IsAncestor(j, stop)
              THEN es[LargerChild(es, j)] ELSE es[j]]
  BY SiftDownType DEF stop
<1>13. SiftDown(fs, c) = [j \in 1..n |->
         IF j = stop THEN fs[c]
         ELSE IF j >= c /\ IsAncestor(c, j) /\ IsAncestor(j, stop)
              THEN fs[LargerChild(fs, j)] ELSE fs[j]]
  <2>1. SiftDown(fs, c) = [j \in 1..n |->
          IF j = SiftDownTo(fs, c) THEN fs[c]
          ELSE IF j >= c /\ IsAncestor(c, j) /\ IsAncestor(j, SiftDownTo(fs, c))
               THEN fs[LargerChild(fs, j)] ELSE fs[j]]
    BY <1>1, <1>2, SiftDownType
  <2> QED
    BY <1>8, <2>1, Zenon
<1>14. ASSUME NEW j \in 1..n, j # k
       PROVE  (j >= k /\ IsAncestor(k, j) /\ IsAncestor(j, stop)) <=>
              (j >= c /\ IsAncestor(c, j) /\ IsAncestor(j, stop))
  <2>0. j \in Nat \ {0}
    OBVIOUS
  <2>1. ASSUME j >= c, IsAncestor(c, j) PROVE j >= k /\ IsAncestor(k, j)
    BY <1>1, <1>10, <1>11, <2>0, <2>1, AncestorTrans
  <2>2. ASSUME j >= k, IsAncestor(k, j), IsAncestor(j, stop)
        PROVE  j >= c /\ IsAncestor(c, j)
    <3>1. CASE c <= j
      BY <1>9, <1>10, <2>0, <2>2, <3>1, AncestorChain
    <3>2. CASE ~(c <= j)
      <4>1. j <= c /\ j # c
        BY <1>10, <2>0, <3>2
      <4>2. IsAncestor(j, c)
        BY <1>9, <1>10, <2>0, <2>2, <4>1, AncestorChain
      <4>3. IsAncestor(j, k)
        BY <1>1, <1>10, <2>0, <4>1, <4>2, AncestorIs
      <4>4. j <= k
        BY <1>10, <2>0, <4>3, AncestorBelow
      <4> QED
        BY <1>14, <2>0, <2>2, <4>4
    <3> QED
      BY <3>1, <3>2
  <2> QED
    BY <2>1, <2>2
<1>15. ASSUME NEW j \in 1..n PROVE SiftDown(es, k)[j] = SiftDown(fs, c)[j]
  <2>1. CASE j = stop
    BY <1>2, <1>12, <1>13, <2>1
  <2>2. CASE j = k
    <3>1. k # stop /\ ~(k >= c)
      BY <1>1, <1>9
    <3>2. SiftDown(fs, c)[k] = fs[k]
      BY <1>13, <3>1
    <3>3. SiftDown(es, k)[k] = es[LargerChild(es, k)]
      <4>1. k >= k /\ IsAncestor(k, k) /\ IsAncestor(k, stop)
        BY <1>10, <1>11, AncestorSelf
      <4> QED
        BY <1>12, <3>1, <4>1
    <3> QED
      BY <1>2, <2>2, <3>2, <3>3 DEF c
  <2>3. CASE j # stop /\ j # k /\ (j >= c /\ IsAncestor(c, j) /\ IsAncestor(j, stop))
    <3>1. j >= k /\ IsAncestor(k, j) /\ IsAncestor(j, stop)
      BY <1>14, <2>3
    <3>2. /\ SiftDown(es, k)[j] = es[LargerChild(es, j)]
          /\ SiftDown(fs, c)[j] = fs[LargerChild(fs, j)]
      BY <1>12, <1>13, <2>3, <3>1
    <3>3. 2 * j <= n
      <4>1. j \in Nat \ {0} /\ IsAncestor(j, stop \div 2) /\ stop \div 2 \in Nat
        BY <1>10, <2>3, AncestorIs, HalfFacts
      <4>2. j <= stop \div 2
        BY <4>1, AncestorBelow
      <4>3. 2 * (stop \div 2) <= stop
        BY <1>10, HalfFacts
      <4> QED
        BY <1>9, <4>1, <4>2, <4>3
    <3>4. j \in c..n
      BY <1>10, <2>3
    <3>5. LargerChild(fs, j) = LargerChild(es, j)
      BY <1>7, <3>3, <3>4
    <3>6. LargerChild(es, j) \in 1..n /\ LargerChild(es, j) > j
      BY <3>3, ChildIs
    <3>7. fs[LargerChild(es, j)] = es[LargerChild(es, j)]
      BY <1>6, <1>10, <3>4, <3>6
    <3> QED
      BY <3>2, <3>5, <3>7
  <2>4. CASE j # stop /\ j # k /\ ~(j >= c /\ IsAncestor(c, j) /\ IsAncestor(j, stop))
    <3>1. ~(j >= k /\ IsAncestor(k, j) /\ IsAncestor(j, stop))
      BY <1>14, <2>4
    <3>2. SiftDown(es, k)[j] = es[j] /\ SiftDown(fs, c)[j] = fs[j]
      BY <1>12, <1>13, <2>4, <3>1
    <3>3. j # c
      BY <1>9, <1>10, <2>4, AncestorSelf
    <3> QED
      BY <1>2, <2>4, <3>2, <3>3
  <2> QED
    BY <2>1, <2>2, <2>3, <2>4
<1>16. SiftDown(es, k) = SiftDown(fs, c)
  BY <1>12, <1>13, <1>15
<1> QED
  BY <1>8, <1>16 DEF c, fs, stop

-----------------------------------------------------------------------------
(* f says where an entry of weight w that starts to rise at i, at most k, stops. *)
IsRise(f, es, k, w) ==
  f = [i \in 1..k |-> IF i = 1 \/ w < es[i \div 2].weight THEN i ELSE f[i \div 2]]

LEMMA RiseIs ==
  ASSUME NEW n \in Nat, NEW es \in Arrays(n), NEW k \in 1..n
  PROVE  \E f : IsRise(f, es, k, es[k].weight) /\ BubbleUpTo(es, k) = f[k]
<1> DEFINE w == es[k].weight
           stays(i) == i = 1 \/ w < es[i \div 2].weight
           g == [i \in 1..k |-> IF stays(i) THEN i ELSE i \div 2]
           m == [i \in 1..k |-> i]
<1>1. ASSUME NEW i \in 1..k, ~stays(i)
      PROVE  i \div 2 \in 1..k /\ i \div 2 < i
  <2>1. i # 1
    BY <1>1
  <2> QED
    BY <2>1
<1>2. g \in [1..k -> 1..k]
  <2> HIDE DEF stays
  <2> QED
    BY <1>1
<1>3. m \in [1..k -> Nat] /\ \A i, j \in 1..k : m[i] = m[j] => i = j
  OBVIOUS
<1>4. ASSUME NEW i \in 1..k, g[i] # i PROVE m[g[i]] < m[i]
  <2> HIDE DEF stays
  <2>1. ~stays(i) /\ g[i] = i \div 2
    BY <1>4
  <2> QED
    BY <1>1, <2>1
<1>5. PICK f : IsEnd(f, 1..k, g)
  <2> HIDE DEF g, m
  <2> QED
    BY <1>2, <1>3, <1>4, EndExists
<1>6. ASSUME NEW i \in 1..k
      PROVE  f[i] = IF i = 1 \/ w < es[i \div 2].weight THEN i ELSE f[i \div 2]
  <2>1. f[i] = IF g[i] = i THEN i ELSE f[g[i]]
    BY <1>5, Zenon DEF IsEnd
  <2>2. CASE stays(i)
    BY <2>1, <2>2
  <2>3. CASE ~stays(i)
    <3>1. g[i] = i \div 2 /\ g[i] # i
      <4>1. i \div 2 # i
        BY <1>1, <2>3
      <4> HIDE DEF stays
      <4> QED
        BY <2>3, <4>1
    <3> HIDE DEF g
    <3> QED
      BY <2>1, <2>3, <3>1
  <2> QED
    BY <2>2, <2>3
<1>7. IsRise(f, es, k, w)
  <2>1. f = [i \in 1..k |-> f[i]]
    BY <1>5, Zenon DEF IsEnd
  <2> HIDE DEF g
  <2> QED
    BY <1>6, <2>1, Zenon DEF IsRise
<1> QED
  BY <1>7, Zenon DEF BubbleUpTo, IsRise

LEMMA RiseStep ==
  ASSUME NEW k \in Nat, NEW es, NEW w, NEW f, IsRise(f, es, k, w), NEW i \in 1..k
  PROVE  f[i] = IF i = 1 \/ w < es[i \div 2].weight THEN i ELSE f[i \div 2]
  BY Zenon DEF IsRise

(* It stops above where it started. *)
LEMMA RiseAbove ==
  ASSUME NEW k \in Nat, NEW es, NEW w, NEW f, IsRise(f, es, k, w), NEW i \in 1..k
  PROVE  f[i] \in 1..i
<1> DEFINE S == {x \in 1..k : f[x] \notin 1..x}
<1>1. SUFFICES ASSUME S # {} PROVE FALSE
  OBVIOUS
<1>2. S \in SUBSET Nat
  OBVIOUS
<1>3. PICK x \in S : \A y \in S : x <= y
  <2> HIDE DEF S
  <2> QED
    BY <1>1, <1>2, Least
<1>4. x \in 1..k /\ f[x] \notin 1..x
  BY <1>3
<1>5. f[x] = IF x = 1 \/ w < es[x \div 2].weight THEN x ELSE f[x \div 2]
  BY <1>4, RiseStep
<1>6. x # 1 /\ f[x] = f[x \div 2]
  BY <1>4, <1>5
<1>7. x \div 2 \in 1..k /\ x \div 2 < x
  BY <1>4, <1>6
<1>8. x \div 2 \notin S
  BY <1>3, <1>4, <1>7
<1> QED
  BY <1>4, <1>6, <1>7, <1>8

(* Entries from c on have no say in where one that starts at c stops. *)
LEMMA RiseSame ==
  ASSUME NEW k \in Nat, NEW c \in 1..k, NEW es, NEW fs, NEW w,
         \A j \in 1..k : j < c => fs[j] = es[j],
         NEW f, IsRise(f, es, k, w), NEW g, IsRise(g, fs, c, w)
  PROVE  f[c] = g[c]
<1> DEFINE S == {x \in 1..c : f[x] # g[x]}
<1>1. ASSUME S # {} PROVE FALSE
  <2>1. S \in SUBSET Nat
    OBVIOUS
  <2>2. PICK x \in S : \A y \in S : x <= y
    <3> HIDE DEF S
    <3> QED
      BY <1>1, <2>1, Least
  <2>3. x \in 1..c /\ x \in 1..k /\ f[x] # g[x] /\ c \in Nat
    BY <2>2
  <2>4. /\ f[x] = IF x = 1 \/ w < es[x \div 2].weight THEN x ELSE f[x \div 2]
        /\ g[x] = IF x = 1 \/ w < fs[x \div 2].weight THEN x ELSE g[x \div 2]
    BY <2>3, RiseStep
  <2>5. x # 1
    BY <2>3, <2>4
  <2>6. x \div 2 \in 1..c /\ x \div 2 \in 1..k /\ x \div 2 < x /\ x \div 2 < c
    BY <2>3, <2>5
  <2>7. fs[x \div 2] = es[x \div 2]
    BY <2>6
  <2>8. x \div 2 \notin S
    BY <2>2, <2>3, <2>6
  <2>9. f[x \div 2] = g[x \div 2]
    BY <2>6, <2>8
  <2> QED
    BY <2>3, <2>4, <2>7, <2>9
<1>2. c \in 1..c
  OBVIOUS
<1> QED
  BY <1>1, <1>2

LEMMA BubbleUpType ==
  ASSUME NEW n \in Nat, NEW es \in Arrays(n), NEW k \in 1..n
  PROVE  /\ BubbleUpTo(es, k) \in 1..k
         /\ BubbleUp(es, k) = [j \in 1..n |->
              IF j = BubbleUpTo(es, k) THEN es[k]
              ELSE IF j > BubbleUpTo(es, k) /\ IsAncestor(j, k)
                   THEN es[j \div 2] ELSE es[j]]
<1>1. PICK f : IsRise(f, es, k, es[k].weight) /\ BubbleUpTo(es, k) = f[k]
  BY RiseIs
<1>2. f[k] \in 1..k
  <2>1. k \in 1..k /\ k \in Nat
    OBVIOUS
  <2> QED
    BY <1>1, <2>1, RiseAbove
<1>3. DOMAIN es = 1..n
  BY EntryIs
<1> QED
  BY <1>1, <1>2, <1>3 DEF BubbleUp

LEMMA BubbleStops ==
  ASSUME NEW n \in Nat, NEW es \in Arrays(n), NEW k \in 1..n,
         k = 1 \/ es[k].weight < es[k \div 2].weight
  PROVE  BubbleUpTo(es, k) = k /\ BubbleUp(es, k) = es
<1>1. PICK f : IsRise(f, es, k, es[k].weight) /\ BubbleUpTo(es, k) = f[k]
  BY RiseIs
<1>2. BubbleUpTo(es, k) = k
  <2>1. k \in 1..k /\ k \in Nat
    OBVIOUS
  <2> QED
    BY <1>1, <2>1, RiseStep
<1> DEFINE s == BubbleUp(es, k)
<1>3. s = [j \in 1..n |->
              IF j = k THEN es[k]
              ELSE IF j > k /\ IsAncestor(j, k) THEN es[j \div 2] ELSE es[j]]
  <2>1. s = [j \in 1..n |->
              IF j = BubbleUpTo(es, k) THEN es[k]
              ELSE IF j > BubbleUpTo(es, k) /\ IsAncestor(j, k)
                   THEN es[j \div 2] ELSE es[j]]
    BY BubbleUpType
  <2> HIDE DEF s
  <2> QED
    BY <1>2, <2>1, Zenon
<1> HIDE DEF s
<1>4. ASSUME NEW j \in 1..n PROVE s[j] = es[j]
  <2>1. IsAncestor(j, k) => j <= k
    BY AncestorBelow
  <2>2. ~(j > k /\ IsAncestor(j, k))
    BY <2>1
  <2> QED
    BY <1>3, <2>2
<1>5. es \in [1..n -> Entry]
  BY ArrayIs
<1>6. s = es
  BY <1>3, <1>4, <1>5
<1> QED
  BY <1>2, <1>6 DEF s

(* One round of the loop, and the rest of it. *)
LEMMA BubbleStep ==
  ASSUME NEW n \in Nat, NEW es \in Arrays(n), NEW k \in 1..n,
         k # 1, ~(es[k].weight < es[k \div 2].weight)
  PROVE  LET c == k \div 2
             fs == Exchange(es, k, c)
         IN BubbleUpTo(es, k) = BubbleUpTo(fs, c) /\ BubbleUp(es, k) = BubbleUp(fs, c)
<1> DEFINE c == k \div 2
           fs == Exchange(es, k, c)
           stop == BubbleUpTo(es, k)
<1>1. c \in 1..n /\ c < k /\ c \in 1..k /\ c \in Nat \ {0} /\ k \in Nat \ {0}
  OBVIOUS
<1>2. /\ fs \in Arrays(n) /\ fs[k] = es[c] /\ fs[c] = es[k]
      /\ \A j \in 1..n : j # k /\ j # c => fs[j] = es[j]
  <2> HIDE DEF c
  <2>1. c # k
    BY <1>1
  <2> QED
    BY <1>1, <2>1, ExchangeIs
<1>3. PICK f : IsRise(f, es, k, es[k].weight) /\ stop = f[k]
  BY RiseIs
<1>4. f[k] = f[c]
  <2>1. k \in 1..k /\ k \in Nat
    OBVIOUS
  <2> QED
    BY <1>3, <2>1, RiseStep
<1> HIDE DEF fs, stop
<1>5. PICK g : IsRise(g, fs, c, fs[c].weight) /\ BubbleUpTo(fs, c) = g[c]
  <2> HIDE DEF c
  <2> QED
    BY <1>1, <1>2, RiseIs
<1>6. \A j \in 1..n : j < c => fs[j] = es[j]
  <2> HIDE DEF c
  <2> QED
    BY <1>1, <1>2
<1>7. f[c] = g[c]
  <2>1. IsRise(g, fs, c, es[k].weight)
    BY <1>2, <1>5
  <2>2. \A j \in 1..k : j < c => fs[j] = es[j]
    BY <1>6
  <2> HIDE DEF c
  <2> QED
    BY <1>1, <1>3, <2>1, <2>2, RiseSame
<1>8. stop = BubbleUpTo(fs, c)
  BY <1>3, <1>4, <1>5, <1>7
<1> DEFINE u == BubbleUp(es, k)
           v == BubbleUp(fs, c)
<1>9. u = [j \in 1..n |->
         IF j = stop THEN es[k]
         ELSE IF j > stop /\ IsAncestor(j, k) THEN es[j \div 2] ELSE es[j]]
  BY BubbleUpType DEF stop
<1>10. /\ stop \in 1..c
       /\ v = [j \in 1..n |->
            IF j = stop THEN fs[c]
            ELSE IF j > stop /\ IsAncestor(j, c) THEN fs[j \div 2] ELSE fs[j]]
  <2> HIDE DEF c
  <2>1. /\ BubbleUpTo(fs, c) \in 1..c
        /\ v = [j \in 1..n |->
             IF j = BubbleUpTo(fs, c) THEN fs[c]
             ELSE IF j > BubbleUpTo(fs, c) /\ IsAncestor(j, c)
                  THEN fs[j \div 2] ELSE fs[j]]
    BY <1>1, <1>2, BubbleUpType
  <2> HIDE DEF v
  <2> QED
    BY <1>8, <2>1, Zenon
<1> HIDE DEF u, v
<1>11. ASSUME NEW j \in 1..n PROVE IsAncestor(j, k) <=> j = k \/ IsAncestor(j, c)
  BY <1>1, AncestorIs
<1>12. ASSUME NEW j \in 1..n, IsAncestor(j, c) PROVE j <= c
  BY <1>1, <1>12, AncestorBelow
<1> HIDE DEF c
<1>13. ASSUME NEW j \in 1..n PROVE u[j] = v[j]
  <2>1. CASE j = stop
    BY <1>2, <1>9, <1>10, <2>1
  <2>2. CASE j = k
    <3>1. k # stop /\ k > stop /\ ~IsAncestor(k, c)
      BY <1>1, <1>10, <1>12
    <3>2. IsAncestor(k, k)
      BY <1>1, AncestorSelf
    <3>3. v[k] = fs[k]
      BY <1>10, <3>1
    <3>4. u[k] = es[k \div 2]
      BY <1>9, <3>1, <3>2
    <3> QED
      BY <1>2, <2>2, <3>3, <3>4 DEF c
  <2>3. CASE j # stop /\ j # k /\ j > stop /\ IsAncestor(j, c)
    <3>1. j <= c /\ j \div 2 \in 1..n /\ j \div 2 < c
      BY <1>1, <1>10, <1>12, <2>3
    <3>2. u[j] = es[j \div 2] /\ v[j] = fs[j \div 2]
      BY <1>9, <1>10, <1>11, <2>3
    <3> QED
      BY <1>6, <3>1, <3>2
  <2>4. CASE j # stop /\ j # k /\ ~(j > stop /\ IsAncestor(j, c))
    <3>1. u[j] = es[j] /\ v[j] = fs[j]
      BY <1>9, <1>10, <1>11, <2>4
    <3>2. j # c
      <4>1. ASSUME j = c PROVE FALSE
        <5>1. j > stop
          BY <1>1, <1>10, <2>4, <4>1
        <5> QED
          BY <1>1, <2>4, <4>1, <5>1, AncestorSelf
      <4> QED
        BY <4>1
    <3> QED
      BY <1>2, <2>4, <3>1, <3>2
  <2> QED
    BY <2>1, <2>2, <2>3, <2>4
<1>14. u = v
  BY <1>9, <1>10, <1>13
<1> QED
  BY <1>8, <1>14 DEF c, fs, stop, u, v

-----------------------------------------------------------------------------
(* What an array holds, and that it holds each task once. *)
Tids(es, n) == {es[j].tid : j \in 1..n}

Distinct(es, n) == \A i, j \in 1..n : es[i].tid = es[j].tid => i = j

Keeps(fs, es, n) ==
  /\ fs \in Arrays(n)
  /\ Tids(fs, n) = Tids(es, n)
  /\ Distinct(es, n) => Distinct(fs, n)

(* An entry is not larger than its parent. *)
Edge(es, j) == es[j].weight <= es[j \div 2].weight

Heap(es, n) == \A j \in 2..n : Edge(es, j)

(* The children of k may be larger than k, but not than k's parent. *)
Grand(es, n, k) ==
  \A j \in 2..n : j \div 2 = k /\ k > 1 => es[j].weight <= es[k \div 2].weight

HeapButBelow(es, n, k) ==
  Grand(es, n, k) /\ \A j \in 2..n : j \div 2 # k => Edge(es, j)

(* In addition, k may be larger than its parent. *)
HeapButAt(es, n, k) ==
  Grand(es, n, k) /\ \A j \in 2..n : j # k /\ j \div 2 # k => Edge(es, j)

HeapBelow(es, n, k) == \A j \in 2..n : j \div 2 = k => Edge(es, j)

LEMMA ExchangeKeeps ==
  ASSUME NEW n \in Nat, NEW es \in Arrays(n), NEW a \in 1..n, NEW b \in 1..n, a # b
  PROVE  Keeps(Exchange(es, a, b), es, n)
<1> DEFINE fs == Exchange(es, a, b)
<1>1. /\ fs \in Arrays(n) /\ fs[a] = es[b] /\ fs[b] = es[a]
      /\ \A j \in 1..n : j # a /\ j # b => fs[j] = es[j]
  BY ExchangeIs
<1> HIDE DEF fs
<1>2. Tids(fs, n) = Tids(es, n)
  <2>1. ASSUME NEW j \in 1..n PROVE \E i \in 1..n : fs[j].tid = es[i].tid
    BY <1>1
  <2>2. ASSUME NEW j \in 1..n PROVE \E i \in 1..n : es[j].tid = fs[i].tid
    <3>1. CASE j = a
      BY <1>1, <3>1
    <3>2. CASE j = b
      BY <1>1, <3>2
    <3>3. CASE j # a /\ j # b
      BY <1>1, <3>3
    <3> QED
      BY <3>1, <3>2, <3>3
  <2>3. ASSUME NEW t \in Tids(fs, n) PROVE t \in Tids(es, n)
    BY <2>1 DEF Tids
  <2>4. ASSUME NEW t \in Tids(es, n) PROVE t \in Tids(fs, n)
    BY <2>2 DEF Tids
  <2> QED
    BY <2>3, <2>4
<1>3. ASSUME Distinct(es, n) PROVE Distinct(fs, n)
  <2> SUFFICES ASSUME NEW i \in 1..n, NEW j \in 1..n, fs[i].tid = fs[j].tid
               PROVE  i = j
    BY DEF Distinct
  <2> DEFINE p(x) == IF x = a THEN b ELSE IF x = b THEN a ELSE x
  <2>1. \A x \in 1..n : fs[x] = es[p(x)] /\ p(x) \in 1..n
    BY <1>1
  <2>2. p(i) = p(j)
    BY <1>3, <2>1 DEF Distinct
  <2> QED
    BY <2>2
<1> QED
  BY <1>1, <1>2, <1>3 DEF Keeps, fs

(***************************************************************************)
(* queue_sift_down loses no entry and restores the heap below k.           *)
(***************************************************************************)
LEMMA SiftDownHeap ==
  ASSUME NEW n \in Nat, NEW es \in Arrays(n), NEW k \in 1..n
  PROVE  /\ Keeps(SiftDown(es, k), es, n)
         /\ HeapButBelow(es, n, k) => Heap(SiftDown(es, k), n)
<1> DEFINE Good(bs, x) == /\ Keeps(SiftDown(bs, x), bs, n)
                          /\ HeapButBelow(bs, n, x) => Heap(SiftDown(bs, x), n)
           S == {d \in 0..n : n - d \in 1..n /\ \E bs \in Arrays(n) : ~Good(bs, n - d)}
<1>1. SUFFICES ASSUME S # {} PROVE FALSE
  <2>1. n - k \in 0..n /\ n - (n - k) = k
    OBVIOUS
  <2>2. n - k \notin S
    BY <1>1
  <2>3. Good(es, k)
    <3> HIDE DEF Good
    <3> QED
      BY <2>1, <2>2
  <2> QED
    BY <2>3
<1>2. S \in SUBSET Nat
  <2> HIDE DEF Good
  <2> QED
    OBVIOUS
<1>3. PICK d \in S : \A e \in S : d <= e
  <2> HIDE DEF S
  <2> QED
    BY <1>1, <1>2, Least
<1> DEFINE x == n - d
<1> HIDE DEF Good
<1>4. d \in 0..n /\ x \in 1..n /\ x \in Nat \ {0}
  BY <1>3
<1>5. PICK bs \in Arrays(n) : ~Good(bs, x)
  BY <1>3
<1> HIDE DEF S
<1> DEFINE c == LargerChild(bs, x)
           fs == Exchange(bs, x, c)
<1>0. 2 * x <= n =>
        /\ c \in 1..n /\ c > x /\ c \div 2 = x
        /\ \A j \in 1..n : j \div 2 = x => bs[j].weight <= bs[c].weight
  <2> HIDE DEF x
  <2> QED
    BY <1>4, ChildIs
<1>01. \A j \in 1..n : bs[j].weight \in Nat
  BY EntryIs
<1>6. CASE ~(2 * x <= n /\ ~(bs[c].weight <= bs[x].weight))
  <2>1. SiftDown(bs, x) = bs
    <3> HIDE DEF x
    <3>1. 2 * x > n \/ bs[c].weight <= bs[x].weight
      <4> HIDE DEF c
      <4> QED
        BY <1>4, <1>6
    <3> QED
      BY <1>4, <3>1, SiftStops
  <2>2. Keeps(bs, bs, n)
    BY DEF Keeps
  <2>3. ASSUME HeapButBelow(bs, n, x), NEW j \in 2..n PROVE Edge(bs, j)
    <3>1. CASE j \div 2 # x
      BY <2>3, <3>1 DEF HeapButBelow
    <3>2. CASE j \div 2 = x
      <4> HIDE DEF x
      <4>1. 2 * x <= n
        BY <1>4, <3>2
      <4> HIDE DEF c
      <4>2. bs[j].weight <= bs[c].weight /\ c \in 1..n /\ j \in 1..n
        BY <1>0, <3>2, <4>1
      <4>3. bs[c].weight <= bs[x].weight
        BY <1>6, <4>1
      <4>4. bs[j].weight <= bs[x].weight
        BY <1>01, <1>4, <4>2, <4>3
      <4> QED
        BY <3>2, <4>4 DEF Edge
    <3> QED
      BY <3>1, <3>2
  <2> QED
    BY <1>5, <2>1, <2>2, <2>3 DEF Good, Heap
<1>7. CASE 2 * x <= n /\ ~(bs[c].weight <= bs[x].weight)
  <2>2. SiftDown(bs, x) = SiftDown(fs, c)
    <3> HIDE DEF x
    <3> QED
      BY <1>4, <1>7, SiftStep
  <2>3. /\ c \in 1..n /\ c > x /\ c \div 2 = x
        /\ \A j \in 1..n : j \div 2 = x => bs[j].weight <= bs[c].weight
    <3> HIDE DEF x, c
    <3> QED
      BY <1>0, <1>7
  <2>4. /\ fs \in Arrays(n) /\ fs[x] = bs[c] /\ fs[c] = bs[x]
        /\ \A j \in 1..n : j # x /\ j # c => fs[j] = bs[j]
        /\ Keeps(fs, bs, n)
    <3> HIDE DEF x, c
    <3>1. c # x
      BY <1>4, <2>3
    <3>2. Keeps(fs, bs, n)
      BY <1>4, <2>3, <3>1, ExchangeKeeps
    <3>3. /\ fs \in Arrays(n) /\ fs[x] = bs[c] /\ fs[c] = bs[x]
          /\ \A j \in 1..n : j # x /\ j # c => fs[j] = bs[j]
      <4>1. x \in 1..n /\ c \in 1..n
        BY <1>4, <2>3
      <4> QED
        BY <3>1, <4>1, ExchangeIs, Zenon
    <3> QED
      BY <3>2, <3>3
  <2>5. Good(fs, c)
    <3>1. n - c \in 0..n /\ n - c < d /\ n - (n - c) = c
      <4> HIDE DEF c
      <4> QED
        BY <1>4, <2>3
    <3>2. n - c \notin S
      <4> HIDE DEF c
      <4> QED
        BY <1>3, <1>4, <3>1
    <3> HIDE DEF c, fs
    <3> QED
      BY <2>3, <2>4, <3>1, <3>2 DEF S
  <2> HIDE DEF x, c, fs
  <2>6. ASSUME HeapButBelow(bs, n, x) PROVE HeapButBelow(fs, n, c)
    <3>1. ASSUME NEW j \in 2..n, j \div 2 = c PROVE fs[j].weight <= fs[c \div 2].weight
      <4>1. j # c /\ j # x /\ j \div 2 # x /\ j \in 1..n
        BY <1>4, <2>3, <3>1
      <4>2. Edge(bs, j)
        BY <2>6, <4>1 DEF HeapButBelow
      <4> QED
        BY <2>3, <2>4, <3>1, <4>1, <4>2 DEF Edge
    <3>2. ASSUME NEW j \in 2..n, j \div 2 # c PROVE Edge(fs, j)
      <4>1. j \in 1..n /\ j \div 2 \in 1..n
        OBVIOUS
      <4>2. CASE j = x
        <5>1. bs[c].weight <= bs[x \div 2].weight
          <6>1. c \in 2..n /\ x > 1
            BY <1>4, <2>3, <4>2
          <6> QED
            BY <2>3, <2>6, <6>1 DEF HeapButBelow, Grand
        <5>2. x \div 2 # x /\ x \div 2 # c /\ x \div 2 \in 1..n
          BY <1>4, <2>3, <4>1, <4>2
        <5> QED
          BY <2>4, <4>2, <5>1, <5>2 DEF Edge
      <4>3. CASE j = c
        <5>1. bs[x].weight <= bs[c].weight
          BY <1>01, <1>4, <1>7, <2>3
        <5> QED
          BY <2>3, <2>4, <4>3, <5>1 DEF Edge
      <4>4. CASE j # x /\ j # c /\ j \div 2 = x
        BY <2>3, <2>4, <4>1, <4>4 DEF Edge
      <4>5. CASE j # x /\ j # c /\ j \div 2 # x
        BY <2>4, <2>6, <3>2, <4>1, <4>5 DEF HeapButBelow, Edge
      <4> QED
        BY <4>2, <4>3, <4>4, <4>5
    <3> QED
      BY <3>1, <3>2 DEF HeapButBelow, Grand
  <2>7. Good(bs, x)
    <3>1. Keeps(SiftDown(fs, c), fs, n) /\ (HeapButBelow(fs, n, c) => Heap(SiftDown(fs, c), n))
      BY <2>5 DEF Good
    <3>2. Keeps(SiftDown(bs, x), bs, n)
      BY <2>2, <2>4, <3>1 DEF Keeps
    <3> QED
      BY <2>2, <2>6, <3>1, <3>2 DEF Good
  <2> QED
    BY <1>5, <2>7
<1> QED
  BY <1>6, <1>7

(***************************************************************************)
(* queue_bubble_up loses no entry and restores the heap above k; also      *)
(* below k if it was one there.                                            *)
(***************************************************************************)
LEMMA BubbleUpHeap ==
  ASSUME NEW n \in Nat, NEW es \in Arrays(n), NEW k \in 1..n
  PROVE  /\ Keeps(BubbleUp(es, k), es, n)
         /\ HeapButAt(es, n, k) =>
              /\ HeapButBelow(BubbleUp(es, k), n, BubbleUpTo(es, k))
              /\ HeapBelow(es, n, k) => Heap(BubbleUp(es, k), n)
<1> DEFINE Good(bs, x) ==
             /\ Keeps(BubbleUp(bs, x), bs, n)
             /\ HeapButAt(bs, n, x) =>
                  /\ HeapButBelow(BubbleUp(bs, x), n, BubbleUpTo(bs, x))
                  /\ HeapBelow(bs, n, x) => Heap(BubbleUp(bs, x), n)
           S == {x \in 1..n : \E bs \in Arrays(n) : ~Good(bs, x)}
<1>1. SUFFICES ASSUME S # {} PROVE FALSE
  <2>1. k \notin S
    BY <1>1
  <2>2. Good(es, k)
    <3> HIDE DEF Good
    <3> QED
      BY <2>1
  <2> QED
    BY <2>2
<1> HIDE DEF Good
<1>2. S \in SUBSET Nat
  OBVIOUS
<1>3. PICK x \in S : \A y \in S : x <= y
  <2> HIDE DEF S
  <2> QED
    BY <1>1, <1>2, Least
<1>4. x \in 1..n /\ x \in Nat \ {0}
  BY <1>3
<1>5. PICK bs \in Arrays(n) : ~Good(bs, x)
  BY <1>3
<1> HIDE DEF S
<1> DEFINE c == x \div 2
           fs == Exchange(bs, x, c)
<1>0. x # 1 => c \in 1..n /\ c < x /\ x \in 2..n
  BY <1>4
<1>01. \A j \in 1..n : bs[j].weight \in Nat
  BY EntryIs
<1>6. CASE ~(x # 1 /\ ~(bs[x].weight < bs[c].weight))
  <2>1. BubbleUp(bs, x) = bs /\ BubbleUpTo(bs, x) = x
    <3>1. x = 1 \/ bs[x].weight < bs[x \div 2].weight
      BY <1>6
    <3> QED
      BY <1>4, <3>1, BubbleStops
  <2>2. Keeps(bs, bs, n)
    BY DEF Keeps
  <2>3. ASSUME HeapButAt(bs, n, x) PROVE HeapButBelow(bs, n, x)
    <3>1. ASSUME NEW j \in 2..n, j \div 2 # x PROVE Edge(bs, j)
      <4>1. CASE j = x
        <5> HIDE DEF c
        <5>1. x # 1
          BY <4>1
        <5>2. bs[x].weight < bs[c].weight
          BY <1>6, <5>1
        <5>3. bs[x].weight <= bs[c].weight
          BY <1>0, <1>01, <1>4, <5>1, <5>2
        <5> QED
          BY <4>1, <5>3 DEF Edge, c
      <4>2. CASE j # x
        BY <2>3, <3>1, <4>2 DEF HeapButAt
      <4> QED
        BY <4>1, <4>2
    <3> QED
      BY <2>3, <3>1 DEF HeapButAt, HeapButBelow
  <2>4. HeapButBelow(bs, n, x) /\ HeapBelow(bs, n, x) => Heap(bs, n)
    BY DEF HeapButBelow, HeapBelow, Heap
  <2> QED
    BY <1>5, <2>1, <2>2, <2>3, <2>4 DEF Good
<1>7. CASE x # 1 /\ ~(bs[x].weight < bs[c].weight)
  <2>1. c \in 1..n /\ c < x /\ x # 1 /\ x \in 2..n
    BY <1>0, <1>7
  <2>2. BubbleUp(bs, x) = BubbleUp(fs, c) /\ BubbleUpTo(bs, x) = BubbleUpTo(fs, c)
    BY <1>4, <1>7, BubbleStep
  <2> HIDE DEF c
  <2>3. /\ fs \in Arrays(n) /\ fs[x] = bs[c] /\ fs[c] = bs[x]
        /\ \A j \in 1..n : j # x /\ j # c => fs[j] = bs[j]
        /\ Keeps(fs, bs, n)
    <3>1. c # x
      BY <1>4, <2>1
    <3>2. Keeps(fs, bs, n)
      BY <1>4, <2>1, <3>1, ExchangeKeeps
    <3>3. /\ fs \in Arrays(n) /\ fs[x] = bs[c] /\ fs[c] = bs[x]
          /\ \A j \in 1..n : j # x /\ j # c => fs[j] = bs[j]
      BY <1>4, <2>1, <3>1, ExchangeIs
    <3> QED
      BY <3>2, <3>3
  <2>4. Good(fs, c)
    <3>1. c \notin S
      BY <1>3, <1>4, <2>1
    <3> HIDE DEF fs
    <3> QED
      BY <2>1, <2>3, <3>1 DEF S
  <2> HIDE DEF fs
  <2>5. bs[c].weight \in Nat /\ bs[x].weight \in Nat
    BY <1>01, <1>4, <2>1
  <2>6. bs[c].weight <= bs[x].weight
    BY <1>7, <2>5
  <2>7. ASSUME HeapButAt(bs, n, x) PROVE HeapButAt(fs, n, c) /\ HeapBelow(fs, n, c)
    <3>1. ASSUME NEW j \in 2..n, j \div 2 = c PROVE bs[j].weight <= bs[c].weight \/ j = x
      <4>1. j \div 2 # x
        BY <1>4, <2>1, <3>1
      <4> QED
        BY <2>7, <3>1, <4>1 DEF HeapButAt, Edge
    <3>2. HeapBelow(fs, n, c)
      <4> SUFFICES ASSUME NEW j \in 2..n, j \div 2 = c PROVE Edge(fs, j)
        BY DEF HeapBelow
      <4>1. j \in 1..n /\ j # c
        BY <2>1
      <4>2. CASE j = x
        BY <2>3, <2>6, <4>2 DEF Edge
      <4>3. CASE j # x
        <5>1. bs[j].weight <= bs[c].weight /\ fs[j] = bs[j]
          BY <2>3, <3>1, <4>1, <4>3
        <5>2. bs[j].weight <= bs[x].weight
          <6>1. bs[j].weight \in Nat
            BY <1>01, <4>1
          <6> QED
            BY <2>5, <2>6, <5>1, <6>1
        <5> QED
          BY <2>3, <5>1, <5>2 DEF Edge
      <4> QED
        BY <4>2, <4>3
    <3>3. Grand(fs, n, c)
      <4> SUFFICES ASSUME NEW j \in 2..n, j \div 2 = c, c > 1
                   PROVE  fs[j].weight <= fs[c \div 2].weight
        BY DEF Grand
      <4>1. c \in 2..n /\ c # x /\ c \div 2 # x /\ c \div 2 # c /\ c \div 2 \in 1..n
        BY <1>4, <2>1
      <4>2. bs[c].weight <= bs[c \div 2].weight /\ fs[c \div 2] = bs[c \div 2]
        BY <2>3, <2>7, <4>1 DEF HeapButAt, Edge
      <4>3. j \in 1..n /\ j # c
        BY <2>1
      <4>4. CASE j = x
        BY <2>3, <4>2, <4>4
      <4>5. CASE j # x
        <5>1. bs[j].weight <= bs[c].weight /\ fs[j] = bs[j]
          BY <2>3, <3>1, <4>3, <4>5
        <5>2. bs[j].weight \in Nat /\ bs[c \div 2].weight \in Nat
          BY <1>01, <4>1, <4>3
        <5>3. bs[j].weight <= bs[c \div 2].weight
          BY <2>5, <4>2, <5>1, <5>2
        <5> QED
          BY <4>2, <5>1, <5>3
      <4> QED
        BY <4>4, <4>5
    <3>4. ASSUME NEW j \in 2..n, j # c, j \div 2 # c PROVE Edge(fs, j)
      <4>1. j \in 1..n /\ j \div 2 \in 1..n
        OBVIOUS
      <4>2. j # x
        BY <3>4 DEF c
      <4>3. CASE j \div 2 = x
        <5>1. bs[j].weight <= bs[c].weight
          <6>1. x > 1
            BY <1>4, <2>1
          <6> QED
            BY <2>7, <4>3, <6>1 DEF HeapButAt, Grand, c
        <5> QED
          BY <2>3, <3>4, <4>1, <4>2, <4>3, <5>1 DEF Edge
      <4>4. CASE j \div 2 # x
        BY <2>3, <2>7, <3>4, <4>1, <4>2, <4>4 DEF HeapButAt, Edge
      <4> QED
        BY <4>3, <4>4
    <3> QED
      BY <3>2, <3>3, <3>4 DEF HeapButAt
  <2>8. Good(bs, x)
    <3>1. /\ Keeps(BubbleUp(fs, c), fs, n)
          /\ HeapButAt(fs, n, c) =>
               /\ HeapButBelow(BubbleUp(fs, c), n, BubbleUpTo(fs, c))
               /\ HeapBelow(fs, n, c) => Heap(BubbleUp(fs, c), n)
      BY <2>4 DEF Good
    <3>2. Keeps(BubbleUp(bs, x), bs, n)
      BY <2>2, <2>3, <3>1 DEF Keeps
    <3> QED
      BY <2>2, <2>7, <3>1, <3>2 DEF Good
  <2> QED
    BY <1>5, <2>8
<1> QED
  BY <1>6, <1>7

-----------------------------------------------------------------------------
(* The entries are the stored tasks, once each, and fit in the allocation. *)
Content ==
  /\ Tids(entries, Len(entries)) = stored
  /\ Distinct(entries, Len(entries))
  /\ Len(entries) = Cardinality(stored)
  /\ Len(entries) <= size

(* They are a heap, but for one that was dropped at the end and not raised. *)
Ordered ==
  /\ (\A p \in Thread : pc[p] # "dec") => Heap(entries, Len(entries))
  /\ (\E p \in Thread : pc[p] = "dec") =>
       Len(entries) > 0 /\ Heap(entries, Len(entries) - 1)

(* Everything before the place of the scan has been tried. *)
Scanned ==
  \A p \in Thread : pc[p] = "scan" =>
    \A k \in 1..Len(entries) : k < at => entries[k].tid \in tried

HeapInv == TypeOK /\ Content /\ Ordered /\ Scanned

-----------------------------------------------------------------------------
(* Every step is one of QueueRing's. *)
LEMMA StepIsRing ==
  ASSUME RingTypeOK, [Next]_vars
  PROVE  [RingNext]_ringVars
<1>1. ASSUME NEW p \in Thread, Step(p) PROVE [RingNext]_ringVars
  <2>1. CASE HeapTake(p)
    <3>1. Take(p, entries[at].tid)
      BY <2>1 DEF HeapTake
    <3>2. entries[at].tid \in Task
      BY <3>1 DEF Take, RingTypeOK
    <3> QED
      BY <3>1, <3>2 DEF RingNext
  <2>2. CASE Refuse(p)
    BY <2>2 DEF Refuse
  <2>3. CASE InsertStep(p) \/ Swap(p) \/ Advance(p) \/ DrainEnd(p) \/ Push(p) \/ Dec(p)
             \/ Nothing(p)
    BY <2>3 DEF RingNext, DrainStep
  <2> QED
    BY <1>1, <2>1, <2>2, <2>3 DEF Step, StartScan, HeapPush, HeapDec, HeapNothing
<1>2. ASSUME NEW p \in Thread, Begin(p) PROVE [RingNext]_ringVars
  BY <1>2 DEF RingNext
<1>3. CASE UNCHANGED vars
  BY <1>3 DEF vars
<1> QED
  BY <1>1, <1>2, <1>3 DEF Next

LEMMA RingInvariant == Spec => []IInv
<1>1. Init => IInv
  BY InitIInv DEF Init
<1>2. IInv /\ [Next]_vars => IInv'
  BY StepIsRing, StepIInv DEF IInv
<1> QED
  BY <1>1, <1>2, PTL DEF Spec

(***************************************************************************)
(* The queue with its heap implements the queue that is a set: refused     *)
(* tasks only change their places, and which task is taken is one of the   *)
(* choices QueueRing leaves open.  So what holds of QueueRing's steps, no  *)
(* task lost or queued twice, counts exact, none stranded, holds here too. *)
(***************************************************************************)
THEOREM HeapImplementsRing == Spec => RingSpec
<1>1. Init => RingInit
  BY DEF Init
<1>2. IInv /\ [Next]_vars => [RingNext]_ringVars
  BY StepIsRing DEF IInv
<1> QED
  BY <1>1, <1>2, RingInvariant, PTL DEF Spec, RingSpec

-----------------------------------------------------------------------------
(* The facts of the ring that the heap needs. *)
LEMMA OneUnderLock ==
  ASSUME IInv, NEW p \in Thread, pc[p] \in {"push", "dec", "scan", "drain"}
  PROVE  \A q \in Thread : q # p => pc[q] \notin {"push", "dec", "scan", "drain"}
  BY DEF IInv, LockOwned, UnderLock

LEMMA SameEntries ==
  ASSUME HeapInv, UNCHANGED <<entries, size, at, tried, stored>>, RingTypeOK',
         \A q \in Thread : pc'[q] = "dec" <=> pc[q] = "dec",
         \A q \in Thread : pc'[q] = "scan" => pc[q] = "scan"
  PROVE  HeapInv'
<1>1. TypeOK'
  BY DEF HeapInv, TypeOK
<1>2. Content'
  BY DEF HeapInv, Content, Tids, Distinct
<1>3. Ordered'
  BY DEF HeapInv, Ordered, Heap, Edge
<1>4. Scanned'
  BY DEF HeapInv, Scanned
<1> QED
  BY <1>1, <1>2, <1>3, <1>4 DEF HeapInv

LEMMA RingStepHeap ==
  ASSUME HeapInv, RingTypeOK', NEW p \in Thread, UNCHANGED heapVars,
         InsertStep(p) \/ Swap(p) \/ Advance(p) \/ Begin(p)
  PROVE  HeapInv'
<1>1. pc \in [Thread -> {"idle", "cas", "trylock", "count", "drain", "advance",
                        "push", "dec", "scan"}]
  BY DEF HeapInv, TypeOK, RingTypeOK
<1>2. UNCHANGED stored
  BY DEF InsertStep, Store, Help, Count, Swap, Advance, Begin, GetLock, Ticket
<1>3. /\ pc[p] \notin {"dec", "scan"} /\ pc'[p] \notin {"dec", "scan"}
      /\ \A q \in Thread : q # p => pc'[q] = pc[q]
  <2>1. ASSUME NEW l, Goto(p, l), l \notin {"dec", "scan"}, pc[p] \notin {"dec", "scan"}
        PROVE  /\ pc[p] \notin {"dec", "scan"} /\ pc'[p] \notin {"dec", "scan"}
               /\ \A q \in Thread : q # p => pc'[q] = pc[q]
    BY <1>1, <2>1 DEF Goto
  <2>2. CASE Store(p)
    BY <2>1, <2>2 DEF Store
  <2>3. CASE Help(p)
    BY <2>1, <2>3 DEF Help
  <2>4. CASE Count(p)
    BY <2>1, <2>4 DEF Count
  <2>5. CASE Swap(p)
    BY <2>1, <2>5 DEF Swap
  <2>6. CASE Advance(p)
    BY <2>1, <2>6 DEF Advance
  <2>7. CASE GetLock(p)
    BY <2>1, <2>7 DEF GetLock
  <2>8. ASSUME NEW t \in Task, Ticket(p, t)
        PROVE  /\ pc[p] \notin {"dec", "scan"} /\ pc'[p] \notin {"dec", "scan"}
               /\ \A q \in Thread : q # p => pc'[q] = pc[q]
    BY <2>1, <2>8 DEF Ticket
  <2> QED
    BY <2>2, <2>3, <2>4, <2>5, <2>6, <2>7, <2>8 DEF InsertStep, Begin
<1>4. \A q \in Thread : (pc'[q] = "dec" <=> pc[q] = "dec") /\ (pc'[q] = "scan" => pc[q] = "scan")
  BY <1>3
<1> QED
  BY <1>2, <1>4, SameEntries DEF heapVars

LEMMA StartScanHeap ==
  ASSUME HeapInv, RingTypeOK', NEW p \in Thread, StartScan(p)
  PROVE  HeapInv'
<1>1. /\ UNCHANGED <<entries, size, stored>> /\ at' = 1 /\ tried' = {} /\ pc[p] = "drain"
      /\ Goto(p, "cas") \/ Goto(p, "scan")
  BY DEF StartScan, DrainEnd
<1>2. \A q \in Thread : pc'[q] = "dec" <=> pc[q] = "dec"
  BY <1>1 DEF HeapInv, TypeOK, RingTypeOK, Goto
<1>3. TypeOK'
  <2>1. Cardinality(Task) \in Nat
    BY TaskAssumption, FS_CardinalityType
  <2> QED
    BY <1>1, <2>1 DEF HeapInv, TypeOK
<1>4. Content'
  BY <1>1 DEF HeapInv, Content, Tids, Distinct
<1>5. Ordered'
  BY <1>1, <1>2 DEF HeapInv, Ordered, Heap, Edge
<1>6. Scanned'
  BY <1>1 DEF Scanned
<1> QED
  BY <1>3, <1>4, <1>5, <1>6 DEF HeapInv

LEMMA NothingHeap ==
  ASSUME HeapInv, RingTypeOK', NEW p \in Thread, HeapNothing(p)
  PROVE  HeapInv'
<1>1. /\ UNCHANGED <<entries, size, stored>> /\ at' = 1 /\ tried' = {} /\ pc[p] = "scan"
      /\ Goto(p, "idle")
  BY DEF HeapNothing, Nothing
<1>2. \A q \in Thread : pc'[q] = "dec" <=> pc[q] = "dec"
  BY <1>1 DEF HeapInv, TypeOK, RingTypeOK, Goto
<1>3. TypeOK'
  <2>1. Cardinality(Task) \in Nat
    BY TaskAssumption, FS_CardinalityType
  <2> QED
    BY <1>1, <2>1 DEF HeapInv, TypeOK
<1>4. Content'
  BY <1>1 DEF HeapInv, Content, Tids, Distinct
<1>5. Ordered'
  BY <1>1, <1>2 DEF HeapInv, Ordered, Heap, Edge
<1>6. Scanned'
  BY <1>1 DEF Scanned
<1> QED
  BY <1>3, <1>4, <1>5, <1>6 DEF HeapInv

(* Doubling, or more, makes room. *)
LEMMA GrowMakesRoom ==
  ASSUME NEW s \in Nat \ {0}
  PROVE  s * SizeGrow \in Nat \ {0} /\ s + 1 <= s * SizeGrow
<1>1. PICK g \in Nat : SizeGrow = g + 2
  <2>1. SizeGrow - 2 \in Nat /\ SizeGrow = (SizeGrow - 2) + 2
    BY SizeAssumption
  <2> QED
    BY <2>1
<1>2. s * g \in Nat
  OBVIOUS
<1>3. s * (g + 2) = s * g + 2 * s
  OBVIOUS
<1> QED
  BY <1>1, <1>2, <1>3

LEMMA FewEntries ==
  ASSUME HeapInv
  PROVE  /\ Len(entries) \in Nat /\ Cardinality(Task) \in Nat
         /\ Len(entries) <= Cardinality(Task)
         /\ entries \in Arrays(Len(entries))
         /\ IsFiniteSet(stored)
<1>1. stored \subseteq Task /\ IsFiniteSet(Task)
  BY TaskAssumption DEF HeapInv, TypeOK, RingTypeOK
<1>2. IsFiniteSet(stored) /\ Cardinality(stored) <= Cardinality(Task)
  BY <1>1, FS_Subset
<1>3. Cardinality(Task) \in Nat
  BY <1>1, FS_CardinalityType
<1>4. entries \in Seq(Entry) /\ Len(entries) = Cardinality(stored)
  BY DEF HeapInv, TypeOK, Content
<1> QED
  BY <1>2, <1>3, <1>4 DEF Arrays

(* The task in the drain's hands is not stored yet. *)
LEMMA PushHeap ==
  ASSUME IInv, HeapInv, RingTypeOK', NEW p \in Thread, HeapPush(p)
  PROVE  HeapInv'
<1> DEFINE n == Len(entries)
           t == offset[p]
           e == [tid |-> t, weight |-> Weight[t]]
<1>1. /\ pc[p] = "push" /\ stored' = stored \cup {t} /\ Goto(p, "dec")
      /\ size' = IF n = size THEN size * SizeGrow ELSE size
      /\ entries' = Append(entries, e) /\ UNCHANGED <<at, tried>>
  BY DEF HeapPush, Push
<1>2. t \in Task /\ t \notin stored
  <2>1. t # NoTask /\ t \in Task \cup {NoTask}
    BY <1>1 DEF IInv, LocalsMatch, RingTypeOK
  <2>2. t \in InHand
    BY <2>1 DEF InHand
  <2> QED
    BY <2>1, <2>2 DEF IInv, TaskInOnePlace
<1>3. /\ n \in Nat /\ entries \in Arrays(n) /\ entries \in Seq(Entry) /\ IsFiniteSet(stored)
      /\ size \in Nat \ {0} /\ n <= size /\ n = Cardinality(stored)
      /\ Tids(entries, n) = stored /\ Distinct(entries, n)
  BY FewEntries DEF HeapInv, TypeOK, Content
<1>4. e \in Entry /\ e.tid = t
  BY <1>2, WeightAssumption DEF Entry
<1> HIDE DEF e
<1>5. /\ entries' \in Seq(Entry) /\ Len(entries') = n + 1 /\ entries'[n + 1] = e
      /\ \A j \in 1..n : entries'[j] = entries[j]
  BY <1>1, <1>3, <1>4, AppendProperties
<1> HIDE DEF n
<1>6. Content'
  <2>1. Tids(entries', n + 1) = stored'
    <3>1. ASSUME NEW u \in Tids(entries', n + 1) PROVE u \in stored'
      <4>1. PICK j \in 1..(n + 1) : u = entries'[j].tid
        BY <3>1 DEF Tids
      <4>2. CASE j = n + 1
        BY <1>1, <1>4, <1>5, <4>1, <4>2
      <4>3. CASE j # n + 1
        <5>1. j \in 1..n
          BY <1>3, <4>3
        <5>2. u \in Tids(entries, n)
          BY <1>5, <4>1, <5>1 DEF Tids
        <5> QED
          BY <1>1, <1>3, <5>2
      <4> QED
        BY <4>2, <4>3
    <3>2. ASSUME NEW u \in stored' PROVE u \in Tids(entries', n + 1)
      <4>1. CASE u = t
        <5>1. n + 1 \in 1..(n + 1)
          BY <1>3
        <5> QED
          BY <1>4, <1>5, <4>1, <5>1 DEF Tids
      <4>2. CASE u \in stored
        <5>1. PICK j \in 1..n : u = entries[j].tid
          BY <1>3, <4>2 DEF Tids
        <5>2. j \in 1..(n + 1)
          BY <1>3
        <5> QED
          BY <1>5, <5>1, <5>2 DEF Tids
      <4> QED
        BY <1>1, <4>1, <4>2
    <3> QED
      BY <3>1, <3>2
  <2>2. Distinct(entries', n + 1)
    <3>1. \A j \in 1..n : entries'[j].tid # t
      BY <1>2, <1>3, <1>5 DEF Tids
    <3>2. entries'[n + 1].tid = t
      BY <1>4, <1>5
    <3> QED
      BY <1>3, <1>5, <3>1, <3>2 DEF Distinct
  <2>3. Cardinality(stored') = n + 1
    BY <1>1, <1>2, <1>3, FS_AddElement
  <2>4. n + 1 <= size'
    <3>1. CASE n = size
      BY <1>1, <1>3, <3>1, GrowMakesRoom
    <3>2. CASE n # size
      BY <1>1, <1>3, <3>2
    <3> QED
      BY <3>1, <3>2
  <2> QED
    BY <1>5, <2>1, <2>2, <2>3, <2>4 DEF Content, Tids, Distinct
<1>7. TypeOK'
  <2>1. size' \in Nat \ {0}
    BY <1>1, <1>3, GrowMakesRoom
  <2> QED
    BY <1>1, <1>5, <2>1 DEF HeapInv, TypeOK
<1>8. pc'[p] = "dec" /\ \A q \in Thread : q # p => pc'[q] = pc[q]
  BY <1>1 DEF HeapInv, TypeOK, RingTypeOK, Goto
<1>9. \A q \in Thread : q # p => pc[q] \notin {"dec", "scan"}
  BY <1>1, OneUnderLock
<1>10. Ordered'
  <2>1. Heap(entries, n)
    BY <1>1, <1>9 DEF HeapInv, Ordered, n
  <2>2. Heap(entries', n)
    <3>1. ASSUME NEW j \in 2..n PROVE Edge(entries', j)
      <4>1. j \in 1..n /\ j \div 2 \in 1..n
        BY <1>3
      <4>2. entries'[j] = entries[j] /\ entries'[j \div 2] = entries[j \div 2]
        BY <1>5, <4>1
      <4> QED
        BY <2>1, <4>2 DEF Heap, Edge
    <3> QED
      BY <3>1 DEF Heap
  <2>3. Len(entries') > 0 /\ Len(entries') - 1 = n
    BY <1>3, <1>5
  <2> QED
    BY <1>8, <2>2, <2>3 DEF Ordered, Heap, Edge
<1>11. Scanned'
  BY <1>8, <1>9 DEF Scanned
<1> QED
  BY <1>6, <1>7, <1>10, <1>11 DEF HeapInv

(* What a rearrangement of the entries keeps. *)
LEMMA KeptContent ==
  ASSUME HeapInv, NEW fs, Keeps(fs, entries, Len(entries)), entries' = fs,
         UNCHANGED <<size, stored>>
  PROVE  Content' /\ entries' \in Seq(Entry) /\ Len(entries') = Len(entries)
  BY DEF HeapInv, Content, Keeps, Arrays, Tids, Distinct

LEMMA DecHeap ==
  ASSUME IInv, HeapInv, RingTypeOK', NEW p \in Thread, HeapDec(p)
  PROVE  HeapInv'
<1> DEFINE n == Len(entries)
<1>1. /\ pc[p] = "dec" /\ Goto(p, "drain") /\ entries' = BubbleUp(entries, n)
      /\ UNCHANGED <<size, at, tried, stored>>
  BY DEF HeapDec, Dec
<1>2. n \in Nat \ {0} /\ entries \in Arrays(n) /\ Heap(entries, n - 1)
  BY <1>1, FewEntries DEF HeapInv, Ordered
<1>3. n \in 1..n
  BY <1>2
<1> HIDE DEF n
<1>4. HeapButAt(entries, n, n) /\ HeapBelow(entries, n, n)
  <2>1. ASSUME NEW j \in 2..n PROVE j \div 2 # n
    BY <1>2
  <2>2. ASSUME NEW j \in 2..n, j # n PROVE Edge(entries, j)
    BY <1>2, <2>2 DEF Heap
  <2> QED
    BY <2>1, <2>2 DEF HeapButAt, HeapBelow, Grand
<1>5. Keeps(entries', entries, n) /\ Heap(entries', n)
  BY <1>1, <1>2, <1>3, <1>4, BubbleUpHeap
<1>6. Content' /\ entries' \in Seq(Entry) /\ Len(entries') = n
  BY <1>1, <1>5, KeptContent DEF n
<1>7. TypeOK'
  BY <1>1, <1>6 DEF HeapInv, TypeOK
<1>8. pc'[p] = "drain" /\ \A q \in Thread : q # p => pc'[q] = pc[q]
  BY <1>1 DEF HeapInv, TypeOK, RingTypeOK, Goto
<1>9. \A q \in Thread : q # p => pc[q] \notin {"dec", "scan"}
  BY <1>1, OneUnderLock
<1>10. Ordered'
  BY <1>5, <1>6, <1>8, <1>9 DEF Ordered, Heap, Edge
<1>11. Scanned'
  BY <1>8, <1>9 DEF Scanned
<1> QED
  BY <1>6, <1>7, <1>10, <1>11 DEF HeapInv

LEMMA HalveIs ==
  ASSUME NEW w \in Nat
  PROVE  Halve(w) \in Nat /\ Halve(w) <= w
<1>1. w % 2 = 0 => w \div 2 \in Nat /\ w \div 2 <= w
  OBVIOUS
<1>2. w % 2 # 0 => w \div 2 + 1 <= w /\ w \div 2 \in Nat
  OBVIOUS
<1>3. (w \div 2) % 2 \in {0, 1}
  OBVIOUS
<1> QED
  BY <1>1, <1>2, <1>3 DEF Halve

-----------------------------------------------------------------------------
(* An entry that gets lighter can only have become too light for its place. *)
LEMMA RefuseHeap ==
  ASSUME IInv, HeapInv, RingTypeOK', NEW p \in Thread, Refuse(p)
  PROVE  HeapInv'
<1> DEFINE n == Len(entries)
           w == Halve(entries[at].weight)
           es == [entries EXCEPT ![at] = [entries[at] EXCEPT !.weight = w]]
           stop == SiftDownTo(es, at)
<1>1. /\ pc[p] = "scan" /\ at <= n /\ entries' = SiftDown(es, at)
      /\ at' = IF stop # at THEN at ELSE at + 1
      /\ tried' = tried \cup {entries[at].tid}
      /\ UNCHANGED <<size, stored, pc>>
  BY DEF Refuse, ringVars
<1>2. /\ n \in Nat /\ n <= Cardinality(Task) /\ Cardinality(Task) \in Nat
      /\ entries \in Arrays(n) /\ entries \in [1..n -> Entry]
      /\ at \in 1..n /\ at \in Nat \ {0} /\ tried \subseteq Task
  <2>1. n \in Nat /\ entries \in Arrays(n)
    BY FewEntries
  <2>2. entries \in [1..n -> Entry]
    BY <2>1, ArrayIs
  <2> QED
    BY <1>1, <2>1, <2>2, FewEntries DEF HeapInv, TypeOK
<1>3. entries[at] \in Entry /\ entries[at].weight \in Nat /\ entries[at].tid \in Task
  BY <1>2, EntryIs
<1>4. w \in Nat /\ w <= entries[at].weight
  BY <1>3, HalveIs
<1> HIDE DEF w, n
<1>5. /\ es \in [1..n -> Entry] /\ es[at].tid = entries[at].tid /\ es[at].weight = w
      /\ \A j \in 1..n : j # at => es[j] = entries[j]
  BY <1>2, <1>3, <1>4 DEF Entry
<1> HIDE DEF es
<1>6. es \in Arrays(n)
  BY <1>2, <1>5, ArrayIs
<1>7. \A j \in 1..n : es[j].tid = entries[j].tid
  BY <1>5
<1>8. Heap(entries, n)
  <2>1. \A q \in Thread : pc[q] # "dec"
    BY <1>1, OneUnderLock
  <2> QED
    BY <2>1 DEF HeapInv, Ordered, n
<1>9. \A j \in 1..n : entries[j].weight \in Nat
  BY <1>2, EntryIs
<1>10. HeapButBelow(es, n, at)
  <2>1. Grand(es, n, at)
    <3> SUFFICES ASSUME NEW j \in 2..n, j \div 2 = at, at > 1
                 PROVE  es[j].weight <= es[at \div 2].weight
      BY DEF Grand
    <3>1. j \in 1..n /\ j # at /\ at \in 2..n /\ at \div 2 \in 1..n /\ at \div 2 # at
      BY <1>2
    <3>2. /\ entries[j].weight <= entries[at].weight
          /\ entries[at].weight <= entries[at \div 2].weight
      BY <1>8, <3>1 DEF Heap, Edge
    <3>3. entries[j].weight <= entries[at \div 2].weight
      BY <1>2, <1>9, <3>1, <3>2
    <3> QED
      BY <1>5, <3>1, <3>3
  <2>2. ASSUME NEW j \in 2..n, j \div 2 # at PROVE Edge(es, j)
    <3>1. j \in 1..n /\ j \div 2 \in 1..n
      BY <1>2
    <3>2. entries[j].weight <= entries[j \div 2].weight /\ es[j \div 2] = entries[j \div 2]
      BY <1>5, <1>8, <2>2, <3>1 DEF Heap, Edge
    <3>3. es[j].weight <= entries[j].weight /\ es[j].weight \in Nat
      BY <1>4, <1>5, <1>9, <3>1
    <3>4. es[j].weight <= entries[j \div 2].weight
      BY <1>9, <3>1, <3>2, <3>3
    <3> QED
      BY <3>2, <3>4 DEF Edge
  <2> QED
    BY <2>1, <2>2 DEF HeapButBelow
<1>11. Keeps(entries', es, n) /\ Heap(entries', n)
  BY <1>1, <1>2, <1>6, <1>10, SiftDownHeap
<1>12. Keeps(entries', entries, n)
  <2>1. ASSUME NEW t \in Tids(es, n) PROVE t \in Tids(entries, n)
    BY <1>7 DEF Tids
  <2>2. ASSUME NEW t \in Tids(entries, n) PROVE t \in Tids(es, n)
    BY <1>7 DEF Tids
  <2>3. Tids(es, n) = Tids(entries, n)
    BY <2>1, <2>2
  <2>4. Distinct(entries, n) => Distinct(es, n)
    BY <1>7 DEF Distinct
  <2> QED
    BY <1>11, <2>3, <2>4 DEF Keeps
<1>13. Content' /\ entries' \in Seq(Entry) /\ Len(entries') = n
  BY <1>1, <1>12, KeptContent DEF n
<1>14. TypeOK'
  <2>1. at' \in 1..(Cardinality(Task) + 1)
    BY <1>1, <1>2
  <2>2. tried' \subseteq Task
    BY <1>1, <1>2, <1>3
  <2> QED
    BY <1>1, <1>13, <2>1, <2>2 DEF HeapInv, TypeOK
<1>15. Ordered'
  <2>1. \A q \in Thread : pc'[q] # "dec"
    BY <1>1, OneUnderLock
  <2> QED
    BY <1>11, <1>13, <2>1 DEF Ordered, Heap, Edge
<1>16. Scanned'
  <2>1. /\ stop \in at..n
        /\ entries' = [j \in 1..n |->
             IF j = stop THEN es[at]
             ELSE IF j >= at /\ IsAncestor(at, j) /\ IsAncestor(j, stop)
                  THEN es[LargerChild(es, j)] ELSE es[j]]
    BY <1>1, <1>2, <1>6, SiftDownType
  <2> HIDE DEF stop
  <2>2. ASSUME NEW k \in 1..n, k < at PROVE entries'[k].tid = entries[k].tid
    <3>1. k # stop /\ ~(k >= at)
      BY <1>2, <2>1, <2>2
    <3>2. entries'[k] = es[k]
      BY <2>1, <3>1
    <3> QED
      BY <1>7, <3>2
  <2>3. ASSUME stop = at PROVE entries'[at].tid = entries[at].tid
    <3>1. entries'[at] = es[at]
      BY <1>2, <2>1, <2>3
    <3> QED
      BY <1>5, <3>1
  <2>4. ASSUME NEW k \in 1..n, k < at' PROVE entries'[k].tid \in tried'
    <3>1. CASE k < at
      <4>1. entries[k].tid \in tried
        BY <1>1, <3>1 DEF HeapInv, Scanned, n
      <4> QED
        BY <1>1, <2>2, <3>1, <4>1
    <3>2. CASE ~(k < at)
      <4>1. stop = at /\ k = at
        BY <1>1, <1>2, <2>4, <3>2
      <4> QED
        BY <1>1, <2>3, <4>1
    <3> QED
      BY <3>1, <3>2
  <2> QED
    BY <1>13, <2>4 DEF Scanned
<1> QED
  BY <1>13, <1>14, <1>15, <1>16 DEF HeapInv

(***************************************************************************)
(* Taking out the entry at k: the last one comes in its place, and may     *)
(* have to rise as well as to sink.                                        *)
(***************************************************************************)
LEMMA RemoveIs ==
  ASSUME NEW n \in Nat, NEW es \in Arrays(n + 1), NEW k \in 1..(n + 1),
         Heap(es, n + 1), Distinct(es, n + 1)
  PROVE  /\ Remove(es, k) \in Arrays(n)
         /\ Tids(Remove(es, k), n) = Tids(es, n + 1) \ {es[k].tid}
         /\ Distinct(Remove(es, k), n)
         /\ Heap(Remove(es, k), n)
<1> DEFINE moved == [es EXCEPT ![k] = es[n + 1]]
           filled == SubSeq(moved, 1, n)
           risen == BubbleUp(filled, k)
           top == BubbleUpTo(filled, k)
<1>1. es \in [1..(n + 1) -> Entry] /\ Len(es) = n + 1 /\ Len(es) - 1 = n
  BY ArrayIs DEF Arrays
<1>2. /\ moved \in [1..(n + 1) -> Entry]
      /\ \A j \in 1..n : moved[j] = IF j = k THEN es[n + 1] ELSE es[j]
  BY <1>1
<1>3. moved \in Seq(Entry) /\ Len(moved) = n + 1
  <2> HIDE DEF moved
  <2>1. n + 1 \in Nat
    OBVIOUS
  <2>2. Arrays(n + 1) = [1..(n + 1) -> Entry]
    BY ONLY <2>1, ArrayIs
  <2>3. moved \in Arrays(n + 1)
    BY <1>2, <2>2
  <2> QED
    BY <2>3 DEF Arrays
<1> HIDE DEF moved
<1>4. filled \in Arrays(n) /\ \A j \in 1..n : filled[j] = IF j = k THEN es[n + 1] ELSE es[j]
  <2>1. filled \in Seq(Entry) /\ Len(filled) = n /\ \A j \in 1..n : filled[j] = moved[j]
    BY <1>3
  <2> QED
    BY <1>2, <2>1 DEF Arrays
<1>5. Remove(es, k) = IF k <= n THEN SiftDown(risen, top) ELSE filled
  BY <1>1 DEF Remove, moved
<1> HIDE DEF filled
<1>6. Distinct(filled, n)
  <2> SUFFICES ASSUME NEW i \in 1..n, NEW j \in 1..n, filled[i].tid = filled[j].tid
               PROVE  i = j
    BY DEF Distinct
  <2> DEFINE from(x) == IF x = k THEN n + 1 ELSE x
  <2>1. \A x \in 1..n : filled[x] = es[from(x)] /\ from(x) \in 1..(n + 1)
    BY <1>4
  <2>2. from(i) = from(j)
    BY <2>1 DEF Distinct
  <2> QED
    BY <2>2
<1>7. Tids(filled, n) = Tids(es, n + 1) \ {es[k].tid}
  <2>1. ASSUME NEW t \in Tids(filled, n) PROVE t \in Tids(es, n + 1) \ {es[k].tid}
    <3>1. PICK j \in 1..n : t = filled[j].tid
      BY <2>1 DEF Tids
    <3> DEFINE i == IF j = k THEN n + 1 ELSE j
    <3>2. i \in 1..(n + 1) /\ i # k /\ t = es[i].tid
      BY <1>4, <3>1
    <3> HIDE DEF i
    <3>3. t # es[k].tid
      BY <3>2 DEF Distinct
    <3> QED
      BY <3>2, <3>3 DEF Tids
  <2>2. ASSUME NEW t \in Tids(es, n + 1), t # es[k].tid PROVE t \in Tids(filled, n)
    <3>1. PICK j \in 1..(n + 1) : t = es[j].tid
      BY <2>2 DEF Tids
    <3>2. j # k
      BY <2>2, <3>1
    <3> DEFINE i == IF j = n + 1 THEN k ELSE j
    <3>3. i \in 1..n /\ filled[i] = es[j]
      BY <1>4, <3>2
    <3> QED
      BY <3>1, <3>3 DEF Tids
  <2> QED
    BY <2>1, <2>2
<1>8. CASE ~(k <= n)
  <2>1. k = n + 1 /\ Remove(es, k) = filled
    BY <1>5, <1>8
  <2>2. Heap(filled, n)
    <3> SUFFICES ASSUME NEW j \in 2..n PROVE Edge(filled, j)
      BY DEF Heap
    <3>1. j \in 1..n /\ j \div 2 \in 1..n /\ j # k /\ j \div 2 # k /\ j \in 2..(n + 1)
      BY <2>1
    <3>2. filled[j] = es[j] /\ filled[j \div 2] = es[j \div 2]
      BY <1>4, <3>1
    <3> QED
      BY <3>1, <3>2 DEF Heap, Edge
  <2> QED
    BY <1>4, <1>6, <1>7, <2>1, <2>2
<1>9. CASE k <= n
  <2>1. k \in 1..n /\ Remove(es, k) = SiftDown(risen, top)
    BY <1>5, <1>9
  <2>2. HeapButAt(filled, n, k)
    <3>1. ASSUME NEW j \in 2..n, j # k, j \div 2 # k PROVE Edge(filled, j)
      <4>1. j \in 1..n /\ j \div 2 \in 1..n /\ j \in 2..(n + 1)
        OBVIOUS
      <4>2. filled[j] = es[j] /\ filled[j \div 2] = es[j \div 2]
        BY <1>4, <3>1, <4>1
      <4> QED
        BY <4>1, <4>2 DEF Heap, Edge
    <3>2. ASSUME NEW j \in 2..n, j \div 2 = k, k > 1
          PROVE  filled[j].weight <= filled[k \div 2].weight
      <4>1. /\ j \in 1..n /\ j # k /\ j \in 2..(n + 1) /\ k \in 2..(n + 1)
            /\ k \div 2 \in 1..n /\ k \div 2 # k
        BY <2>1, <3>2
      <4>2. es[j].weight <= es[k].weight /\ es[k].weight <= es[k \div 2].weight
        BY <3>2, <4>1 DEF Heap, Edge
      <4>3. es[j].weight \in Nat /\ es[k].weight \in Nat /\ es[k \div 2].weight \in Nat
        <5>1. n + 1 \in Nat /\ j \in 1..(n + 1) /\ k \div 2 \in 1..(n + 1)
          BY <4>1
        <5> QED
          BY <5>1, EntryIs
      <4>4. es[j].weight <= es[k \div 2].weight
        BY <4>2, <4>3
      <4> QED
        BY <1>4, <4>1, <4>4
    <3> QED
      BY <3>1, <3>2 DEF HeapButAt, Grand
  <2>3. Keeps(risen, filled, n) /\ HeapButBelow(risen, n, top)
    BY <1>4, <2>1, <2>2, BubbleUpHeap
  <2>4. top \in 1..n
    BY <1>4, <2>1, BubbleUpType
  <2> HIDE DEF risen, top
  <2>5. Keeps(SiftDown(risen, top), risen, n) /\ Heap(SiftDown(risen, top), n)
    <3>1. risen \in Arrays(n)
      BY <2>3 DEF Keeps
    <3> QED
      BY <2>3, <2>4, <3>1, SiftDownHeap
  <2> QED
    BY <1>6, <1>7, <2>1, <2>3, <2>5 DEF Keeps
<1> QED
  BY <1>8, <1>9

LEMMA TakeHeap ==
  ASSUME IInv, HeapInv, RingTypeOK', NEW p \in Thread, HeapTake(p)
  PROVE  HeapInv'
<1> DEFINE n == Len(entries) - 1
           t == entries[at].tid
<1>1. /\ pc[p] = "scan" /\ at <= Len(entries) /\ t \in stored
      /\ stored' = stored \ {t} /\ Goto(p, "idle")
      /\ entries' = Remove(entries, at) /\ at' = 1 /\ tried' = {} /\ UNCHANGED size
  BY DEF HeapTake, Take
<1>2. /\ n \in Nat /\ Len(entries) = n + 1 /\ entries \in Arrays(n + 1)
      /\ at \in 1..(n + 1) /\ IsFiniteSet(stored) /\ Cardinality(Task) \in Nat
  BY <1>1, FewEntries DEF HeapInv, TypeOK
<1>3. \A q \in Thread : q # p => pc[q] \notin {"dec", "scan"}
  BY <1>1, OneUnderLock
<1>4. Heap(entries, n + 1) /\ Distinct(entries, n + 1) /\ Tids(entries, n + 1) = stored
  BY <1>1, <1>2, <1>3 DEF HeapInv, Ordered, Content
<1>5. size \in Nat \ {0} /\ n + 1 <= size /\ n + 1 = Cardinality(stored)
  BY <1>2 DEF HeapInv, TypeOK, Content
<1> HIDE DEF n
<1>6. /\ entries' \in Arrays(n) /\ Tids(entries', n) = stored' /\ Distinct(entries', n)
      /\ Heap(entries', n)
  BY <1>1, <1>2, <1>4, RemoveIs
<1>7. entries' \in Seq(Entry) /\ Len(entries') = n
  BY <1>6 DEF Arrays
<1>8. Cardinality(stored') = n
  <2>1. Cardinality(stored') = Cardinality(stored) - 1
    BY <1>1, <1>2, FS_RemoveElement
  <2> QED
    BY <1>2, <1>5, <2>1
<1>9. Content'
  <2>1. n <= size'
    BY <1>1, <1>2, <1>5
  <2> QED
    BY <1>6, <1>7, <1>8, <2>1 DEF Content, Tids, Distinct
<1>10. TypeOK'
  BY <1>1, <1>2, <1>5, <1>7 DEF TypeOK
<1>11. \A q \in Thread : pc'[q] # "dec"
  BY <1>1, <1>3 DEF HeapInv, TypeOK, RingTypeOK, Goto
<1>12. Ordered'
  BY <1>6, <1>7, <1>11 DEF Ordered, Heap, Edge
<1>13. Scanned'
  BY <1>1 DEF Scanned
<1> QED
  BY <1>9, <1>10, <1>12, <1>13 DEF HeapInv

-----------------------------------------------------------------------------
(* An empty queue. *)
LEMMA InitHeap == Init => HeapInv
<1> SUFFICES ASSUME Init PROVE HeapInv
  OBVIOUS
<1>1. IInv
  BY InitIInv DEF Init
<1>2. entries \in Seq(Entry) /\ Len(entries) = 0 /\ stored = {} /\ size = SizeInit
  BY DEF Init, RingInit
<1>3. Cardinality(Task) \in Nat /\ Cardinality({}) = 0
  BY TaskAssumption, FS_CardinalityType, FS_EmptySet
<1>4. TypeOK
  BY <1>1, <1>2, <1>3, SizeAssumption DEF Init, IInv, TypeOK
<1>5. Content
  <2>1. Tids(entries, 0) = {} /\ Distinct(entries, 0)
    BY DEF Tids, Distinct
  <2> QED
    BY <1>2, <1>3, <2>1, SizeAssumption DEF Content
<1>6. Ordered
  <2>1. \A p \in Thread : pc[p] # "dec"
    BY DEF Init, RingInit
  <2> QED
    BY <1>2, <2>1 DEF Ordered, Heap
<1>7. Scanned
  BY <1>2 DEF Scanned
<1> QED
  BY <1>4, <1>5, <1>6, <1>7 DEF HeapInv

LEMMA StepHeap == IInv /\ IInv' /\ HeapInv /\ [Next]_vars => HeapInv'
<1> SUFFICES ASSUME IInv, IInv', HeapInv, [Next]_vars PROVE HeapInv'
  OBVIOUS
<1>1. RingTypeOK'
  BY DEF IInv
<1>2. ASSUME NEW p \in Thread, Step(p) PROVE HeapInv'
  BY <1>1, <1>2, RingStepHeap, StartScanHeap, PushHeap, DecHeap, RefuseHeap, TakeHeap,
     NothingHeap
  DEF Step
<1>3. ASSUME NEW p \in Thread, Begin(p), UNCHANGED heapVars PROVE HeapInv'
  BY <1>1, <1>3, RingStepHeap
<1>4. CASE UNCHANGED vars
  BY <1>1, <1>4, SameEntries DEF vars, ringVars, heapVars
<1> QED
  BY <1>2, <1>3, <1>4 DEF Next

LEMMA HeapInvariant == Spec => []HeapInv
  BY InitHeap, StepHeap, RingInvariant, PTL DEF Spec

(***************************************************************************)
(* Type correctness of the queue with its heap: the scan's place never     *)
(* passes the end by more than one, and entries are tasks with weights.    *)
(***************************************************************************)
THEOREM HeapTypeCorrect == Spec => []TypeOK
<1>1. HeapInv => TypeOK
  BY DEF HeapInv
<1> QED
  BY <1>1, HeapInvariant, PTL

(***************************************************************************)
(* q->entries holds each stored task once and never outgrows q->size,      *)
(* through pushes that grow it, sifts that move entries under the scan and *)
(* removals in the middle.                                                 *)
(***************************************************************************)
THEOREM EntriesAreTheTasks == Spec => []EntriesMatch
<1>1. HeapInv => EntriesMatch
  <2> SUFFICES ASSUME HeapInv PROVE EntriesMatch
    OBVIOUS
  <2>1. DOMAIN entries = 1..Len(entries)
    BY DEF HeapInv, TypeOK
  <2> QED
    BY <2>1 DEF HeapInv, Content, Tids, EntriesMatch
<1> QED
  BY <1>1, HeapInvariant, PTL

(***************************************************************************)
(* Whenever the queue is unlocked its entries are a heap, for any weights  *)
(* and any number of tasks: the check of queue_gettask in debugging mode   *)
(* never fails.                                                            *)
(***************************************************************************)
THEOREM AlwaysAHeap == Spec => []HeapOrdered
<1>1. IInv /\ HeapInv => HeapOrdered
  <2> SUFFICES ASSUME IInv, HeapInv, lock = 0
               PROVE  \A k \in 2..Len(entries) :
                        entries[k].weight <= entries[k \div 2].weight
    BY DEF HeapOrdered
  <2>1. \A p \in Thread : pc[p] # "dec"
    BY DEF IInv, LockOwned, UnderLock
  <2> QED
    BY <2>1 DEF HeapInv, Ordered, Heap, Edge
<1> QED
  BY <1>1, HeapInvariant, RingInvariant, PTL

(***************************************************************************)
(* queue_gettask gives up only after every task in the queue has refused   *)
(* to be locked in this scan, although refused entries sink and others     *)
(* rise past the place of the scan.                                        *)
(***************************************************************************)
THEOREM NoTaskOverlooked == Spec => []NullMeansAllTried
<1>1. HeapInv => NullMeansAllTried
  <2> SUFFICES ASSUME HeapInv, NEW p \in Thread, pc[p] = "scan", at > Len(entries),
                      NEW t \in stored
               PROVE  t \in tried
    BY DEF NullMeansAllTried
  <2>1. PICK k \in 1..Len(entries) : t = entries[k].tid
    BY DEF HeapInv, Content, Tids
  <2>2. k < at
    BY FewEntries DEF HeapInv, TypeOK
  <2> QED
    BY <2>1, <2>2 DEF HeapInv, Scanned
<1> QED
  BY <1>1, HeapInvariant, PTL
=============================================================================
