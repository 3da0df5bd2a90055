--------------------------- MODULE CellLockProofs ---------------------------
(***************************************************************************)
(* Proofs about CellLock for every tree of cells and every finite set of   *)
(* outstanding calls.  The argument:                                       *)
(*                                                                         *)
(*  - the lock word of a cell is owned by one call at a time (OwnInv);     *)
(*  - the hold of a cell counts the calls that hold it (HoldIsCount), so a *)
(*    call that reads hold = 0 while it owns the lock knows that no call   *)
(*    holds its cell; and since a hold is only put on a cell whose lock    *)
(*    one owns, none will until it unlocks (NoHoldInv);                    *)
(*  - two granted cells on one branch would contradict this: the lower one *)
(*    holds the upper one.                                                 *)
(***************************************************************************)
EXTENDS CellLock, TLAPS, FiniteSetTheorems

LooseType ==
  /\ lock \in [Cell -> {0, 1}]
  /\ hold \in [Cell -> Int]
  /\ pc \in [Locker -> PC]
  /\ target \in [Locker -> Cell]
  /\ finger \in [Locker -> Nat]
  /\ finger2 \in [Locker -> Nat]

FingerInv ==
  \A p \in Locker :
    /\ finger[p] >= 2
    /\ pc[p] \in {"test", "try", "retest"} => finger[p] = 2
    /\ pc[p] \in {"inc", "release", "undo"} => finger[p] <= Len(Path[target[p]])
    /\ pc[p] \in {"climb", "unhold"} => finger[p] <= Len(Path[target[p]]) + 1
    /\ pc[p] = "undo" => finger2[p] >= 2 /\ finger2[p] <= finger[p]
    /\ pc[p] = "idle" => finger[p] = 2

NoHoldInv ==
  \A p, q \in Locker :
    /\ p # q
    /\ pc[q] \in {"climb", "inc", "release", "undo", "locked"}
    => ~ Holds(p, target[q])

IInv == LooseType /\ FingerInv /\ LockWordOwned /\ HoldIsCount /\ NoHoldInv

-----------------------------------------------------------------------------
(* What the assumption says of the path of one cell. *)
LEMMA PathFacts ==
  ASSUME NEW c \in Cell
  PROVE  /\ Len(Path[c]) \in Nat
         /\ Len(Path[c]) >= 1
         /\ Path[c][1] = c
         /\ \A i \in 1..Len(Path[c]) : Path[c][i] \in Cell
         /\ \A i, j \in 1..Len(Path[c]) : Path[c][i] = Path[c][j] => i = j
  BY PathAssumption

(* While it has not run past the top, the finger is at a proper ancestor. *)
LEMMA FingerOnPath ==
  ASSUME LooseType, FingerInv, NEW p \in Locker,
         ~ AtTop(p) \/ pc[p] \in {"inc", "release", "undo"}
  PROVE  /\ finger[p] \in 2..Len(Path[target[p]])
         /\ FingerCell(p) \in Cell
         /\ FingerCell(p) # target[p]
<1> DEFINE c == target[p]
<1>1. c \in Cell /\ finger[p] \in Nat /\ finger[p] >= 2
  BY DEF LooseType, FingerInv
<1>2. Len(Path[c]) \in Nat /\ Len(Path[c]) >= 1
  BY <1>1, PathFacts
<1>3. finger[p] <= Len(Path[c])
  BY <1>1, <1>2 DEF FingerInv, AtTop
<1>4. finger[p] \in 1..Len(Path[c]) /\ 1 \in 1..Len(Path[c]) /\ finger[p] # 1
  BY <1>1, <1>2, <1>3
<1>5. Path[c][finger[p]] \in Cell /\ Path[c][finger[p]] # Path[c][1]
  BY <1>1, <1>4, PathFacts
<1>6. Path[c][1] = c
  BY <1>1, PathFacts
<1> QED BY <1>1, <1>2, <1>3, <1>5, <1>6 DEF FingerCell

(***************************************************************************)
(* Each call only moves its own locals, so what other calls own and hold   *)
(* stays as it is.                                                         *)
(***************************************************************************)
LEMMA OthersUnmoved ==
  ASSUME LooseType, NEW p \in Locker, NEW q \in Locker, q # p, NEW x \in Cell,
         Step(p) \/ \E c \in Cell : Call(p, c)
  PROVE  /\ pc'[q] = pc[q] /\ target'[q] = target[q]
         /\ finger'[q] = finger[q] /\ finger2'[q] = finger2[q]
         /\ Owns(q, x)' <=> Owns(q, x)
         /\ Holds(q, x)' <=> Holds(q, x)
<1>1. /\ pc'[q] = pc[q] /\ target'[q] = target[q]
      /\ finger'[q] = finger[q] /\ finger2'[q] = finger2[q]
  BY DEF LooseType, Step, Call, TestHold, TryLock, RetestHold, GiveUp, Climb,
         IncHold, ReleaseFinger, Undo, Unlock, Unhold, Goto, Return
<1>2. Owns(q, x)' <=> Owns(q, x)
  BY <1>1 DEF Owns, FingerCell
<1>3. HeldRange(q)' = HeldRange(q)
  BY <1>1 DEF HeldRange
<1>4. Holds(q, x)' <=> Holds(q, x)
  BY <1>1, <1>3 DEF Holds
<1> QED BY <1>1, <1>2, <1>4

(***************************************************************************)
(* The lock words: one action takes a free word for p, one gives back a    *)
(* word p owns, the others leave the words and their owners alone.         *)
(***************************************************************************)
TakesWord(p, y) ==
  /\ lock[y] = 0
  /\ lock' = [lock EXCEPT ![y] = 1]
  /\ \A x \in Cell : Owns(p, x)' <=> (Owns(p, x) \/ x = y)

GivesWord(p, y) ==
  /\ Owns(p, y)
  /\ lock' = [lock EXCEPT ![y] = 0]
  /\ \A x \in Cell : Owns(p, x)' <=> (Owns(p, x) /\ x # y)

KeepsWords(p) ==
  /\ lock' = lock
  /\ \A x \in Cell : Owns(p, x)' <=> Owns(p, x)

(* A step of one call changes a lock word as it changes who owns it. *)
LEMMA WordStep ==
  ASSUME LooseType, FingerInv, NEW p \in Locker,
         Step(p) \/ \E c \in Cell : Call(p, c)
  PROVE  \/ \E y \in Cell : TakesWord(p, y) \/ GivesWord(p, y)
         \/ KeepsWords(p)
<1> USE DEF LooseType
<1>0. target[p] \in Cell
  BY DEF LooseType
<1>1. CASE \E c \in Cell : Call(p, c)
  BY <1>1 DEF Call, Goto, KeepsWords, Owns, FingerCell
<1>2. CASE TestHold(p)
  BY <1>2 DEF TestHold, Goto, Return, KeepsWords, Owns, FingerCell
<1>3. CASE TryLock(p)
  <2>1. CASE lock[target[p]] = 0
    <3>1. TakesWord(p, target[p])
      BY <1>3, <2>1 DEF TryLock, Goto, Return, TakesWord, Owns, FingerCell
    <3> QED BY <3>1, <1>0
  <2>2. CASE lock[target[p]] # 0
    BY <1>3, <2>2 DEF TryLock, Goto, Return, KeepsWords, Owns, FingerCell
  <2> QED BY <2>1, <2>2
<1>4. CASE RetestHold(p)
  BY <1>4 DEF RetestHold, Goto, KeepsWords, Owns, FingerCell
<1>5. CASE GiveUp(p)
  <2>1. GivesWord(p, target[p])
    BY <1>5 DEF GiveUp, Goto, Return, GivesWord, Owns, FingerCell
  <2> QED BY <2>1, <1>0
<1>6. CASE Climb(p)
  <2>1. CASE AtTop(p) \/ lock[FingerCell(p)] = 1
    BY <1>6, <2>1 DEF Climb, Goto, KeepsWords, Owns, FingerCell
  <2>2. CASE ~ AtTop(p) /\ lock[FingerCell(p)] = 0
    <3>1. FingerCell(p) \in Cell
      BY <2>2, FingerOnPath
    <3>2. TakesWord(p, FingerCell(p))
      BY <1>6, <2>2 DEF Climb, Goto, TakesWord, Owns, FingerCell
    <3> QED BY <3>1, <3>2
  <2> QED BY <1>6, <2>1, <2>2 DEF Climb
<1>7. CASE IncHold(p)
  BY <1>7 DEF IncHold, Goto, KeepsWords, Owns, FingerCell
<1>8. CASE ReleaseFinger(p)
  <2>1. FingerCell(p) \in Cell /\ FingerCell(p) # target[p]
    BY <1>8, FingerOnPath DEF ReleaseFinger
  <2>2. GivesWord(p, FingerCell(p))
    BY <1>8, <2>1 DEF ReleaseFinger, Goto, GivesWord, Owns, FingerCell
  <2> QED BY <2>1, <2>2
<1>9. CASE Undo(p)
  BY <1>9 DEF Undo, Goto, KeepsWords, Owns, FingerCell
<1>10. CASE Unlock(p)
  <2>1. GivesWord(p, target[p])
    BY <1>10 DEF Unlock, Goto, GivesWord, Owns, FingerCell
  <2> QED BY <2>1, <1>0
<1>11. CASE Unhold(p)
  BY <1>11 DEF Unhold, Goto, Return, KeepsWords, Owns, FingerCell
<1> QED
  BY <1>1, <1>2, <1>3, <1>4, <1>5, <1>6, <1>7, <1>8, <1>9, <1>10, <1>11
     DEF Step

(***************************************************************************)
(* The holds: IncHold adds p to the holders of a cell it did not hold, on  *)
(* the strength of the lock of that cell; the two undo loops take p from   *)
(* the holders of one cell; the others leave the holds alone.              *)
(***************************************************************************)
AddsHold(p, y) ==
  /\ Owns(p, y)
  /\ ~ Holds(p, y)
  /\ hold' = [hold EXCEPT ![y] = @ + 1]
  /\ \A x \in Cell : Holds(p, x)' <=> (Holds(p, x) \/ x = y)

DropsHold(p, y) ==
  /\ Holds(p, y)
  /\ hold' = [hold EXCEPT ![y] = @ - 1]
  /\ \A x \in Cell : Holds(p, x)' <=> (Holds(p, x) /\ x # y)

KeepsHolds(p) ==
  /\ hold' = hold
  /\ \A x \in Cell : Holds(p, x)' <=> Holds(p, x)

(* atomic_inc of the finger adds exactly that cell to the cells p holds. *)
LEMMA IncHoldAdds ==
  ASSUME LooseType, FingerInv, NEW p \in Locker, IncHold(p)
  PROVE  FingerCell(p) \in Cell /\ AddsHold(p, FingerCell(p))
<1> DEFINE c == target[p]
           y == FingerCell(p)
<1>1. /\ pc[p] = "inc" /\ pc'[p] = "release"
      /\ target' = target /\ finger' = finger
      /\ hold' = [hold EXCEPT ![y] = @ + 1]
  BY DEF LooseType, IncHold, Goto
<1>2. c \in Cell /\ finger[p] \in 2..Len(Path[c]) /\ y \in Cell
  BY <1>1, FingerOnPath DEF LooseType
<1>3. Len(Path[c]) \in Nat
  BY <1>2, PathFacts
<1>4. HeldRange(p) = 2..(finger[p] - 1) /\ HeldRange(p)' = 2..finger[p]
  BY <1>1 DEF HeldRange
<1>5. \A x \in Cell : Holds(p, x)' <=> (Holds(p, x) \/ x = y)
  BY <1>1, <1>2, <1>3, <1>4 DEF Holds, FingerCell
<1>6. ASSUME NEW i \in HeldRange(p), Path[c][i] = y PROVE FALSE
  <2>1. i \in 1..Len(Path[c]) /\ finger[p] \in 1..Len(Path[c]) /\ i # finger[p]
    BY <1>2, <1>3, <1>4, <1>6
  <2> QED BY <2>1, <1>2, <1>6, PathFacts DEF FingerCell
<1>7. ~ Holds(p, y)
  BY <1>6 DEF Holds
<1>8. Owns(p, y)
  BY <1>1 DEF Owns
<1> QED BY <1>1, <1>2, <1>5, <1>7, <1>8 DEF AddsHold

(***************************************************************************)
(* What both undo loops do: the lower end of the held range moves up.      *)
(***************************************************************************)
LEMMA LowerEndDrops ==
  ASSUME LooseType, NEW p \in Locker, NEW lo \in Nat, NEW hi \in Nat,
         lo >= 1, lo <= hi, hi <= Len(Path[target[p]]),
         HeldRange(p) = lo..hi, HeldRange(p)' = (lo + 1)..hi,
         target' = target,
         hold' = [hold EXCEPT ![Path[target[p]][lo]] = @ - 1]
  PROVE  /\ Path[target[p]][lo] \in Cell
         /\ DropsHold(p, Path[target[p]][lo])
<1> DEFINE c == target[p]
           y == Path[c][lo]
<1>1. c \in Cell /\ Len(Path[c]) \in Nat
  BY PathFacts DEF LooseType
<1>2. lo \in 1..Len(Path[c]) /\ y \in Cell
  BY <1>1, PathFacts
<1>3. Holds(p, y)
  BY DEF Holds
<1>4. \A i \in (lo + 1)..hi : Path[c][i] # y
  <2>1. TAKE i \in (lo + 1)..hi
  <2>2. i \in 1..Len(Path[c]) /\ i # lo
    BY <1>1
  <2> QED BY <2>2, <1>1, <1>2, PathFacts
<1>5. \A i \in lo..hi : i = lo \/ i \in (lo + 1)..hi
  OBVIOUS
<1>6. \A i \in (lo + 1)..hi : i \in lo..hi
  OBVIOUS
<1>7. \A x \in Cell : Holds(p, x)' <=> (Holds(p, x) /\ x # y)
  BY <1>4, <1>5, <1>6 DEF Holds
<1> QED BY <1>2, <1>3, <1>7 DEF DropsHold

(* A step of one call changes a hold as it changes who holds the cell. *)
LEMMA HoldStep ==
  ASSUME LooseType, FingerInv, NEW p \in Locker,
         Step(p) \/ \E c \in Cell : Call(p, c)
  PROVE  \/ \E y \in Cell : AddsHold(p, y) \/ DropsHold(p, y)
         \/ KeepsHolds(p)
<1> DEFINE c == target[p]
<1>0. /\ c \in Cell /\ finger[p] \in Nat /\ finger2[p] \in Nat
      /\ Len(Path[c]) \in Nat
  BY PathFacts DEF LooseType
<1> DEFINE Same == HeldRange(p)' = HeldRange(p) /\ target'[p] = target[p]
           Empty == HeldRange(p)' = {} /\ HeldRange(p) = {}
<1>A. ASSUME hold' = hold, Same \/ Empty PROVE KeepsHolds(p)
  BY <1>A DEF KeepsHolds, Holds
<1>1. CASE \E d \in Cell : Call(p, d)
  <2>1. Empty /\ hold' = hold
    BY <1>1 DEF Call, Goto, HeldRange, LooseType
  <2> QED BY <2>1, <1>A
<1>2. CASE TestHold(p) \/ TryLock(p) \/ GiveUp(p)
  <2>1. Empty /\ hold' = hold
    BY <1>2 DEF TestHold, TryLock, GiveUp, Return, Goto, HeldRange, LooseType
  <2> QED BY <2>1, <1>A
<1>3. CASE RetestHold(p)
  <2>1. Empty /\ hold' = hold
    BY <1>3, <1>0 DEF RetestHold, Goto, HeldRange, LooseType, FingerInv
  <2> QED BY <2>1, <1>A
<1>4. CASE Climb(p)
  <2>1. CASE AtTop(p)
    <3>1. finger[p] = Len(Path[c]) + 1
      BY <1>0, <1>4, <2>1 DEF AtTop, Climb, FingerInv
    <3>2. Same /\ hold' = hold
      BY <1>0, <1>4, <2>1, <3>1 DEF Climb, Goto, HeldRange, LooseType
    <3> QED BY <3>2, <1>A
  <2>2. CASE ~ AtTop(p)
    <3>1. Same /\ hold' = hold
      BY <1>0, <1>4, <2>2 DEF Climb, Goto, HeldRange, LooseType
    <3> QED BY <3>1, <1>A
  <2> QED BY <2>1, <2>2
<1>5. CASE IncHold(p)
  BY <1>5, IncHoldAdds
<1>6. CASE ReleaseFinger(p)
  <2>1. Same /\ hold' = hold
    BY <1>0, <1>6 DEF ReleaseFinger, Goto, HeldRange, LooseType
  <2> QED BY <2>1, <1>A
<1>7. CASE Undo(p)
  <2>1. /\ pc[p] = "undo" /\ finger[p] <= Len(Path[c])
        /\ finger2[p] >= 2 /\ finger2[p] <= finger[p]
        /\ HeldRange(p) = finger2[p]..(finger[p] - 1)
    BY <1>7 DEF Undo, FingerInv, HeldRange
  <2>2. CASE finger2[p] = finger[p]
    <3>1. Empty /\ hold' = hold
      BY <1>0, <1>7, <2>1, <2>2 DEF Undo, Goto, HeldRange, LooseType
    <3> QED BY <3>1, <1>A
  <2>3. CASE finger2[p] # finger[p]
    <3>1. /\ HeldRange(p)' = (finger2[p] + 1)..(finger[p] - 1)
          /\ target' = target
          /\ hold' = [hold EXCEPT ![Path[target[p]][finger2[p]]] = @ - 1]
      BY <1>0, <1>7, <2>1, <2>3 DEF Undo, Goto, HeldRange, LooseType
    <3>2. /\ finger[p] - 1 \in Nat /\ finger2[p] <= finger[p] - 1
          /\ finger2[p] >= 1 /\ finger[p] - 1 <= Len(Path[c])
      BY <1>0, <2>1, <2>3
    <3> QED BY <1>0, <2>1, <3>1, <3>2, LowerEndDrops
  <2> QED BY <2>2, <2>3
<1>8. CASE Unlock(p)
  <2>1. Same /\ hold' = hold
    BY <1>0, <1>8 DEF Unlock, Goto, HeldRange, LooseType
  <2> QED BY <2>1, <1>A
<1>9. CASE Unhold(p)
  <2>1. /\ pc[p] = "unhold" /\ finger[p] >= 2
        /\ HeldRange(p) = finger[p]..Len(Path[c])
    BY <1>9 DEF Unhold, FingerInv, HeldRange
  <2>2. CASE AtTop(p)
    <3>1. Empty /\ hold' = hold
      BY <1>0, <1>9, <2>1, <2>2 DEF Unhold, AtTop, Return, Goto, HeldRange,
                                    LooseType
    <3> QED BY <3>1, <1>A
  <2>3. CASE ~ AtTop(p)
    <3>1. /\ HeldRange(p)' = (finger[p] + 1)..Len(Path[c])
          /\ target' = target
          /\ hold' = [hold EXCEPT ![Path[target[p]][finger[p]]] = @ - 1]
      BY <1>0, <1>9, <2>1, <2>3 DEF Unhold, AtTop, Goto, HeldRange, LooseType,
                                    FingerCell
    <3>2. finger[p] >= 1 /\ finger[p] <= Len(Path[c]) /\ Len(Path[c]) <= Len(Path[c])
      BY <1>0, <2>1, <2>3 DEF AtTop
    <3>3. \E y \in Cell : DropsHold(p, y)
      BY <1>0, <2>1, <3>1, <3>2, LowerEndDrops
    <3> QED BY <3>3
  <2> QED BY <2>2, <2>3
<1> QED
  BY <1>1, <1>2, <1>3, <1>4, <1>5, <1>6, <1>7, <1>8, <1>9 DEF Step

-----------------------------------------------------------------------------
(***************************************************************************)
(* Each part of the inductive invariant is preserved by a step of p.       *)
(***************************************************************************)
LEMMA LooseTypeStep ==
  ASSUME LooseType, FingerInv, NEW p \in Locker,
         Step(p) \/ \E c \in Cell : Call(p, c)
  PROVE  LooseType'
<1> USE DEF LooseType
<1>1. CASE \E c \in Cell : Call(p, c)
  BY <1>1 DEF Call, Goto, PC
<1>2. CASE TestHold(p)
  BY <1>2 DEF TestHold, Goto, Return, PC
<1>3. CASE TryLock(p)
  BY <1>3 DEF TryLock, Goto, Return, PC
<1>4. CASE RetestHold(p)
  BY <1>4 DEF RetestHold, Goto, PC
<1>5. CASE GiveUp(p)
  BY <1>5 DEF GiveUp, Goto, Return, PC
<1>6. CASE Climb(p)
  BY <1>6 DEF Climb, Goto, PC
<1>0. hold' \in [Cell -> Int]
  BY HoldStep DEF AddsHold, DropsHold, KeepsHolds
<1>7. CASE IncHold(p)
  <2>1. /\ lock' = lock /\ target' = target /\ finger' = finger
        /\ finger2' = finger2 /\ pc' = [pc EXCEPT ![p] = "release"]
    BY <1>7 DEF IncHold, Goto
  <2>2. pc' \in [Locker -> PC]
    BY <2>1 DEF PC
  <2> QED BY <1>0, <2>1, <2>2
<1>8. CASE ReleaseFinger(p)
  <2>1. /\ lock' = [lock EXCEPT ![FingerCell(p)] = 0] /\ target' = target
        /\ finger' = [finger EXCEPT ![p] = @ + 1] /\ hold' = hold
        /\ finger2' = finger2 /\ pc' = [pc EXCEPT ![p] = "climb"]
    BY <1>8 DEF ReleaseFinger, Goto
  <2>2. pc' \in [Locker -> PC] /\ finger' \in [Locker -> Nat]
    BY <2>1 DEF PC
  <2>3. lock' \in [Cell -> {0, 1}]
    BY <2>1
  <2> QED BY <2>1, <2>2, <2>3
<1>9. CASE Undo(p)
  <2>1. /\ lock' = lock /\ target' = target /\ finger' = finger
        /\ pc' = pc \/ pc' = [pc EXCEPT ![p] = "giveup"]
        /\ finger2' = finger2 \/ finger2' = [finger2 EXCEPT ![p] = @ + 1]
    BY <1>9 DEF Undo, Goto
  <2>2. pc' \in [Locker -> PC] /\ finger2' \in [Locker -> Nat]
    BY <2>1 DEF PC
  <2> QED BY <1>0, <2>1, <2>2
<1>10. CASE Unlock(p)
  BY <1>10 DEF Unlock, Goto, PC
<1>11. CASE Unhold(p)
  BY <1>11 DEF Unhold, Goto, Return, PC
<1> QED
  BY <1>1, <1>2, <1>3, <1>4, <1>5, <1>6, <1>7, <1>8, <1>9, <1>10, <1>11
     DEF Step

(* The fingers stay on the path from the target to the top. *)
LEMMA FingerInvStep ==
  ASSUME LooseType, FingerInv, NEW p \in Locker,
         Step(p) \/ \E c \in Cell : Call(p, c)
  PROVE  FingerInv'
<1> DEFINE Bounds(q) ==
      /\ finger[q] >= 2
      /\ pc[q] \in {"test", "try", "retest"} => finger[q] = 2
      /\ pc[q] \in {"inc", "release", "undo"}
           => finger[q] <= Len(Path[target[q]])
      /\ pc[q] \in {"climb", "unhold"} => finger[q] <= Len(Path[target[q]]) + 1
      /\ pc[q] = "undo" => finger2[q] >= 2 /\ finger2[q] <= finger[q]
      /\ pc[q] = "idle" => finger[q] = 2
<1>0. \A q \in Locker : Bounds(q)
  BY DEF FingerInv
<1>1. ASSUME NEW q \in Locker, q # p PROVE Bounds(q)'
  <2>1. /\ pc'[q] = pc[q] /\ target'[q] = target[q]
        /\ finger'[q] = finger[q] /\ finger2'[q] = finger2[q]
    BY <1>1 DEF LooseType, Step, Call, TestHold, TryLock, RetestHold, GiveUp,
                Climb, IncHold, ReleaseFinger, Undo, Unlock, Unhold, Goto, Return
  <2> QED BY <2>1, <1>0
<1>2. Bounds(p)'
  <2> USE <1>0 DEF LooseType
  <2>0. /\ Len(Path[target[p]]) \in Nat /\ Len(Path[target[p]]) >= 1
        /\ finger[p] \in Nat /\ finger2[p] \in Nat
    BY PathFacts
  <2>1. CASE \E c \in Cell : Call(p, c)
    BY <2>1, <2>0 DEF Call, Goto
  <2>2. CASE TestHold(p) \/ TryLock(p) \/ RetestHold(p) \/ GiveUp(p)
    BY <2>2, <2>0 DEF TestHold, TryLock, RetestHold, GiveUp, Goto, Return
  <2>3. CASE Climb(p)
    BY <2>3, <2>0 DEF Climb, AtTop, Goto
  <2>4. CASE IncHold(p) \/ ReleaseFinger(p)
    BY <2>4, <2>0 DEF IncHold, ReleaseFinger, Goto
  <2>5. CASE Undo(p)
    BY <2>5, <2>0 DEF Undo, Goto
  <2>6. CASE Unlock(p) \/ Unhold(p)
    BY <2>6, <2>0 DEF Unlock, Unhold, AtTop, Goto, Return
  <2> QED BY <2>1, <2>2, <2>3, <2>4, <2>5, <2>6 DEF Step
<1>3. \A q \in Locker : Bounds(q)'
  BY <1>1, <1>2
<1> QED BY <1>3 DEF FingerInv

(* No step takes a word that is owned or frees one it does not own. *)
LEMMA LockWordStep ==
  ASSUME LooseType, FingerInv, LockWordOwned, NEW p \in Locker,
         Step(p) \/ \E c \in Cell : Call(p, c)
  PROVE  LockWordOwned'
<1>1. \A q \in Locker : q # p =>
        \A x \in Cell : Owns(q, x)' <=> Owns(q, x)
  BY OthersUnmoved
<1>2. \A x \in Cell : lock[x] \in {0, 1}
  BY DEF LooseType
<1>3. CASE \E y \in Cell : TakesWord(p, y)
  <2>1. PICK y \in Cell : TakesWord(p, y)
    BY <1>3
  <2>2. \A q \in Locker : ~ Owns(q, y)
    BY <2>1 DEF TakesWord, LockWordOwned
  <2>3. \A x \in Cell : lock'[x] = IF x = y THEN 1 ELSE lock[x]
    BY <2>1 DEF TakesWord, LooseType
  <2>4. \A x \in Cell : Owns(p, x)' <=> (Owns(p, x) \/ x = y)
    BY <2>1 DEF TakesWord
  <2> QED BY <1>1, <2>2, <2>3, <2>4 DEF LockWordOwned
<1>4. CASE \E y \in Cell : GivesWord(p, y)
  <2>1. PICK y \in Cell : GivesWord(p, y)
    BY <1>4
  <2>2. \A q \in Locker : Owns(q, y) => q = p
    BY <2>1 DEF GivesWord, LockWordOwned
  <2>3. \A x \in Cell : lock'[x] = IF x = y THEN 0 ELSE lock[x]
    BY <2>1 DEF GivesWord, LooseType
  <2>4. \A x \in Cell : Owns(p, x)' <=> (Owns(p, x) /\ x # y)
    BY <2>1 DEF GivesWord
  <2> QED BY <1>1, <2>2, <2>3, <2>4 DEF LockWordOwned
<1>5. CASE KeepsWords(p)
  BY <1>1, <1>5 DEF KeepsWords, LockWordOwned
<1> QED BY <1>3, <1>4, <1>5, WordStep

(* Each hold stays the number of the calls that hold the cell. *)
LEMMA HoldCountStep ==
  ASSUME LooseType, FingerInv, HoldIsCount, NEW p \in Locker,
         Step(p) \/ \E c \in Cell : Call(p, c)
  PROVE  HoldIsCount'
<1> DEFINE Holders(x) == {q \in Locker : Holds(q, x)}
<1>1. \A q \in Locker : q # p =>
        \A x \in Cell : Holds(q, x)' <=> Holds(q, x)
  BY OthersUnmoved
<1>2. \A x \in Cell : hold[x] = Cardinality(Holders(x)) /\ hold[x] \in Int
  BY DEF HoldIsCount, LooseType
<1>3. SUFFICES \A x \in Cell : hold'[x] = Cardinality(Holders(x)')
  BY DEF HoldIsCount
<1>4. \A x \in Cell : IsFiniteSet(Holders(x))
  BY LockerAssumption, FS_Subset
<1>5. CASE \E y \in Cell : AddsHold(p, y)
  <2>1. PICK y \in Cell : AddsHold(p, y)
    BY <1>5
  <2>2. hold'[y] = hold[y] + 1 /\ \A x \in Cell : x # y => hold'[x] = hold[x]
    BY <2>1 DEF AddsHold, LooseType
  <2>3. \A x \in Cell : x # y => Holders(x)' = Holders(x)
    BY <1>1, <2>1 DEF AddsHold
  <2>4. Holders(y)' = Holders(y) \cup {p} /\ p \notin Holders(y)
    BY <1>1, <2>1 DEF AddsHold
  <2>5. Cardinality(Holders(y)') = Cardinality(Holders(y)) + 1
    BY <1>4, <2>4, FS_AddElement
  <2> QED BY <1>2, <2>2, <2>3, <2>5
<1>6. CASE \E y \in Cell : DropsHold(p, y)
  <2>1. PICK y \in Cell : DropsHold(p, y)
    BY <1>6
  <2>2. hold'[y] = hold[y] - 1 /\ \A x \in Cell : x # y => hold'[x] = hold[x]
    BY <2>1 DEF DropsHold, LooseType
  <2>3. \A x \in Cell : x # y => Holders(x)' = Holders(x)
    BY <1>1, <2>1 DEF DropsHold
  <2>4. Holders(y)' = Holders(y) \ {p} /\ p \in Holders(y)
    BY <1>1, <2>1 DEF DropsHold
  <2>5. Cardinality(Holders(y)') = Cardinality(Holders(y)) - 1
    BY <1>4, <2>4, FS_RemoveElement
  <2> QED BY <1>2, <2>2, <2>3, <2>5
<1>7. CASE KeepsHolds(p)
  <2>1. \A x \in Cell : Holders(x)' = Holders(x)
    BY <1>1, <1>7 DEF KeepsHolds
  <2> QED BY <1>2, <1>7, <2>1 DEF KeepsHolds
<1> QED BY <1>5, <1>6, <1>7, HoldStep

(***************************************************************************)
(* A call past its second look at hold: it read 0 there, so no other call  *)
(* held its cell; a new holder would have to own the cell's lock.          *)
(***************************************************************************)
LEMMA NoHoldStep ==
  ASSUME IInv, NEW r \in Locker, Step(r) \/ \E c \in Cell : Call(r, c)
  PROVE  NoHoldInv'
<1> DEFINE Past == {"climb", "inc", "release", "undo", "locked"}
<1>0. LooseType /\ FingerInv /\ LockWordOwned /\ HoldIsCount /\ NoHoldInv
  BY DEF IInv
<1> SUFFICES ASSUME NEW p \in Locker, NEW q \in Locker, p # q, pc'[q] \in Past,
                    Holds(p, target[q])'
             PROVE  FALSE
  BY DEF NoHoldInv
<1>1. target'[q] \in Cell /\ target[q] \in Cell
  BY <1>0, LooseTypeStep DEF LooseType
<1>2. CASE r # p /\ r # q
  <2>1. pc'[q] = pc[q] /\ target'[q] = target[q]
    BY <1>0, <1>1, <1>2, OthersUnmoved
  <2>2. Holds(p, target[q])' <=> Holds(p, target[q])
    BY <1>0, <1>1, <1>2, <2>1, OthersUnmoved
  <2> QED BY <1>0, <2>1, <2>2 DEF NoHoldInv
<1>3. CASE r = p
  <2>1. pc'[q] = pc[q] /\ target'[q] = target[q]
    BY <1>0, <1>1, <1>3, OthersUnmoved
  <2>2. Owns(q, target[q]) /\ ~ Holds(p, target[q])
    BY <1>0, <2>1 DEF Owns, NoHoldInv
  <2>3. PICK y \in Cell : AddsHold(p, y)
    BY <1>0, <1>1, <1>3, <2>1, <2>2, HoldStep DEF DropsHold, KeepsHolds
  <2>4. y = target[q] /\ Owns(p, y)
    BY <1>1, <2>1, <2>2, <2>3 DEF AddsHold
  <2> QED BY <1>0, <2>2, <2>4 DEF LockWordOwned
<1>4. CASE r = q
  <2>1. target'[q] = target[q] /\ (pc[q] \in Past \/ RetestHold(q))
    BY <1>0, <1>4 DEF LooseType, Step, Call, TestHold, TryLock, RetestHold,
         GiveUp, Climb, IncHold, ReleaseFinger, Undo, Unlock, Unhold, Goto, Return
  <2>2. Holds(p, target[q])' <=> Holds(p, target[q])
    BY <1>0, <1>1, <1>4, <2>1, OthersUnmoved
  <2>3. CASE pc[q] \in Past
    BY <1>0, <2>1, <2>2, <2>3 DEF NoHoldInv
  <2>4. CASE RetestHold(q)
    <3>1. hold[target[q]] = 0
      BY <1>0, <2>4 DEF RetestHold, Goto, LooseType
    <3>2. Cardinality({s \in Locker : Holds(s, target[q])}) = 0
      BY <1>0, <1>1, <3>1 DEF HoldIsCount
    <3>3. {s \in Locker : Holds(s, target[q])} = {}
      BY <3>2, LockerAssumption, FS_Subset, FS_EmptySet
    <3> QED BY <2>1, <2>2, <3>3
  <2> QED BY <2>1, <2>3, <2>4
<1> QED BY <1>2, <1>3, <1>4

-----------------------------------------------------------------------------
(* All cells are free and no call is under way. *)
LEMMA InitIInv == Init => IInv
<1> SUFFICES ASSUME Init PROVE IInv
  OBVIOUS
<1>1. LooseType
  BY DEF Init, LooseType, PC
<1>2. FingerInv
  BY DEF Init, FingerInv
<1>3. \A p \in Locker, x \in Cell : ~ Owns(p, x) /\ ~ Holds(p, x)
  BY DEF Init, Owns, Holds, HeldRange
<1>4. LockWordOwned
  BY <1>3 DEF Init, LockWordOwned
<1>5. HoldIsCount
  <2>1. \A x \in Cell : {p \in Locker : Holds(p, x)} = {}
    BY <1>3
  <2> QED BY <2>1, FS_EmptySet DEF Init, HoldIsCount
<1>6. NoHoldInv
  BY <1>1, <1>3 DEF NoHoldInv, LooseType
<1> QED BY <1>1, <1>2, <1>4, <1>5, <1>6 DEF IInv

(* Every step of every call preserves the invariant. *)
LEMMA NextIInv == IInv /\ [Next]_vars => IInv'
<1> SUFFICES ASSUME IInv, [Next]_vars PROVE IInv'
  OBVIOUS
<1>1. CASE UNCHANGED vars
  <2>1. /\ lock' = lock /\ hold' = hold /\ pc' = pc /\ target' = target
        /\ finger' = finger /\ finger2' = finger2
    BY <1>1 DEF vars
  <2>2. LooseType' /\ FingerInv'
    BY <2>1 DEF IInv, LooseType, FingerInv
  <2>3. \A q \in Locker : HeldRange(q)' = HeldRange(q)
    BY <2>1 DEF HeldRange
  <2>4. \A q \in Locker, x \in Cell :
          (Owns(q, x)' <=> Owns(q, x)) /\ (Holds(q, x)' <=> Holds(q, x))
    BY <2>1, <2>3 DEF Owns, Holds, FingerCell
  <2>5. LockWordOwned'
    BY <2>1, <2>4 DEF IInv, LockWordOwned
  <2>6. HoldIsCount'
    <3>1. \A x \in Cell :
            {q \in Locker : Holds(q, x)}' = {q \in Locker : Holds(q, x)}
      BY <2>4
    <3> QED BY <2>1, <3>1 DEF IInv, HoldIsCount
  <2>7. NoHoldInv'
    BY <2>1, <2>4 DEF IInv, NoHoldInv, LooseType
  <2> QED BY <2>2, <2>5, <2>6, <2>7 DEF IInv
<1>2. CASE Next
  <2>1. PICK p \in Locker : Step(p) \/ \E c \in Cell : Call(p, c)
    BY <1>2 DEF Next
  <2>2. LooseType' /\ FingerInv'
    BY <2>1, LooseTypeStep, FingerInvStep DEF IInv
  <2>3. LockWordOwned'
    BY <2>1, LockWordStep DEF IInv
  <2>4. HoldIsCount'
    BY <2>1, HoldCountStep DEF IInv
  <2>5. NoHoldInv'
    BY <2>1, NoHoldStep
  <2> QED BY <2>2, <2>3, <2>4, <2>5 DEF IInv
<1> QED BY <1>1, <1>2

(***************************************************************************)
(* The inductive invariant holds in every state of every run of the calls  *)
(* of cell_lock.c.                                                         *)
(***************************************************************************)
THEOREM Inductive == Spec => []IInv
  BY InitIInv, NextIInv, PTL DEF Spec

(***************************************************************************)
(* Type correctness; in particular no hold counter is ever negative.       *)
(***************************************************************************)
THEOREM TypeCorrect == Spec => []TypeOK
<1>1. IInv => TypeOK
  <2> SUFFICES ASSUME IInv PROVE TypeOK
    OBVIOUS
  <2>1. \A x \in Cell : hold[x] \in Nat
    <3>1. TAKE x \in Cell
    <3>2. IsFiniteSet({p \in Locker : Holds(p, x)})
      BY LockerAssumption, FS_Subset
    <3> QED BY <3>2, FS_CardinalityType DEF IInv, HoldIsCount
  <2> QED BY <2>1 DEF IInv, LooseType, TypeOK
<1> QED BY <1>1, Inductive, PTL

(***************************************************************************)
(* No lock word is released by a call that does not own it, and none is    *)
(* leaked.                                                                 *)
(***************************************************************************)
THEOREM LockWords == Spec => []LockWordOwned
<1>1. IInv => LockWordOwned
  BY DEF IInv
<1> QED BY <1>1, Inductive, PTL

(***************************************************************************)
(* The hold counters never leak or lose a holder.                          *)
(***************************************************************************)
THEOREM HoldCounts == Spec => []HoldIsCount
<1>1. IInv => HoldIsCount
  BY DEF IInv
<1> QED BY <1>1, Inductive, PTL

(***************************************************************************)
(* Two granted calls never share a branch of the tree.                     *)
(***************************************************************************)
LEMMA LockedApart ==
  ASSUME IInv, NEW p \in Locker, NEW q \in Locker, p # q,
         pc[p] = "locked" \/ (pc[p] = "climb" /\ AtTop(p)),
         pc[q] \in {"climb", "locked"},
         NEW i \in 1..Len(Path[target[p]]), Path[target[p]][i] = target[q]
  PROVE  FALSE
<1>1. target[p] \in Cell /\ target[q] \in Cell /\ finger[p] \in Nat
  BY DEF IInv, LooseType
<1>2. Len(Path[target[p]]) \in Nat /\ Path[target[p]][1] = target[p]
  BY <1>1, PathFacts
<1>3. CASE i = 1
  <2>1. Owns(p, target[q]) /\ Owns(q, target[q])
    BY <1>2, <1>3 DEF Owns
  <2> QED BY <1>1, <2>1 DEF IInv, LockWordOwned
<1>4. CASE i # 1
  <2>1. i \in HeldRange(p)
    BY <1>1, <1>2, <1>4 DEF HeldRange, AtTop
  <2>2. Holds(p, target[q])
    BY <2>1 DEF Holds
  <2> QED BY <2>2 DEF IInv, NoHoldInv
<1> QED BY <1>3, <1>4

(***************************************************************************)
(* The exclusion the tasks rely on: a granted cell has no granted cell     *)
(* above it, below it or equal to it.                                      *)
(***************************************************************************)
THEOREM Exclusion == Spec => []TreeExclusion
<1>1. IInv => TreeExclusion
  BY LockedApart DEF TreeExclusion
<1> QED BY <1>1, Inductive, PTL

(***************************************************************************)
(* cell_lock.c implements the abstract branch lock of TreeLock.            *)
(***************************************************************************)
THEOREM Refinement == Spec => ImplementsTreeLock
<1>1. Init => TL!Init
  BY DEF Init, TL!Init, Granted
<1>2. IInv /\ [Next]_vars => [TL!Next]_Granted
  <2> SUFFICES ASSUME IInv, [Next]_vars, Granted' # Granted PROVE TL!Next
    OBVIOUS
  <2>1. CASE UNCHANGED vars
    BY <2>1 DEF vars, Granted
  <2>2. CASE Next
    <3>1. PICK p \in Locker : Step(p) \/ \E c \in Cell : Call(p, c)
      BY <2>2 DEF Next
    <3>2. LooseType
      BY DEF IInv
    <3>3. \A q \in Locker : q # p => pc'[q] = pc[q] /\ target'[q] = target[q]
      BY <3>1, <3>2 DEF LooseType, Step, Call, TestHold, TryLock, RetestHold,
         GiveUp, Climb, IncHold, ReleaseFinger, Undo, Unlock, Unhold, Goto, Return
    <3>4. CASE Climb(p) /\ AtTop(p)
      <4>1. /\ pc[p] = "climb" /\ pc'[p] = "locked" /\ target' = target
            /\ target[p] \in Cell
        BY <3>2, <3>4 DEF Climb, Goto, LooseType
      <4>2. Granted' = [Granted EXCEPT ![p] = target[p]]
        BY <3>3, <4>1 DEF Granted
      <4>3. \A q \in Locker \ {p} : Granted[q] # NoCell =>
              ~ TL!Related(target[p], Granted[q])
        <5> SUFFICES ASSUME NEW q \in Locker, q # p, Granted[q] # NoCell
                     PROVE  ~ TL!Related(target[p], Granted[q])
          OBVIOUS
        <5>1. pc[q] = "locked" /\ Granted[q] = target[q]
          BY DEF Granted
        <5>2. ~ TL!OnPath(target[p], target[q])
          BY <3>4, <4>1, <5>1, LockedApart DEF TL!OnPath
        <5>3. ~ TL!OnPath(target[q], target[p])
          BY <3>4, <4>1, <5>1, LockedApart DEF TL!OnPath
        <5> QED BY <5>1, <5>2, <5>3 DEF TL!Related
      <4>4. Granted[p] = NoCell
        BY <4>1 DEF Granted
      <4> QED BY <4>1, <4>2, <4>3, <4>4 DEF TL!Next, TL!Grant
    <3>5. CASE Unlock(p)
      <4>1. pc[p] = "locked" /\ pc'[p] = "unhold" /\ target[p] \in Cell
        BY <3>2, <3>5 DEF Unlock, Goto, LooseType
      <4>2. Granted' = [Granted EXCEPT ![p] = NoCell]
        BY <3>3, <4>1 DEF Granted
      <4>3. Granted[p] # NoCell
        BY <4>1, NoCellAssumption DEF Granted
      <4> QED BY <4>2, <4>3 DEF TL!Next, TL!Release
    <3>6. CASE ~ (Climb(p) /\ AtTop(p)) /\ ~ Unlock(p)
      <4>1. pc[p] # "locked" /\ pc'[p] # "locked"
        BY <3>1, <3>2, <3>6 DEF LooseType, Step, Call, TestHold, TryLock,
           RetestHold, GiveUp, Climb, IncHold, ReleaseFinger, Undo, Unlock,
           Unhold, Goto, Return
      <4> QED BY <3>3, <4>1 DEF Granted
    <3> QED BY <3>4, <3>5, <3>6
  <2> QED BY <2>1, <2>2
<1> QED BY <1>1, <1>2, Inductive, PTL DEF Spec, ImplementsTreeLock, TL!Spec
=============================================================================
