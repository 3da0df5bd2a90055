------------------------------ MODULE CellLock ------------------------------
(***************************************************************************)
(* The hierarchical spin locks of cell_lock.c.  Each cell carries, for     *)
(* each of six kinds of data (parts, gparts, multipole, sparts, sinks,     *)
(* bparts), a lock and a counter "hold" of the locked cells below it.      *)
(* cell_locktree takes the lock of one cell and puts a hold on every       *)
(* ancestor; cell_unlocktree undoes it.  The six pairs of functions are    *)
(* copies of each other on disjoint fields, so one kind is modelled.       *)
(*                                                                         *)
(* A Locker is one outstanding call: a thread that locks two cells for a   *)
(* pair task is two lockers.  Every read of "hold", every compare-and-swap *)
(* on a lock and every atomic increment is a step of its own.              *)
(***************************************************************************)
EXTENDS Integers, Sequences, FiniteSets

CONSTANTS
  Cell,      \* the cells of the tree
  Path,      \* Path[c] is <<c, c->parent, ..., top-level cell>>
  Locker,    \* the calls of cell_locktree that may be outstanding
  NoCell

ASSUME PathAssumption ==
  /\ Path \in [Cell -> Seq(Cell)]
  /\ \A c \in Cell :
       /\ Len(Path[c]) >= 1
       /\ Path[c][1] = c
       /\ \A i, j \in 1..Len(Path[c]) : Path[c][i] = Path[c][j] => i = j

ASSUME LockerAssumption == IsFiniteSet(Locker)

ASSUME NoCellAssumption == NoCell \notin Cell

VARIABLES
  lock,      \* lock[c]: c->hydro.lock
  hold,      \* hold[c]: c->hydro.hold
  pc,        \* where each call is
  target,    \* the argument c of the call
  finger,    \* position of "finger" on Path[target]; past its end is NULL
  finger2    \* position of the undo loop's "finger2"

vars == <<lock, hold, pc, target, finger, finger2>>

(***************************************************************************)
(* The control points.  "idle" is outside, "locked" is between a           *)
(* successful cell_locktree and its cell_unlocktree.                       *)
(***************************************************************************)
PC == {"idle", "test", "try", "retest", "giveup", "climb", "inc", "release",
       "undo", "locked", "unhold"}

TypeOK ==
  /\ lock \in [Cell -> {0, 1}]
  /\ hold \in [Cell -> Nat]
  /\ pc \in [Locker -> PC]
  /\ target \in [Locker -> Cell]
  /\ finger \in [Locker -> Nat]
  /\ finger2 \in [Locker -> Nat]

Init ==
  /\ lock = [c \in Cell |-> 0]
  /\ hold = [c \in Cell |-> 0]
  /\ pc = [p \in Locker |-> "idle"]
  /\ target \in [Locker -> Cell]
  /\ finger = [p \in Locker |-> 2]
  /\ finger2 = [p \in Locker |-> 2]

Goto(p, label) == pc' = [pc EXCEPT ![p] = label]

(* Leave the function: its locals are gone. *)
Return(p) ==
  /\ Goto(p, "idle")
  /\ finger' = [finger EXCEPT ![p] = 2]
  /\ finger2' = [finger2 EXCEPT ![p] = 2]

FingerCell(p) == Path[target[p]][finger[p]]

AtTop(p) == finger[p] > Len(Path[target[p]])

-----------------------------------------------------------------------------
(***************************************************************************)
(* cell_locktree                                                           *)
(***************************************************************************)
Call(p, c) ==
  /\ pc[p] = "idle"
  /\ target' = [target EXCEPT ![p] = c]
  /\ Goto(p, "test")
  /\ UNCHANGED <<lock, hold, finger, finger2>>

(* if (c->hydro.hold || ...) return 1; *)
TestHold(p) ==
  /\ pc[p] = "test"
  /\ \/ hold[target[p]] # 0 /\ Return(p)
     \/ hold[target[p]] = 0 /\ Goto(p, "try") /\ UNCHANGED <<finger, finger2>>
  /\ UNCHANGED <<lock, hold, target>>

(* ... lock_trylock(&c->hydro.lock) != 0 *)
TryLock(p) ==
  /\ pc[p] = "try"
  /\ \/ /\ lock[target[p]] = 0
        /\ lock' = [lock EXCEPT ![target[p]] = 1]
        /\ Goto(p, "retest")
        /\ UNCHANGED <<finger, finger2>>
     \/ /\ lock[target[p]] = 1
        /\ Return(p)
        /\ UNCHANGED lock
  /\ UNCHANGED <<hold, target>>

(* Mutant: the second look at hold is missing. *)
RetestHoldSkipped(p) ==
  /\ pc[p] = "retest"
  /\ Goto(p, "climb")
  /\ UNCHANGED <<lock, hold, target, finger, finger2>>

(* Did somebody hold this cell in the meantime? *)
RetestHold(p) ==
  /\ pc[p] = "retest"
  /\ Goto(p, IF hold[target[p]] # 0 THEN "giveup" ELSE "climb")
  /\ UNCHANGED <<lock, hold, target, finger, finger2>>

(* Mutant: a refused call leaves its lock behind. *)
GiveUpLocked(p) ==
  /\ pc[p] = "giveup"
  /\ Return(p)
  /\ UNCHANGED <<lock, hold, target>>

(* lock_unlock(&c->hydro.lock); admit defeat *)
GiveUp(p) ==
  /\ pc[p] = "giveup"
  /\ lock' = [lock EXCEPT ![target[p]] = 0]
  /\ Return(p)
  /\ UNCHANGED <<hold, target>>

(* Mutant: the ancestor is held without its lock being taken. *)
ClimbUnlocked(p) ==
  /\ pc[p] = "climb"
  /\ IF AtTop(p) THEN Goto(p, "locked") ELSE Goto(p, "inc")
  /\ UNCHANGED <<lock, hold, target, finger, finger2>>

(* The head of the climbing loop: the end of it, or lock_trylock(finger). *)
Climb(p) ==
  /\ pc[p] = "climb"
  /\ \/ /\ AtTop(p)
        /\ Goto(p, "locked")
        /\ UNCHANGED <<lock, finger2>>
     \/ /\ ~ AtTop(p)
        /\ lock[FingerCell(p)] = 0
        /\ lock' = [lock EXCEPT ![FingerCell(p)] = 1]
        /\ Goto(p, "inc")
        /\ UNCHANGED finger2
     \/ /\ ~ AtTop(p)
        /\ lock[FingerCell(p)] = 1
        /\ finger2' = [finger2 EXCEPT ![p] = 2]
        /\ Goto(p, "undo")
        /\ UNCHANGED lock
  /\ UNCHANGED <<hold, target, finger>>

IncHold(p) ==
  /\ pc[p] = "inc"
  /\ hold' = [hold EXCEPT ![FingerCell(p)] = @ + 1]
  /\ Goto(p, "release")
  /\ UNCHANGED <<lock, target, finger, finger2>>

(* lock_unlock(&finger->hydro.lock); finger = finger->parent *)
ReleaseFinger(p) ==
  /\ pc[p] = "release"
  /\ lock' = [lock EXCEPT ![FingerCell(p)] = 0]
  /\ finger' = [finger EXCEPT ![p] = @ + 1]
  /\ Goto(p, "climb")
  /\ UNCHANGED <<hold, target, finger2>>

(* Mutant: the undo loop takes the hold of the cell it stopped at, too. *)
UndoOneTooMany(p) ==
  /\ pc[p] = "undo"
  /\ \/ /\ finger2[p] <= finger[p]
        /\ hold' = [hold EXCEPT ![Path[target[p]][finger2[p]]] = @ - 1]
        /\ finger2' = [finger2 EXCEPT ![p] = @ + 1]
        /\ UNCHANGED pc
     \/ /\ finger2[p] > finger[p]
        /\ Goto(p, "giveup")
        /\ UNCHANGED <<hold, finger2>>
  /\ UNCHANGED <<lock, target, finger>>

(* Mutant: the holds are left in place when the climb fails. *)
UndoNothing(p) ==
  /\ pc[p] = "undo"
  /\ Goto(p, "giveup")
  /\ UNCHANGED <<lock, hold, target, finger, finger2>>

(* Undo the holds up to finger. *)
Undo(p) ==
  /\ pc[p] = "undo"
  /\ \/ /\ finger2[p] # finger[p]
        /\ hold' = [hold EXCEPT ![Path[target[p]][finger2[p]]] = @ - 1]
        /\ finger2' = [finger2 EXCEPT ![p] = @ + 1]
        /\ UNCHANGED pc
     \/ /\ finger2[p] = finger[p]
        /\ Goto(p, "giveup")
        /\ UNCHANGED <<hold, finger2>>
  /\ UNCHANGED <<lock, target, finger>>

-----------------------------------------------------------------------------
(***************************************************************************)
(* cell_unlocktree                                                         *)
(***************************************************************************)
Unlock(p) ==
  /\ pc[p] = "locked"
  /\ lock' = [lock EXCEPT ![target[p]] = 0]
  /\ finger' = [finger EXCEPT ![p] = 2]
  /\ Goto(p, "unhold")
  /\ UNCHANGED <<hold, target, finger2>>

(* Climb up the tree and unhold the parents. *)
Unhold(p) ==
  /\ pc[p] = "unhold"
  /\ \/ /\ ~ AtTop(p)
        /\ hold' = [hold EXCEPT ![FingerCell(p)] = @ - 1]
        /\ finger' = [finger EXCEPT ![p] = @ + 1]
        /\ UNCHANGED <<pc, finger2>>
     \/ /\ AtTop(p)
        /\ Return(p)
        /\ UNCHANGED hold
  /\ UNCHANGED <<lock, target>>

-----------------------------------------------------------------------------
(* The same for every kind of data: cell_glocktree, cell_mlocktree, ... *)
Step(p) ==
  \/ TestHold(p) \/ TryLock(p) \/ RetestHold(p) \/ GiveUp(p)
  \/ Climb(p) \/ IncHold(p) \/ ReleaseFinger(p) \/ Undo(p)
  \/ Unlock(p) \/ Unhold(p)

Next == \E p \in Locker : Step(p) \/ \E c \in Cell : Call(p, c)

Spec == Init /\ [][Next]_vars

(***************************************************************************)
(* The runner threads are scheduled by the operating system, keep polling  *)
(* their queues and finish the tasks they run.                             *)
(***************************************************************************)
Fairness ==
  \A p \in Locker : WF_vars(Step(p)) /\ WF_vars(\E c \in Cell : Call(p, c))

FairSpec == Spec /\ Fairness

-----------------------------------------------------------------------------
(***************************************************************************)
(* The lock words p owns, and the cells whose hold counts p: read off the  *)
(* control state, these are what the two counters in each cell stand for.  *)
(***************************************************************************)
Owns(p, x) ==
  \/ /\ pc[p] \in {"retest", "giveup", "climb", "inc", "release", "undo",
                   "locked"}
     /\ x = target[p]
  \/ /\ pc[p] \in {"inc", "release"}
     /\ x = FingerCell(p)

HeldRange(p) ==
  CASE pc[p] \in {"climb", "inc"} -> 2..(finger[p] - 1)
    [] pc[p] = "release" -> 2..finger[p]
    [] pc[p] = "undo" -> finger2[p]..(finger[p] - 1)
    [] pc[p] = "locked" -> 2..Len(Path[target[p]])
    [] pc[p] = "unhold" -> finger[p]..Len(Path[target[p]])
    [] OTHER -> {}

Holds(p, x) == \E i \in HeldRange(p) : Path[target[p]][i] = x

(***************************************************************************)
(* The guarantee: while a call is between its cell_locktree and its        *)
(* cell_unlocktree, no other call has locked the same cell, a cell above   *)
(* it or a cell below it (the tasks on them would race on particles).      *)
(***************************************************************************)
TreeExclusion ==
  \A p, q \in Locker :
    p # q /\ pc[p] = "locked" /\ pc[q] = "locked" =>
      ~ \E i \in 1..Len(Path[target[p]]) : Path[target[p]][i] = target[q]

(***************************************************************************)
(* The lock word of a cell is 1 exactly when one call owns it, so no       *)
(* lock_unlock of cell_lock.c ever finds the word already 0, the           *)
(* "Failed to unlock cell." error.                                         *)
(***************************************************************************)
LockWordOwned ==
  \A x \in Cell :
    /\ lock[x] = 1 <=> \E p \in Locker : Owns(p, x)
    /\ \A p, q \in Locker : Owns(p, x) /\ Owns(q, x) => p = q

(***************************************************************************)
(* The hold of a cell counts exactly the calls that went through it and    *)
(* have not taken their increment back, on the success path, on the undo   *)
(* path and while unlocking: no hold is leaked and none is taken twice.    *)
(***************************************************************************)
HoldIsCount ==
  \A x \in Cell : hold[x] = Cardinality({p \in Locker : Holds(p, x)})

(***************************************************************************)
(* Calls that refuse each other do not do so for ever: whatever cells are  *)
(* asked for, some call is granted again and again.                        *)
(***************************************************************************)
SomeCallGranted == []<>(\E p \in Locker : pc[p] = "locked")

(***************************************************************************)
(* The calls of cell_lock.c implement the abstract branch lock.            *)
(***************************************************************************)
Granted == [p \in Locker |-> IF pc[p] = "locked" THEN target[p] ELSE NoCell]

TL == INSTANCE TreeLock WITH granted <- Granted

ImplementsTreeLock == TL!Spec
=============================================================================
