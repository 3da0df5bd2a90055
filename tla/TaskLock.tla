----------------------------- MODULE TaskLock -----------------------------
(***************************************************************************)
(* task_lock and task_unlock (task.c): the sequence of tree locks each     *)
(* type of task needs, taken one by one and given back when one of them    *)
(* is refused, and the sequence that is released when the task has run.    *)
(* The two functions are two switches over the same types and subtypes,    *)
(* written out in full, and so are the locks that task_lock gives back at  *)
(* each refusal; each of the three is a table here.                        *)
(*                                                                         *)
(* The tree locks are those of CellLock, at the level of TreeLock: a lock  *)
(* is granted only if no cell of the branch is locked for the same kind of *)
(* data, and may be refused at any time (by the tests of "hold" at the     *)
(* head of each case, or because of a call on another cell in progress).   *)
(***************************************************************************)
EXTENDS Naturals, Sequences, FiniteSets

CONSTANTS
  Cell,
  Path,              \* Path[c] is <<c, c->parent, ..., top-level cell>>
  Thread,
  Job,               \* the tasks: records of a type, a subtype and two cells
  NoJob

ASSUME CellAssumption ==
  /\ Path \in [Cell -> Seq(Cell)]
  /\ \A c \in Cell : Len(Path[c]) >= 1 /\ Path[c][1] = c

(* The subtypes of self and pair tasks, and the types without one. *)
PairSubtype ==
  {"grav", "sink_gas", "sink_sink", "stars", "bh_gas", "bh_bh", "limiter", "hydro"}

SelfSubtype == PairSubtype \cup {"external_grav"}

TypeOnly ==
  {"kick", "drift_part", "stars_sort", "drift_gpart", "drift_sink",
   "grav_down", "grav_long_range", "grav_mm", "fof_self", "fof_pair",
   "star_formation", "star_formation_sink", "sink_formation", "other"}

ASSUME JobAssumption ==
  /\ NoJob \notin Job
  /\ \A t \in Job :
       /\ t.ci \in Cell /\ t.cj \in Cell
       /\ \/ t.type = "self" /\ t.subtype \in SelfSubtype
          \/ t.type = "pair" /\ t.subtype \in PairSubtype
          \/ t.type \in TypeOnly

VARIABLES
  granted,    \* granted[p]: the locks of thread p, pairs of a kind and a cell
  pc,
  job,        \* the task thread p locks, runs or unlocks
  at,         \* the next position in the sequence of locks or releases
  without_atomics   \* the build defines SWIFT_TASKS_WITHOUT_ATOMICS

vars == <<granted, pc, job, at, without_atomics>>

(* The kinds of data a cell has a lock for. *)
Kind == {"part", "gpart", "mpole", "spart", "sink", "bpart"}

(***************************************************************************)
(* The sequence of kinds each type of task locks, and the one it unlocks.  *)
(* Types and subtypes the code treats alike have one name.  Tasks on two   *)
(* cells take each kind in both of them, first in ci and then in cj.       *)
(***************************************************************************)
IfNoAtomics(s) == IF without_atomics THEN s ELSE <<>>

LockFirst ==
  [kick        |-> <<"part", "gpart">>,
   drift_part  |-> <<"part">>,
   stars_sort  |-> <<"spart">>,
   drift_gpart |-> <<"gpart">>,
   drift_sink  |-> <<"sink">>]

LockSelf ==
  [grav          |-> IfNoAtomics(<<"gpart", "mpole">>),
   sink_gas      |-> <<"sink", "part">>,
   sink_sink     |-> <<"sink">>,
   stars         |-> <<"spart", "part">>,
   bh_gas        |-> <<"bpart", "part">>,
   bh_bh         |-> <<"bpart">>,
   limiter       |-> IfNoAtomics(<<"part">>),
   external_grav |-> <<"part">>,
   hydro         |-> <<"part">>]

LockPair ==
  [grav      |-> IfNoAtomics(<<"gpart", "mpole">>),
   sink_gas  |-> <<"sink", "part">>,
   sink_sink |-> <<"sink">>,
   stars     |-> <<"spart", "part">>,
   bh_gas    |-> <<"bpart", "part">>,
   bh_bh     |-> <<"bpart">>,
   limiter   |-> IfNoAtomics(<<"part">>),
   hydro     |-> <<"part">>]

LockLast ==
  [grav_down           |-> IfNoAtomics(<<"gpart", "mpole">>),
   grav_long_range     |-> IfNoAtomics(<<"mpole">>),
   grav_mm             |-> IfNoAtomics(<<"mpole">>),
   fof_self            |-> <<"gpart">>,
   fof_pair            |-> <<"gpart">>,
   star_formation      |-> <<"part", "spart", "gpart">>,
   star_formation_sink |-> <<"sink", "spart", "gpart">>,
   sink_formation      |-> <<"part", "sink", "gpart">>,
   other               |-> <<>>]

UnlockFirst ==
  [kick        |-> <<"part", "gpart">>,
   drift_part  |-> <<"part">>,
   drift_gpart |-> <<"gpart">>,
   drift_sink  |-> <<"sink">>,
   stars_sort  |-> <<"spart">>]

UnlockSelf ==
  [grav          |-> IfNoAtomics(<<"gpart", "mpole">>),
   sink_gas      |-> <<"sink", "part">>,
   sink_sink     |-> <<"sink">>,
   stars         |-> <<"spart", "part">>,
   bh_gas        |-> <<"bpart", "part">>,
   bh_bh         |-> <<"bpart">>,
   limiter       |-> IfNoAtomics(<<"part">>),
   external_grav |-> <<"part">>,
   hydro         |-> <<"part">>]

(* Mutant: a build with atomics that unlocks all the same. *)
UnlockPairAlways == [LockPair EXCEPT !.limiter = <<"part">>]

UnlockPair ==
  [grav      |-> IfNoAtomics(<<"gpart", "mpole">>),
   sink_gas  |-> <<"sink", "part">>,
   sink_sink |-> <<"sink">>,
   stars     |-> <<"spart", "part">>,
   bh_gas    |-> <<"bpart", "part">>,
   bh_bh     |-> <<"bpart">>,
   limiter   |-> IfNoAtomics(<<"part">>),
   hydro     |-> <<"part">>]

UnlockLast ==
  [grav_down           |-> IfNoAtomics(<<"gpart", "mpole">>),
   grav_long_range     |-> IfNoAtomics(<<"mpole">>),
   grav_mm             |-> IfNoAtomics(<<"mpole">>),
   fof_self            |-> <<"gpart">>,
   fof_pair            |-> <<"gpart">>,
   star_formation      |-> <<"part", "spart", "gpart">>,
   star_formation_sink |-> <<"sink", "spart", "gpart">>,
   sink_formation      |-> <<"part", "sink", "gpart">>,
   other               |-> <<>>]

(***************************************************************************)
(* What task_lock gives back when the first, the second, ... of its locks  *)
(* is refused, before it returns 0: pairs of a kind and the name of one of *)
(* the task's cells.                                                       *)
(***************************************************************************)
Ci(k) == <<k, "ci">>

Cj(k) == <<k, "cj">>

UndoFirst ==
  [kick        |-> <<{}, {Ci("part")}>>,
   drift_part  |-> <<{}>>,
   stars_sort  |-> <<{}>>,
   drift_gpart |-> <<{}>>,
   drift_sink  |-> <<{}>>]

UndoSelf ==
  [grav          |-> IfNoAtomics(<<{}, {Ci("gpart")}>>),
   sink_gas      |-> <<{}, {Ci("sink")}>>,
   sink_sink     |-> <<{}>>,
   stars         |-> <<{}, {Ci("spart")}>>,
   bh_gas        |-> <<{}, {Ci("bpart")}>>,
   bh_bh         |-> <<{}>>,
   limiter       |-> IfNoAtomics(<<{}>>),
   external_grav |-> <<{}>>,
   hydro         |-> <<{}>>]

UndoPair ==
  [grav      |-> IfNoAtomics(
                   <<{}, {Ci("gpart")}, {Ci("gpart"), Cj("gpart")},
                     {Ci("gpart"), Cj("gpart"), Ci("mpole")}>>),
   sink_gas  |-> <<{}, {Ci("sink")}, {Ci("sink"), Cj("sink")},
                   {Ci("sink"), Cj("sink"), Ci("part")}>>,
   sink_sink |-> <<{}, {Ci("sink")}>>,
   stars     |-> <<{}, {Ci("spart")}, {Ci("spart"), Cj("spart")},
                   {Ci("spart"), Cj("spart"), Ci("part")}>>,
   bh_gas    |-> <<{}, {Ci("bpart")}, {Ci("bpart"), Cj("bpart")},
                   {Ci("bpart"), Cj("bpart"), Ci("part")}>>,
   bh_bh     |-> <<{}, {Ci("bpart")}>>,
   limiter   |-> IfNoAtomics(<<{}, {Ci("part")}>>),
   hydro     |-> <<{}, {Ci("part")}>>]

(* Mutant: a star formation task whose last lock is refused keeps the stars. *)
UndoLastShort ==
  [grav_down           |-> IfNoAtomics(<<{}, {Ci("gpart")}>>),
   grav_long_range     |-> IfNoAtomics(<<{}>>),
   grav_mm             |-> IfNoAtomics(<<{}, {Ci("mpole")}>>),
   fof_self            |-> <<{}>>,
   fof_pair            |-> <<{}, {Ci("gpart")}>>,
   star_formation      |-> <<{}, {Ci("part")}, {Ci("part")}>>,
   star_formation_sink |-> <<{}, {Ci("sink")}, {Ci("sink"), Ci("spart")}>>,
   sink_formation      |-> <<{}, {Ci("part")}, {Ci("part"), Ci("sink")}>>,
   other               |-> <<>>]

UndoLast ==
  [grav_down           |-> IfNoAtomics(<<{}, {Ci("gpart")}>>),
   grav_long_range     |-> IfNoAtomics(<<{}>>),
   grav_mm             |-> IfNoAtomics(<<{}, {Ci("mpole")}>>),
   fof_self            |-> <<{}>>,
   fof_pair            |-> <<{}, {Ci("gpart")}>>,
   star_formation      |-> <<{}, {Ci("part")}, {Ci("part"), Ci("spart")}>>,
   star_formation_sink |-> <<{}, {Ci("sink")}, {Ci("sink"), Ci("spart")}>>,
   sink_formation      |-> <<{}, {Ci("part")}, {Ci("part"), Ci("sink")}>>,
   other               |-> <<>>]

(* The types of task on two cells. *)
OnPair == {"pair", "grav_mm", "fof_pair"}

(* The locks on the cells of task t for a sequence of kinds. *)
LocksFor(t, kinds) ==
  IF t.type \in OnPair
  THEN [k \in 1..(2 * Len(kinds)) |->
          <<kinds[(k + 1) \div 2], IF k % 2 = 1 THEN t.ci ELSE t.cj>>]
  ELSE [k \in 1..Len(kinds) |-> <<kinds[k], t.ci>>]

(* The switches of task_lock and of task_unlock. *)
LockKinds(t) ==
  CASE t.type = "self" -> LockSelf[t.subtype]
    [] t.type = "pair" -> LockPair[t.subtype]
    [] t.type \in DOMAIN LockFirst -> LockFirst[t.type]
    [] OTHER -> LockLast[t.type]

UnlockKinds(t) ==
  CASE t.type = "self" -> UnlockSelf[t.subtype]
    [] t.type = "pair" -> UnlockPair[t.subtype]
    [] t.type \in DOMAIN UnlockFirst -> UnlockFirst[t.type]
    [] OTHER -> UnlockLast[t.type]

Undos(t) ==
  CASE t.type = "self" -> UndoSelf[t.subtype]
    [] t.type = "pair" -> UndoPair[t.subtype]
    [] t.type \in DOMAIN UndoFirst -> UndoFirst[t.type]
    [] OTHER -> UndoLast[t.type]

LockSeq(t) == LocksFor(t, LockKinds(t))

UnlockSeq(t) == LocksFor(t, UnlockKinds(t))

(* The locks task t gives back if the n-th is refused. *)
GivenBack(t, n) == {<<u[1], t[u[2]]>> : u \in Undos(t)[n]}

-----------------------------------------------------------------------------
TypeOK ==
  /\ granted \in [Thread -> SUBSET (Kind \X Cell)]
  /\ pc \in [Thread -> {"idle", "lock", "rollback", "run", "unlock"}]
  /\ job \in [Thread -> Job \cup {NoJob}]
  /\ at \in [Thread -> 1..5]
  /\ without_atomics \in BOOLEAN

Init ==
  /\ granted = [p \in Thread |-> {}]
  /\ pc = [p \in Thread |-> "idle"]
  /\ job = [p \in Thread |-> NoJob]
  /\ at = [p \in Thread |-> 1]
  /\ without_atomics \in BOOLEAN

OnPath(a, c) == \E i \in 1..Len(Path[c]) : Path[c][i] = a

Related(c, d) == OnPath(c, d) \/ OnPath(d, c)

(* Somebody has this kind of data of the branch of c, p itself included. *)
Taken(k, c) ==
  \E q \in Thread : \E g \in granted[q] : g[1] = k /\ Related(g[2], c)

(* The tasks the threads have now: each is in the hands of one thread. *)
Busy == {job[q] : q \in Thread}

Begin(p, t) ==
  /\ pc[p] = "idle"
  /\ t \notin Busy
  /\ job' = [job EXCEPT ![p] = t]
  /\ at' = [at EXCEPT ![p] = 1]
  /\ pc' = [pc EXCEPT ![p] = "lock"]
  /\ UNCHANGED <<granted, without_atomics>>

(* Mutant: the lock is granted whatever the ancestors are used for. *)
GrantSameCellOnly(p) ==
  /\ pc[p] = "lock"
  /\ at[p] <= Len(LockSeq(job[p]))
  /\ LET g == LockSeq(job[p])[at[p]]
     IN /\ \A q \in Thread : g \notin granted[q]
        /\ granted' = [granted EXCEPT ![p] = @ \cup {g}]
  /\ at' = [at EXCEPT ![p] = @ + 1]
  /\ UNCHANGED <<pc, job, without_atomics>>

(* The next tree lock is granted. *)
Grant(p) ==
  /\ pc[p] = "lock"
  /\ at[p] <= Len(LockSeq(job[p]))
  /\ LET g == LockSeq(job[p])[at[p]]
     IN /\ ~ Taken(g[1], g[2])
        /\ granted' = [granted EXCEPT ![p] = @ \cup {g}]
  /\ at' = [at EXCEPT ![p] = @ + 1]
  /\ UNCHANGED <<pc, job, without_atomics>>

(* It is refused. *)
Refuse(p) ==
  /\ pc[p] = "lock"
  /\ at[p] <= Len(LockSeq(job[p]))
  /\ pc' = [pc EXCEPT ![p] = "rollback"]
  /\ UNCHANGED <<granted, job, at, without_atomics>>

(* Give back what the case says, and return 0.  What others can do between  *)
(* two of these releases they can do after the last.                        *)
Rollback(p) ==
  /\ pc[p] = "rollback"
  /\ granted' = [granted EXCEPT ![p] = @ \ GivenBack(job[p], at[p])]
  /\ pc' = [pc EXCEPT ![p] = "idle"]
  /\ job' = [job EXCEPT ![p] = NoJob]
  /\ UNCHANGED <<at, without_atomics>>

(* All locks are there: return 1, and run the task. *)
Run(p) ==
  /\ pc[p] = "lock"
  /\ at[p] > Len(LockSeq(job[p]))
  /\ pc' = [pc EXCEPT ![p] = "run"]
  /\ UNCHANGED <<granted, job, at, without_atomics>>

(* scheduler_done calls task_unlock. *)
Done(p) ==
  /\ pc[p] = "run"
  /\ pc' = [pc EXCEPT ![p] = "unlock"]
  /\ at' = [at EXCEPT ![p] = 1]
  /\ UNCHANGED <<granted, job, without_atomics>>

Release(p) ==
  /\ pc[p] = "unlock"
  /\ at[p] <= Len(UnlockSeq(job[p]))
  /\ LET g == UnlockSeq(job[p])[at[p]]
     IN granted' = [granted EXCEPT ![p] = @ \ {g}]
  /\ at' = [at EXCEPT ![p] = @ + 1]
  /\ UNCHANGED <<pc, job, without_atomics>>

Released(p) ==
  /\ pc[p] = "unlock"
  /\ at[p] > Len(UnlockSeq(job[p]))
  /\ pc' = [pc EXCEPT ![p] = "idle"]
  /\ job' = [job EXCEPT ![p] = NoJob]
  /\ UNCHANGED <<granted, at, without_atomics>>

Next ==
  \E p \in Thread :
    \/ \E t \in Job : Begin(p, t)
    \/ Grant(p) \/ Refuse(p) \/ Rollback(p) \/ Run(p) \/ Done(p)
    \/ Release(p) \/ Released(p)

Spec == Init /\ [][Next]_vars

-----------------------------------------------------------------------------
(***************************************************************************)
(* No lock survives the task it was taken for: what task_lock gives back   *)
(* when it is refused covers what it had by then, and what task_unlock     *)
(* releases all of it, in each of the switches' cases.                     *)
(***************************************************************************)
NoLockLeaked == \A p \in Thread : pc[p] = "idle" => granted[p] = {}

(***************************************************************************)
(* A lock is only released by the task that has it, in task_unlock and in  *)
(* the rollbacks of task_lock; else another task's cell would be freed, or *)
(* "Failed to unlock cell." raised.                                        *)
(***************************************************************************)
ReleasesOwnLocks ==
  \A p \in Thread :
    /\ pc[p] = "unlock" /\ at[p] <= Len(UnlockSeq(job[p])) =>
         UnlockSeq(job[p])[at[p]] \in granted[p]
    /\ pc[p] = "rollback" => GivenBack(job[p], at[p]) \subseteq granted[p]

(***************************************************************************)
(* Tasks that run at the same time never have the same kind of data of one *)
(* branch of the tree, in either of their cells.                           *)
(***************************************************************************)
LocksOf(t) ==
  {LockSeq(t)[k] : k \in DOMAIN LockSeq(t)}

RunningApart ==
  \A p, q \in Thread :
    p # q /\ pc[p] = "run" /\ pc[q] = "run" =>
      \A g \in LocksOf(job[p]), h \in LocksOf(job[q]) :
        g[1] = h[1] => ~ Related(g[2], h[2])

(***************************************************************************)
(* "We can't have two independent tasks working on the same data           *)
(* concurrently": two gravity tasks that run at the same time do not add   *)
(* to the accelerations of the gparts of one branch, in a build that does  *)
(* not use atomics for it.  Neither self-gravity nor external gravity      *)
(* comes before the other.                                                 *)
(***************************************************************************)
CellsOf(t) == IF t.type \in OnPair THEN {t.ci, t.cj} ELSE {t.ci}

AddsToAcceleration(t) ==
  t.type \in {"self", "pair"} /\ t.subtype \in {"grav", "external_grav"}

GravityApart ==
  \A p, q \in Thread :
    /\ without_atomics
    /\ p # q /\ pc[p] = "run" /\ pc[q] = "run"
    /\ AddsToAcceleration(job[p]) /\ AddsToAcceleration(job[q])
    => \A c \in CellsOf(job[p]), d \in CellsOf(job[q]) : ~ Related(c, d)
=============================================================================
